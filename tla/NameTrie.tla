------------------------------ MODULE NameTrie ------------------------------
(***************************************************************************)
(* The trie of extended command names: TrieBuilder, which packs the names  *)
(* into bytes at compile time, and Trie, which walks the bytes as the      *)
(* parser reads a name.                                                    *)
(*                                                                         *)
(* A node is packed as a header (the character, a flag for a node that     *)
(* ends a name, a flag for the last of its siblings), the index of the     *)
(* command if it ends a name, the size of its subtree, and its children in *)
(* the order the names first need them.  Index and size are written in     *)
(* groups of 7 bits, a flag saying that another byte follows.  MASKS_LEAF  *)
(* is a constant, so that small tries need the second and third byte.      *)
(***************************************************************************)
EXTENDS Integers, SequencesExt

CONSTANTS
    Tables,                       \* lists of names, one of which is compiled in
    Alphabetic, Numeric, Special, \* the groups of the alphabet, in order
    Chars,                        \* characters the parser can be fed
    MASKS_LEAF,                   \* 1 << 6: above every encoded character
    none                          \* no character is being looked up

MASKS_LAST == 2 * MASKS_LEAF
LOW        == MASKS_LAST          \* values below fit the 7 bits of a byte

alphabet == Alphabetic \o Numeric \o Special
Encodable == ToSet(alphabet)

ASSUME MaskAssumption == MASKS_LEAF \in Nat \ {0} /\ Len(alphabet) <= MASKS_LEAF
ASSUME AlphabetAssumption ==
    /\ \A group \in {Alphabetic, Numeric, Special} : group \in Seq(ToSet(group))
    /\ IsInjective(alphabet)
    /\ none \notin Chars

(* buildTrie refuses an unsupported character and a duplicated name; a     *)
(* name is not empty; at most 0x3FFF commands.                             *)
ASSUME TablesAssumption ==
    \A t \in Tables : /\ t \in Seq(Seq(Encodable) \ {<<>>})
                      /\ IsInjective(t)
                      /\ Len(t) < LOW * LOW

-----------------------------------------------------------------------------
(* Characters. *)

Position(group, ch) == CHOOSE i \in DOMAIN group : group[i] = ch

Encode(ch) ==
    CASE ch \in ToSet(Alphabetic) -> Position(Alphabetic, ch) - 1
      [] ch \in ToSet(Numeric)    -> Len(Alphabetic) + Position(Numeric, ch) - 1
      [] ch \in ToSet(Special)    ->
            Len(Alphabetic) + Len(Numeric) + Position(Special, ch) - 1

Decode(code) == alphabet[code + 1]

-----------------------------------------------------------------------------
(* TrieBuilder.  A node is the prefix that leads to it. *)

Nodes(t) == {<<>>} \cup UNION {{SubSeq(t[i], 1, k) : k \in DOMAIN t[i]} : i \in DOMAIN t}

(* leaf_cmd_index: one more than the index of the command, 0 if none. *)
LeafCmdIndex(t, p) == IF p \in ToSet(t) THEN Position(t, p) ELSE 0

(* A child is appended when the first name that needs it is inserted. *)
Insert(kids, q) == IF q \in ToSet(kids) THEN kids ELSE Append(kids, q)

Children(t, p) ==
    LET kids[n \in 0 .. Len(t)] ==
          IF n = 0 THEN <<>>
          ELSE IF ~IsStrictPrefix(p, t[n]) THEN kids[n - 1]
          ELSE Insert(kids[n - 1], SubSeq(t[n], 1, Len(p) + 1))
    IN  kids[Len(t)]

(* Mutant of IndexSize: the bound is off by one. *)
IndexSizeLate(index) ==
    IF index = 0 THEN 0 ELSE IF index > LOW + 1 THEN 2 ELSE 1

IndexSize(index) == IF index = 0 THEN 0 ELSE IF index > LOW THEN 2 ELSE 1
SizeSize(size)   == IF size >= LOW * LOW THEN 3 ELSE IF size >= LOW THEN 2 ELSE 1

(* calcSubtreeSize: the bytes of the children, and with the node itself. *)
Total(sizes) ==
    LET sum[k \in 0 .. Len(sizes)] == IF k = 0 THEN 0 ELSE sum[k - 1] + sizes[k]
    IN  sum[Len(sizes)]
KidSizes(size, kids) == [i \in 1 .. Len(kids) |-> size[kids[i]].rooted]
WithNode(index, below) ==
    [subtree |-> below, rooted |-> below + 1 + IndexSize(index) + SizeSize(below)]

SubtreeSizes(t) ==
    LET size[p \in Nodes(t)] ==
          WithNode(LeafCmdIndex(t, p), Total(KidSizes(size, Children(t, p))))
    IN  size

GetTrieSize(t) == SubtreeSizes(t)[<<>>].rooted

(* calcSubtreeSize refuses a subtree whose size does not fit three bytes.  *)
ASSUME SizesAssumption ==
    \A t \in Tables : \A p \in Nodes(t) :
        SubtreeSizes(t)[p].subtree < 2 * (LOW * (LOW * LOW))

Header(t, p) == (IF p = <<>> THEN 0 ELSE Encode(Last(p)))
                  + (IF LeafCmdIndex(t, p) # 0 THEN MASKS_LEAF ELSE 0)

PackIndex(index) ==
    IF index = 0 THEN <<>>
    ELSE IF index <= LOW THEN <<index - 1>>
    ELSE <<LOW + ((index - 1) % LOW), (index - 1) \div LOW>>

PackSize(size) ==
    IF size < LOW THEN <<size>>
    ELSE IF size < LOW * LOW THEN <<LOW + (size % LOW), size \div LOW>>
    ELSE <<LOW + (size % LOW), LOW + ((size \div LOW) % LOW),
           (size \div (LOW * LOW)) % (2 * LOW)>>

NodeBytes(t, p) ==
    <<Header(t, p)>> \o PackIndex(LeafCmdIndex(t, p)) \o PackSize(SubtreeSizes(t)[p].subtree)

(* The last child is marked once it has been packed. *)
MarkLast(bytes) == [bytes EXCEPT ![1] = @ + MASKS_LAST]
KidBytes(pack, kids) ==
    [i \in 1 .. Len(kids) |-> IF i = Len(kids) THEN MarkLast(pack[kids[i]]) ELSE pack[kids[i]]]

Packed(t) ==
    LET pack[p \in Nodes(t)] ==
          NodeBytes(t, p) \o FlattenSeq(KidBytes(pack, Children(t, p)))
    IN  pack
Pack(t) == Packed(t)[<<>>]

-----------------------------------------------------------------------------
VARIABLES
    names,     \* the names compiled in
    m_trie,    \* the bytes
    m_pos,     \* the position in them, from 0
    asked,     \* the character feed() is looking for, or none
    read,      \* the characters accepted since the reset
    rejected   \* the last call of feed() returned false

vars == <<names, m_trie, m_pos, asked, read, rejected>>

(* A byte behind the end has no meaning; ReadsInside: none is read. *)
At(pos) == IF pos < Len(m_trie) THEN m_trie[pos + 1] ELSE 0

More(pos)     == At(pos) >= LOW               \* bit 7 of a number byte
LowPart(pos)  == At(pos) % LOW                \* & 0x7F
NodeChar(pos) == Decode(At(pos) % MASKS_LEAF)
IsLast(pos)   == At(pos) >= MASKS_LAST
IsLeaf(pos)   == (At(pos) \div MASKS_LEAF) % 2 = 1

(* Where the size of the node at pos is. *)
SkipCommandIndex(pos) ==
    pos + IF ~IsLeaf(pos) THEN 1 ELSE IF ~More(pos + 1) THEN 2 ELSE 3

(* The number at pos, of one, two or three bytes, and where it ends. *)
GetSubtreeSize(pos) ==
    LowPart(pos) +
       IF ~More(pos) THEN 0
       ELSE LOW * (LowPart(pos + 1) +
                     IF ~More(pos + 1) THEN 0 ELSE LOW * At(pos + 2))
SkipSubtreeSize(pos) ==
    pos + IF ~More(pos) THEN 1 ELSE IF ~More(pos + 1) THEN 2 ELSE 3

GetCommandIndex == LowPart(m_pos + 1) +
                      IF More(m_pos + 1) THEN LOW * At(m_pos + 2) ELSE 0

Init == /\ names \in Tables
        /\ m_trie = Pack(names)
        /\ m_pos = 0 /\ asked = none /\ read = <<>> /\ rejected = FALSE

Reset == /\ asked = none
         /\ m_pos' = 0 /\ read' = <<>> /\ rejected' = FALSE
         /\ UNCHANGED <<names, m_trie, asked>>

(* Mutant of Feed: no test for a node that has no children. *)
FeedAnyway(ch) ==
    /\ asked = none /\ ~rejected
    /\ m_pos' = SkipSubtreeSize(SkipCommandIndex(m_pos))
    /\ asked' = ch
    /\ UNCHANGED <<names, m_trie, read, rejected>>

(* feed: to the first child, if there is one. *)
Feed(ch) ==
    LET size == SkipCommandIndex(m_pos)
    IN  /\ asked = none /\ ~rejected
        /\ m_pos' = SkipSubtreeSize(size)
        /\ \/ GetSubtreeSize(size) = 0 /\ rejected' = TRUE /\ UNCHANGED asked
           \/ GetSubtreeSize(size) # 0 /\ asked' = ch /\ UNCHANGED rejected
        /\ UNCHANGED <<names, m_trie, read>>

ChildFound == /\ asked # none /\ NodeChar(m_pos) = asked
              /\ asked' = none /\ read' = Append(read, asked)
              /\ UNCHANGED <<names, m_trie, m_pos, rejected>>

NoChild == /\ asked # none /\ NodeChar(m_pos) # asked /\ IsLast(m_pos)
           /\ m_pos' = 0 /\ rejected' = TRUE /\ asked' = none
           /\ UNCHANGED <<names, m_trie, read>>

(* Mutant of NextSibling: to the next node, which may be a child. *)
NextNode == /\ asked # none /\ NodeChar(m_pos) # asked /\ ~IsLast(m_pos)
            /\ m_pos' = SkipSubtreeSize(SkipCommandIndex(m_pos))
            /\ UNCHANGED <<names, m_trie, asked, read, rejected>>

NextSibling ==
    LET size == SkipCommandIndex(m_pos)
    IN  /\ asked # none /\ NodeChar(m_pos) # asked /\ ~IsLast(m_pos)
        /\ m_pos' = SkipSubtreeSize(size) + GetSubtreeSize(size)
        /\ UNCHANGED <<names, m_trie, asked, read, rejected>>

Scan == ChildFound \/ NoChild \/ NextSibling

Next == Reset \/ (\E ch \in Chars : Feed(ch)) \/ Scan

(* feed() is a loop of one call: once begun it runs on. *)
Spec == Init /\ [][Next]_vars /\ WF_vars(Scan)

-----------------------------------------------------------------------------
(* calcSubtreeSize fixes the size of the array before pack() fills it: the *)
(* two count the bytes of every node alike.                                *)
PackedToSize == Len(m_trie) = GetTrieSize(names)

(* The walk stands at the beginning of a node whose header, index and size *)
(* lie in the array, however many bytes they take: no call of feed(),      *)
(* isLeaf() or getCommandIndex() reads behind its end.                     *)
ReadsInside ==
    ~rejected => SkipSubtreeSize(SkipCommandIndex(m_pos)) <= Len(m_trie)

(* The bytes and the walk implement a lookup in the list of names: the     *)
(* same characters are accepted and a complete name gives the index of its *)
(* command, with names that are prefixes of others, siblings to be skipped *)
(* over their whole subtree and numbers of one to three bytes.  Every call *)
(* of feed() returns.                                                      *)
Lookup == INSTANCE NameLookup WITH
    found <- IF asked = none /\ ~rejected /\ IsLeaf(m_pos)
             THEN GetCommandIndex + 1 ELSE 0
ImplementsLookup == Lookup!Spec
=============================================================================
