----------------------------- MODULE BitString -----------------------------
(***************************************************************************)
(* BitString: which of N slots are allocated, a bit each, and the searches *)
(* of the allocators that use it: the first run of free slots at an        *)
(* alignment, skipping full words, and the first set bit from a place on.  *)
(*                                                                         *)
(* The bits of B that are set are a set of positions. In the last word the *)
(* bits from N on stay set, which is what ends a search at N; with N a     *)
(* multiple of the word there are none, and allocate reads beyond B.       *)
(***************************************************************************)
EXTENDS Integers, FiniteSetsExt

CONSTANTS
    BsBits,         \* N
    BsLengths,      \* the lengths that are asked for and given back at once
    BsAlignments    \* the alignments that are asked for

BITS_PER_ULONG == 32

ASSUME BsAssumption == /\ BsBits \in Nat /\ BsBits % BITS_PER_ULONG # 0
                       /\ BsLengths \subseteq 1 .. BsBits
                       /\ BsAlignments \subseteq Nat \ {0}

VARIABLES
    bits,           \* B: the bits that are set
    firstPos,       \* firstPos
    bsHeld          \* the runs of slots the program holds: <<first, length>>

bsVars == <<bits, firstPos, bsHeld>>

NUM_ULONGS == (BsBits + BITS_PER_ULONG - 1) \div BITS_PER_ULONG
BsRun(first, length) == first .. first + length - 1
Word(i) == BsRun(i * BITS_PER_ULONG, BITS_PER_ULONG)

\* clear, and the constructor: every slot is allocated.
BsInit ==
    /\ bits = 0 .. NUM_ULONGS * BITS_PER_ULONG - 1
    /\ firstPos = 0
    /\ bsHeld = {<<0, BsBits>>}

BsClear ==
    /\ bits' = 0 .. NUM_ULONGS * BITS_PER_ULONG - 1
    /\ firstPos' = 0
    /\ bsHeld' = {<<0, BsBits>>}

\* The first multiple of the alignment from a position on.
Adjusted(p, alignment) == ((p + alignment - 1) \div alignment) * alignment

\* Seeded fault: a run that is too short is left bit by bit.
BsSearchUnaligned(S, length, alignment) ==
    LET from[p \in Nat] ==
          LET set == {j \in 0 .. length - 1 : p + j \in S}
          IN  IF p >= BsBits THEN -1
              ELSE IF Word(p \div BITS_PER_ULONG) \subseteq S
              THEN from[(p \div BITS_PER_ULONG + 1) * BITS_PER_ULONG]
              ELSE IF set = {} THEN p ELSE from[p + Min(set) + 1]
    IN  from[firstPos]

\* The search of allocate: a full word is skipped, and so is what ends a run
\* that is too short.
BsSearch(S, length, alignment) ==
    LET from[p \in Nat] ==
          LET set == {j \in 0 .. length - 1 : p + j \in S}
          IN  IF p >= BsBits THEN -1
              ELSE IF Word(p \div BITS_PER_ULONG) \subseteq S
              THEN from[Adjusted((p \div BITS_PER_ULONG + 1) * BITS_PER_ULONG, alignment)]
              ELSE IF p \in S THEN from[p + alignment]
              ELSE IF set = {} THEN p
              ELSE from[Adjusted(p + Min(set), alignment)]
    IN  from[firstPos]

BsAllocate(length, alignment) ==
    LET p == BsSearch(bits, length, alignment)
    IN  /\ p # -1
        /\ bits' = bits \cup BsRun(p, length)
        /\ firstPos' = Min({firstPos, p})
        /\ bsHeld' = bsHeld \cup {<<p, length>>}

\* free, of all or of the beginning of a run.
BsFree(r, length) ==
    /\ r \in bsHeld
    /\ length <= r[2]
    /\ bits' = bits \ BsRun(r[1], length)
    /\ bsHeld' = (bsHeld \ {r}) \cup
                 {s \in {<<r[1] + length, r[2] - length>>} : s[2] > 0}
    /\ UNCHANGED firstPos

\* lsb: the lowest bit of a word, isolated, shifts a de Bruijn sequence (its 32 bits,
\* from the top one on); the five bits that reach the top say how far.
index32 == <<0, 1, 28, 2, 29, 14, 24, 3, 30, 22, 20, 15, 25, 17, 4, 8,
             31, 27, 13, 23, 21, 19, 16, 7, 26, 12, 18, 6, 11, 5, 10, 9>>
debruijn32 == <<0, 0, 0, 0, 0, 1, 1, 1, 0, 1, 1, 1, 1, 1, 0, 0, 1, 0, 1, 1, 0, 1, 0, 1, 0, 0, 1, 1, 0, 0, 0, 1>>

lsb(word) ==
    LET k == Min(word)
        bit(j) == IF k + j < BITS_PER_ULONG THEN debruijn32[k + j + 1] ELSE 0
    IN  index32[16 * bit(0) + 8 * bit(1) + 4 * bit(2) + 2 * bit(3) + bit(4) + 1]

firstAfter(index) ==
    LET from[i \in Nat] ==
          LET low == IF i = index \div BITS_PER_ULONG THEN index % BITS_PER_ULONG ELSE 0
              word == {b \in low .. BITS_PER_ULONG - 1 : i * BITS_PER_ULONG + b \in bits}
          IN  IF i >= NUM_ULONGS THEN -1
              ELSE IF word # {} THEN i * BITS_PER_ULONG + lsb(word)
              ELSE from[i + 1]
    IN  from[index \div BITS_PER_ULONG]

BsNext ==
    \/ BsClear
    \/ \E length \in BsLengths, alignment \in BsAlignments : BsAllocate(length, alignment)
    \/ \E r \in bsHeld : \E length \in BsLengths \cup {r[2]} : BsFree(r, length)

BsSpec == BsInit /\ [][BsNext]_bsVars
-----------------------------------------------------------------------------
\* The least element of a set of positions, or -1.
LeastOf(S) == IF S = {} THEN -1 ELSE Min(S)

\* A bit is set exactly for the slots of the runs that are held, which are disjoint.
\* Whatever was given back before, allocate finds the first free run of the length at the
\* alignment, and fails only if there is none; firstAfter, asked where runs begin and end,
\* finds the first set bit.
BitsMatchRuns ==
    /\ bits \cap 0 .. BsBits - 1 = UNION {BsRun(r[1], r[2]) : r \in bsHeld}
    /\ \A r, s \in bsHeld : r # s => BsRun(r[1], r[2]) \cap BsRun(s[1], s[2]) = {}
    /\ \A length \in BsLengths, alignment \in BsAlignments :
          BsSearch(bits, length, alignment) =
             LeastOf({p \in 0 .. BsBits - length :
                        p % alignment = 0 /\ BsRun(p, length) \cap bits = {}})
    /\ \A r \in bsHeld : \A index \in {r[1], r[1] + r[2]} :
          firstAfter(index) = LeastOf({b \in bits : b >= index})
=============================================================================
