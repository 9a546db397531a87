--------------------------- MODULE Structures_proofs ---------------------------
(***************************************************************************)
(* Proofs about what a process keeps for itself: the pool with a list and  *)
(* an array (MemoryPool), for every size of the blocks, of the elements    *)
(* and of what the program asks for; the table of the channels             *)
(* (HashTable), for every set of channels and every sequence of table      *)
(* sizes; and wherever memory runs out.                                    *)
(*                                                                         *)
(* What a call does to a pool is an operator, so most lemmas are about any *)
(* pool P and its outcomes; the last part says it of the variables.  The   *)
(* table grows in steps, and the lemmas about it are about one entry that  *)
(* is linked, unlinked or written.                                         *)
(***************************************************************************)
EXTENDS MemoryPool, HashTable, TLAPS, WellFoundedInduction, SequenceTheorems, FiniteSetTheorems

(* A set of numbers of blocks has a least and a greatest one.              *)
LEMMA Least ==
  ASSUME NEW S \in SUBSET Nat, S # {}
  PROVE  \E m \in S : \A n \in S : m <= n
<1>1. PICK m \in S : \A n \in S : <<n, m>> \notin OpToRel(<, Nat)
  BY NatLessThanWellFounded, WFMin
<1>2. ASSUME NEW n \in S, n < m PROVE <<n, m>> \in OpToRel(<, Nat)
  BY <1>2 DEF OpToRel
<1>3. ASSUME NEW n \in S PROVE m <= n
  <2>1. ~ n < m
    BY <1>1, <1>2
  <2>2. n \in Nat /\ m \in Nat
    OBVIOUS
  <2> QED BY <2>1, <2>2
<1> QED BY <1>3

LEMMA Greatest ==
  ASSUME NEW top \in Nat, NEW S \in SUBSET (1 .. top), S # {}
  PROVE  \E m \in S : \A n \in S : n <= m
<1> DEFINE D == {top - n : n \in S}
<1>1. D \in SUBSET Nat
  OBVIOUS
<1>0. D # {}
  <2>1. PICK n \in S : TRUE
    OBVIOUS
  <2>2. top - n \in D
    OBVIOUS
  <2> QED BY <2>2
<1>2. PICK d \in D : \A e \in D : d <= e
  BY <1>0, <1>1, Least
<1>3. PICK m \in S : d = top - m
  OBVIOUS
<1>4. ASSUME NEW n \in S PROVE n <= m
  <2>1. d <= top - n
    BY <1>2
  <2> QED BY <2>1, <1>3
<1> QED BY <1>4

-------------------------------------------------------------------------------
(* The pool and its parts.                                                 *)

BlockType == [last : Nat, failed : Nat]
EntryType == [alloc : -MaxLarge .. 0, entry : PieceType]
Pieces    == UNION {[D -> PieceType] : D \in SUBSET Serial}
HeapType  == SUBSET ((-MaxLarge .. MaxBlocks) \ {0})

PoolType == [alive : BOOLEAN, blocks : Seq(BlockType), current : Nat, large : Seq(EntryType),
             heap : HeapType, pieces : Pieces]

Begins(b) == IF b = 1 THEN PoolHead ELSE DataHead

(* Only in a block that does not end on the alignment the next free byte   *)
(* may be behind the end.                                                  *)
Held(last) == last <= Size \/ Size % Alignment # 0

Whole(P) ==
  /\ P \in PoolType
  /\ Len(P.blocks) <= MaxBlocks
  /\ \A b \in DOMAIN P.blocks : Held(P.blocks[b].last)
  /\ \A b \in DOMAIN P.blocks : P.blocks[b].last >= Begins(b)
  /\ P.alive => P.current \in DOMAIN P.blocks

In(P, m) ==
  /\ m.block \in DOMAIN P.blocks
  /\ m.at >= Begins(m.block)
  /\ m.at + m.size <= P.blocks[m.block].last
  /\ InBlock(m) \/ Behind(m)
  /\ m.size > 0

Separate(P) ==
  /\ \A s \in DOMAIN P.pieces : In(P, P.pieces[s])
  /\ \A s, t \in DOMAIN P.pieces : s # t => Apart(P.pieces[s], P.pieces[t])

Accounted(P) ==
  /\ P.heap = DOMAIN P.blocks \cup (Allocs(P) \ {0})
  /\ \A i, j \in DOMAIN P.large : P.large[i].alloc = P.large[j].alloc /\ i # j => P.large[i].alloc = 0

(* Q has all that P has.                                                   *)
Keeps(P, Q) ==
  /\ Q.alive = P.alive
  /\ DOMAIN P.pieces \subseteq DOMAIN Q.pieces
  /\ \A s \in DOMAIN P.pieces : Q.pieces[s] = P.pieces[s]
  /\ P.heap \subseteq Q.heap

(* m is NULL, or new in Q and of that size.                                *)
New(P, Q, m, size) ==
  /\ m \in MemType
  /\ m # NULL => /\ m.size = size /\ m.block # 0
                 /\ IsLarge(m) => m.block \in Q.heap \ P.heap
                 /\ ~IsLarge(m) => \E s \in DOMAIN Q.pieces \ DOMAIN P.pieces : Q.pieces[s] = m

LEMMA PieceFacts ==
  ASSUME NEW m \in PieceType
  PROVE  /\ m.block \in 1 .. MaxBlocks /\ m.at \in Nat /\ m.size \in Nat
         /\ ~IsLarge(m) /\ m # NULL /\ m \in MemType
  BY PoolAssumption DEF PieceType, MemType, IsLarge, NULL

LEMMA AlignFacts ==
  ASSUME NEW m \in Nat
  PROVE  /\ Align(m) \in Nat /\ m <= Align(m)
         /\ m <= Size => Held(Align(m))
         /\ Align(DataHead) = DataHead
<1>1. Size \in Nat
  BY PoolAssumption
<1>2. Align(m) = m + ((8 - (m % 8)) % 8)
  BY DEF Align, Alignment
<1>3. Align(DataHead) = DataHead
  BY DEF Align, Alignment, DataHead
<1>4. Align(m) \in Nat /\ m <= Align(m)
  BY <1>2
<1>5. Size % 8 = 0 /\ m <= Size => Align(m) <= Size
  BY <1>1, <1>2
<1> QED BY <1>3, <1>4, <1>5 DEF Held, Alignment

LEMMA StartFacts ==
  ASSUME NEW last \in Nat, Held(last), NEW aligned \in BOOLEAN
  PROVE  Start(last, aligned) \in Nat /\ last <= Start(last, aligned) /\ Held(Start(last, aligned))
<1>1. CASE aligned = TRUE
  BY <1>1, AlignFacts DEF Start, Held
<1>2. CASE aligned = FALSE
  BY <1>2 DEF Start
<1> QED BY <1>1, <1>2

LEMMA MaxSmallFacts ==
  MaxSmall \in Nat /\ LargeHead <= MaxSmall /\ MaxSmall <= Size - PoolHead
  BY PoolAssumption DEF MaxSmall, LargeHead, PoolHead, MaxAlloc, Alignment

LEMMA PoolFacts ==
  ASSUME NEW P, Whole(P)
  PROVE  /\ P.alive \in BOOLEAN /\ P.blocks \in Seq(BlockType) /\ P.current \in Nat
         /\ P.large \in Seq(EntryType) /\ P.heap \in HeapType /\ P.pieces \in Pieces
         /\ DOMAIN P.blocks = 1 .. Len(P.blocks) /\ Len(P.blocks) \in 0 .. MaxBlocks
         /\ \A b \in DOMAIN P.blocks : P.blocks[b] \in BlockType
         /\ \A b \in DOMAIN P.blocks : P.blocks[b].last \in Nat /\ P.blocks[b].failed \in Nat
         /\ DOMAIN P.pieces \subseteq Serial /\ \A s \in DOMAIN P.pieces : P.pieces[s] \in PieceType
<1>1. P \in PoolType /\ Len(P.blocks) <= MaxBlocks
  BY DEF Whole
<1>2. /\ P.alive \in BOOLEAN /\ P.blocks \in Seq(BlockType) /\ P.current \in Nat
      /\ P.large \in Seq(EntryType) /\ P.heap \in HeapType /\ P.pieces \in Pieces
  BY <1>1 DEF PoolType
<1>3. DOMAIN P.blocks = 1 .. Len(P.blocks) /\ Len(P.blocks) \in 0 .. MaxBlocks
  BY <1>1, <1>2, LenProperties, PoolAssumption
<1>4. \A b \in DOMAIN P.blocks : P.blocks[b] \in BlockType
  BY <1>2, <1>3, ElementOfSeq
<1>5. \A b \in DOMAIN P.blocks : P.blocks[b].last \in Nat /\ P.blocks[b].failed \in Nat
  BY <1>4 DEF BlockType
<1>6. DOMAIN P.pieces \subseteq Serial /\ \A s \in DOMAIN P.pieces : P.pieces[s] \in PieceType
  BY <1>2 DEF Pieces
<1> QED BY <1>2, <1>3, <1>4, <1>5, <1>6

(* The piece m is added under a number that is not in use.                 *)
LEMMA AddedFacts ==
  ASSUME NEW P, P.pieces \in Pieces, Unused(P) # {}, NEW m \in PieceType
  PROVE  \E new \in Serial \ DOMAIN P.pieces :
           /\ Added(P, m) \in Pieces /\ DOMAIN Added(P, m) = DOMAIN P.pieces \cup {new}
           /\ Added(P, m)[new] = m
           /\ \A s \in DOMAIN P.pieces : Added(P, m)[s] = P.pieces[s]
<1> DEFINE new == CHOOSE s \in Unused(P) : TRUE
           D == DOMAIN P.pieces \cup {new}
<1>1. new \in Serial \ DOMAIN P.pieces
  BY DEF Unused
<1>2. DOMAIN P.pieces \subseteq Serial /\ \A s \in DOMAIN P.pieces : P.pieces[s] \in PieceType
  BY DEF Pieces
<1>3. Added(P, m) = [s \in D |-> IF s = new THEN m ELSE P.pieces[s]]
  BY DEF Added
<1>4. D \in SUBSET Serial
  BY <1>1, <1>2
<1> HIDE DEF new
<1>5. Added(P, m) \in [D -> PieceType]
  BY <1>2, <1>3
<1>6. Added(P, m) \in Pieces
  BY <1>4, <1>5 DEF Pieces
<1> QED BY <1>1, <1>3, <1>6

(* A piece that begins behind what was taken of its block is apart from    *)
(* all the others.                                                         *)
LEMMA SeparateAdded ==
  ASSUME NEW P, Whole(P), Separate(P), NEW Q, Whole(Q), NEW m \in PieceType,
         Unused(P) # {}, Q.pieces = Added(P, m), In(Q, m),
         DOMAIN P.blocks \subseteq DOMAIN Q.blocks,
         \A b \in DOMAIN P.blocks : P.blocks[b].last <= Q.blocks[b].last,
         m.block \in DOMAIN P.blocks => P.blocks[m.block].last <= m.at
  PROVE  Separate(Q)
<1>0. P.pieces \in Pieces
  BY PoolFacts
<1>a. PICK new \in Serial \ DOMAIN P.pieces :
           /\ Added(P, m) \in Pieces /\ DOMAIN Added(P, m) = DOMAIN P.pieces \cup {new}
           /\ Added(P, m)[new] = m
           /\ \A s \in DOMAIN P.pieces : Added(P, m)[s] = P.pieces[s]
  BY <1>0, AddedFacts
<1>1. /\ new \in Serial \ DOMAIN P.pieces
      /\ DOMAIN Q.pieces = DOMAIN P.pieces \cup {new} /\ Q.pieces[new] = m
      /\ \A s \in DOMAIN P.pieces : Q.pieces[s] = P.pieces[s]
  BY <1>a
<1>2. ASSUME NEW s \in DOMAIN P.pieces
      PROVE  In(Q, P.pieces[s]) /\ Apart(P.pieces[s], m) /\ Apart(m, P.pieces[s])
  <2> DEFINE p == P.pieces[s]
  <2>1. p \in PieceType /\ In(P, p)
    BY <1>2, PoolFacts DEF Separate
  <2>2. p.at \in Nat /\ p.size \in Nat /\ p.block \in Nat /\ m.at \in Nat /\ m.size \in Nat
    BY <2>1, PieceFacts
  <2> HIDE DEF p
  <2>3. p.block \in DOMAIN P.blocks /\ p.at + p.size <= P.blocks[p.block].last /\ p.size > 0
        /\ p.at >= Begins(p.block) /\ (InBlock(p) \/ Behind(p))
    BY <2>1 DEF In
  <2>4. P.blocks[p.block].last \in Nat /\ Q.blocks[p.block].last \in Nat
    BY <2>3, PoolFacts
  <2>5. In(Q, p)
    BY <2>2, <2>3, <2>4 DEF In
  <2>6. m.block = p.block => p.at + p.size <= m.at
    BY <2>2, <2>3, <2>4
  <2>7. Apart(p, m) /\ Apart(m, p)
    BY <2>6 DEF Apart
  <2> QED BY <2>5, <2>7 DEF p
<1>3. \A s \in DOMAIN Q.pieces : In(Q, Q.pieces[s])
  BY <1>1, <1>2
<1>4. ASSUME NEW s \in DOMAIN Q.pieces, NEW t \in DOMAIN Q.pieces, s # t
      PROVE  Apart(Q.pieces[s], Q.pieces[t])
  <2>1. CASE s \in DOMAIN P.pieces /\ t \in DOMAIN P.pieces
    BY <2>1, <1>1, <1>4 DEF Separate
  <2>2. CASE s = new \/ t = new
    BY <2>2, <1>1, <1>2, <1>4
  <2> QED BY <2>1, <2>2, <1>1
<1> QED BY <1>3, <1>4 DEF Separate

(* What an allocation from the blocks does to the rest of the pool.        *)
Taken(P, o, size) ==
  /\ Whole(o.pool) /\ Separate(o.pool)
  /\ o.pool.large = P.large
  /\ DOMAIN P.blocks \subseteq DOMAIN o.pool.blocks
  /\ o.pool.heap = P.heap \cup (DOMAIN o.pool.blocks \ DOMAIN P.blocks)
  /\ Keeps(P, o.pool)
  /\ New(P, o.pool, o.mem, size)
  /\ o.mem = NULL => o.pool = P
  /\ o.mem # NULL => o.mem \in PieceType

LEMMA TakenNothing ==
  ASSUME NEW P, Whole(P), Separate(P), NEW size
  PROVE  Taken(P, Outcome(P, NULL), size)
  BY DEF Taken, Outcome, Keeps, New, MemType

(* size bytes at m, in the block first that has room for them.             *)
LEMMA TakenFromBlock ==
  ASSUME NEW P, Whole(P), Separate(P), P.alive = TRUE, Unused(P) # {},
         NEW first \in DOMAIN P.blocks, NEW size \in Nat \ {0},
         NEW m \in Nat, P.blocks[first].last <= m, Held(m), Fits(m, size)
  PROVE  Taken(P, Outcome([P EXCEPT !.blocks[first].last = m + size, !.pieces = Added(P, Piece(first, m, size))],
                          Piece(first, m, size)), size)
<1> DEFINE p == Piece(first, m, size)
           new_block == [P.blocks[first] EXCEPT !.last = m + size]
           Q == [P EXCEPT !.blocks[first].last = m + size, !.pieces = Added(P, p)]
<1>0. /\ Size \in Nat /\ m + size \in Nat /\ P.blocks[first].last \in Nat
      /\ P.blocks[first].last <= m
  BY PoolAssumption, PoolFacts
<1>c. Held(m + size) /\ (m + size <= Size \/ (Size % Alignment # 0 /\ m > Size))
  BY <1>0 DEF Held, Fits
<1>1. p \in PieceType /\ p.block = first /\ p.at = m /\ p.size = size
  <2>1. first \in 1 .. MaxBlocks /\ size \in Nat
    BY <1>0, PoolFacts, PoolAssumption
  <2> QED BY <2>1 DEF Piece, PieceType
<1> HIDE DEF p
<1>2. P.blocks[first] \in BlockType
  BY PoolFacts
<1>3. new_block \in BlockType /\ new_block.last = m + size
  BY <1>0, <1>2 DEF BlockType
<1> HIDE DEF new_block
<1>4. P \in PoolType
  BY DEF Whole
<1>5. /\ Q.blocks = [P.blocks EXCEPT ![first] = new_block] /\ Q.pieces = Added(P, p)
      /\ Q.alive = P.alive /\ Q.current = P.current /\ Q.large = P.large /\ Q.heap = P.heap
  BY <1>4 DEF new_block, PoolType
<1>6. Q.blocks \in Seq(BlockType) /\ Len(Q.blocks) = Len(P.blocks) /\ DOMAIN Q.blocks = DOMAIN P.blocks
      /\ \A b \in DOMAIN P.blocks : Q.blocks[b] = IF b = first THEN new_block ELSE P.blocks[b]
  <2>1. P.blocks \in Seq(BlockType) /\ first \in 1 .. Len(P.blocks)
    BY PoolFacts
  <2>2. /\ [P.blocks EXCEPT ![first] = new_block] \in Seq(BlockType)
        /\ Len([P.blocks EXCEPT ![first] = new_block]) = Len(P.blocks)
    BY <2>1, <1>3, ExceptSeq
  <2>3. DOMAIN [P.blocks EXCEPT ![first] = new_block] = DOMAIN P.blocks
    OBVIOUS
  <2> QED BY <2>2, <2>3, <1>5
<1>7. PICK new \in Serial \ DOMAIN P.pieces :
           /\ Added(P, p) \in Pieces /\ DOMAIN Added(P, p) = DOMAIN P.pieces \cup {new}
           /\ Added(P, p)[new] = p
           /\ \A s \in DOMAIN P.pieces : Added(P, p)[s] = P.pieces[s]
  <2>1. P.pieces \in Pieces
    BY PoolFacts
  <2> QED BY <2>1, <1>1, AddedFacts
<1>8. Q \in PoolType
  <2> DEFINE B == [P.blocks EXCEPT ![first] = new_block]
             A == Added(P, p)
  <2>1. Q = [P EXCEPT !.blocks = B, !.pieces = A]
    BY DEF new_block
  <2>2. B \in Seq(BlockType) /\ A \in Pieces
    BY <1>5, <1>6, <1>7
  <2> HIDE DEF B, A
  <2>3. [P EXCEPT !.blocks = B, !.pieces = A] \in PoolType
    BY <1>4, <2>2 DEF PoolType
  <2> QED BY <2>1, <2>3
<1> HIDE DEF Q
<1>a. \A b \in DOMAIN P.blocks : P.blocks[b].last >= Begins(b) /\ P.blocks[b].last \in Nat
  BY PoolFacts DEF Whole
<1>b. m >= Begins(first) /\ m + size >= Begins(first)
  BY <1>a, <1>0 DEF Begins, PoolHead, DataHead
<1>9. Whole(Q)
  BY <1>a, <1>b, <1>c, <1>3, <1>5, <1>6, <1>8 DEF Whole
<1>10. In(Q, p)
  BY <1>0, <1>1, <1>3, <1>6, <1>b, <1>c DEF In, InBlock, Behind
<1>11. \A b \in DOMAIN P.blocks : P.blocks[b].last <= Q.blocks[b].last
  <2> SUFFICES ASSUME NEW b \in DOMAIN P.blocks PROVE P.blocks[b].last <= Q.blocks[b].last
    OBVIOUS
  <2>1. P.blocks[b].last \in Nat
    BY PoolFacts
  <2> QED BY <2>1, <1>0, <1>3, <1>6
<1>12. Separate(Q)
  BY <1>0, <1>1, <1>5, <1>6, <1>9, <1>10, <1>11, SeparateAdded
<1>13. Keeps(P, Q)
  BY <1>5, <1>7 DEF Keeps
<1>14. New(P, Q, p, size)
  <2>1. p \in MemType /\ ~IsLarge(p) /\ p.block # 0
    BY <1>1, PieceFacts
  <2>2. new \in DOMAIN Q.pieces \ DOMAIN P.pieces /\ Q.pieces[new] = p
    BY <1>5, <1>7
  <2> QED BY <2>1, <2>2, <1>1 DEF New
<1>15. Taken(P, Outcome(Q, p), size)
  BY <1>1, <1>5, <1>6, <1>9, <1>12, <1>13, <1>14, PieceFacts DEF Taken, Outcome
<1> QED BY <1>15 DEF Q, p

(* size bytes in a new block at the end of the chain.                      *)
LEMMA TakenFromNewBlock ==
  ASSUME NEW P, Whole(P), Separate(P), P.alive = TRUE, Unused(P) # {},
         NEW size \in 1 .. MaxSmall, NEW o \in Block(P, size)
  PROVE  Taken(P, o, size)
<1> DEFINE n == Len(P.blocks) + 1
           p == Piece(n, Align(DataHead), size)
           x == FreshBlock(p.at + p.size)
           B == Append(Failed(P), x)
           Q == Chained(P, p)
<1>1. CASE o = Outcome(P, NULL)
  BY <1>1, TakenNothing
<1>2. CASE o = Outcome(Q, p) /\ n <= MaxBlocks
  <2>0. /\ n \in 1 .. MaxBlocks /\ n \notin DOMAIN P.blocks /\ DOMAIN P.blocks \cup {n} = 1 .. n
        /\ DOMAIN P.blocks = 1 .. n - 1 /\ P.current \in DOMAIN P.blocks /\ n \in Nat /\ n - 1 = Len(P.blocks)
        /\ n # 1
    BY <1>2, PoolFacts, PoolAssumption DEF Whole
  <2>1. /\ Size \in Nat /\ size \in Nat /\ size > 0 /\ Align(DataHead) = 32
        /\ 32 + size <= Size
    BY MaxSmallFacts, AlignFacts, PoolAssumption DEF PoolHead, DataHead
  <2>2. p \in PieceType /\ p.block = n /\ p.at = 32 /\ p.size = size
    <3> QED BY <2>0, <2>1 DEF Piece, PieceType
  <2> HIDE DEF n, p
  <2>3. x \in BlockType /\ x.last = 32 + size
    BY <2>1, <2>2 DEF FreshBlock, BlockType
  <2> HIDE DEF x
  <2>4. /\ B \in Seq(BlockType) /\ Len(B) = n /\ DOMAIN B = 1 .. n
        /\ \A b \in DOMAIN P.blocks : B[b].last = P.blocks[b].last
        /\ B[n] = x
    <3>1. ASSUME NEW b \in 1 .. n - 1 PROVE Failed(P)[b] \in BlockType /\ Failed(P)[b].last = P.blocks[b].last
      <4>1. P.blocks[b] \in BlockType
        BY <2>0, PoolFacts
      <4>2. Failed(P)[b] = [P.blocks[b] EXCEPT !.failed = IF b \in Tried(P) THEN @ + 1 ELSE @]
        BY <2>0 DEF Failed
      <4>3. CASE b \in Tried(P)
        BY <4>1, <4>2, <4>3 DEF BlockType
      <4>4. CASE b \notin Tried(P)
        BY <4>1, <4>2, <4>4 DEF BlockType
      <4> QED BY <4>3, <4>4
    <3>2. Failed(P) \in [1 .. n - 1 -> BlockType]
      BY <3>1, <2>0 DEF Failed
    <3>3. Failed(P) \in Seq(BlockType) /\ Len(Failed(P)) = n - 1
      BY <2>0, <3>2, SMT
    <3>4. /\ B \in Seq(BlockType) /\ Len(B) = n /\ B[n] = x
          /\ \A b \in 1 .. n - 1 : B[b] = Failed(P)[b]
      BY <2>0, <2>3, <3>3, AppendProperties
    <3> HIDE DEF B
    <3>5. DOMAIN B = 1 .. n
      BY <3>4, LenProperties
    <3> QED BY <2>0, <3>1, <3>4, <3>5
  <2>5. Current(P) \in 1 .. n
    <3>1. CASE GivenUp(P) = {}
      BY <3>1, <2>0 DEF Current
    <3>2. CASE GivenUp(P) # {}
      <4> DEFINE top == CHOOSE b \in GivenUp(P) : \A c \in GivenUp(P) : c <= b
      <4>1. GivenUp(P) \in SUBSET (1 .. n - 1)
        BY <2>0 DEF GivenUp, Tried
      <4>2. top \in GivenUp(P)
        BY <4>1, <2>0, <3>2, Greatest
      <4>3. Current(P) = 1 + top
        BY <3>2 DEF Current
      <4> HIDE DEF top
      <4> QED BY <4>1, <4>2, <4>3, <2>0
    <3> QED BY <3>1, <3>2
  <2>6. PICK new \in Serial \ DOMAIN P.pieces :
             /\ Added(P, p) \in Pieces /\ DOMAIN Added(P, p) = DOMAIN P.pieces \cup {new}
             /\ Added(P, p)[new] = p
             /\ \A s \in DOMAIN P.pieces : Added(P, p)[s] = P.pieces[s]
    <3>1. P.pieces \in Pieces
      BY PoolFacts
    <3>2. p \in PieceType
      BY <2>2
    <3> QED BY <3>1, <3>2, AddedFacts
  <2> DEFINE H == P.heap \cup {n}
  <2>7. H \in HeapType
    <3>1. P.heap \in HeapType
      BY PoolFacts
    <3>2. n \in (-MaxLarge .. MaxBlocks) \ {0}
      BY <2>0, PoolAssumption
    <3> QED BY <3>1, <3>2 DEF HeapType
  <2>8. P \in PoolType
    BY DEF Whole
  <2>9. /\ Q \in PoolType /\ Q.blocks = B /\ Q.current = Current(P) /\ Q.heap = H /\ Q.pieces = Added(P, p)
        /\ Q.alive = P.alive /\ Q.large = P.large
    <3> DEFINE c == Current(P)
               A == Added(P, p)
    <3>1. c \in Nat /\ A \in Pieces /\ B \in Seq(BlockType)
      BY <2>4, <2>5, <2>6
    <3>2. Q = [P EXCEPT !.blocks = B, !.current = c, !.heap = H, !.pieces = A]
      BY <2>2 DEF Chained, x
    <3> HIDE DEF c, A, B, H, Q
    <3>3. /\ Q \in PoolType /\ Q.blocks = B /\ Q.current = c /\ Q.heap = H /\ Q.pieces = A
          /\ Q.alive = P.alive /\ Q.large = P.large
      BY <3>1, <3>2, <2>7, <2>8 DEF PoolType
    <3> QED BY <3>3 DEF c, A
  <2> HIDE DEF B, Q
  <2>10. Whole(Q)
    <3>1. \A b \in DOMAIN P.blocks : P.blocks[b].last >= Begins(b)
      BY DEF Whole
    <3>2. x.last >= Begins(n)
      BY <2>0, <2>1, <2>3 DEF Begins, DataHead
    <3>3. \A b \in DOMAIN Q.blocks : Q.blocks[b].last >= Begins(b)
      BY <3>1, <3>2, <2>0, <2>4, <2>9
    <3>4. \A b \in DOMAIN P.blocks : Held(P.blocks[b].last)
      BY DEF Whole
    <3>5. \A b \in DOMAIN Q.blocks : Held(Q.blocks[b].last)
      BY <3>4, <2>0, <2>1, <2>3, <2>4, <2>9 DEF Held
    <3> QED BY <3>3, <3>5, <2>4, <2>5, <2>9, <2>0 DEF Whole
  <2>11. In(Q, p)
    BY <2>0, <2>1, <2>2, <2>3, <2>4, <2>9 DEF In, Begins, DataHead, InBlock
  <2>12. \A b \in DOMAIN P.blocks : P.blocks[b].last <= Q.blocks[b].last
    <3> SUFFICES ASSUME NEW b \in DOMAIN P.blocks PROVE P.blocks[b].last <= Q.blocks[b].last
      OBVIOUS
    <3>1. P.blocks[b].last \in Nat
      BY PoolFacts
    <3> QED BY <3>1, <2>4, <2>9
  <2>13. Separate(Q)
    <3>1. Q.pieces = Added(P, p) /\ p.block \notin DOMAIN P.blocks /\ DOMAIN P.blocks \subseteq DOMAIN Q.blocks
      BY <2>0, <2>2, <2>4, <2>9
    <3> QED BY <3>1, <2>2, <2>10, <2>11, <2>12, SeparateAdded
  <2>14. Keeps(P, Q)
    BY <2>6, <2>9 DEF Keeps
  <2>15. New(P, Q, p, size)
    <3>1. p \in MemType /\ ~IsLarge(p) /\ p.block # 0
      BY <2>2, PieceFacts
    <3>2. new \in DOMAIN Q.pieces \ DOMAIN P.pieces /\ Q.pieces[new] = p
      BY <2>6, <2>9
    <3> QED BY <3>1, <3>2, <2>2 DEF New
  <2>16. Q.heap = P.heap \cup (DOMAIN Q.blocks \ DOMAIN P.blocks)
    BY <2>0, <2>4, <2>9
  <2>17. DOMAIN P.blocks \subseteq DOMAIN Q.blocks
    BY <2>0, <2>4, <2>9
  <2>18. Taken(P, Outcome(Q, p), size)
    BY <2>2, <2>9, <2>10, <2>13, <2>14, <2>15, <2>16, <2>17, PieceFacts DEF Taken, Outcome
  <2> QED BY <2>18, <1>2
<1>3. o = Outcome(P, NULL) \/ (o = Outcome(Q, p) /\ n <= MaxBlocks)
  <2>1. p.block = n
    BY DEF Piece
  <2> QED BY <2>1 DEF Block
<1> QED BY <1>1, <1>2, <1>3

LEMMA SmallTakes ==
  ASSUME NEW P, Whole(P), Separate(P), P.alive = TRUE, NEW size \in 1 .. MaxSmall,
         NEW aligned \in BOOLEAN, NEW o \in Small(P, size, aligned)
  PROVE  Taken(P, o, size)
<1> DEFINE room == {b \in P.current .. Len(P.blocks) : Fits(Start(P.blocks[b].last, aligned), size)}
           first == CHOOSE b \in room : \A c \in room : b <= c
           m == Start(P.blocks[first].last, aligned)
<1>0. size \in Nat \ {0} /\ P.current \in 1 .. Len(P.blocks) /\ DOMAIN P.blocks = 1 .. Len(P.blocks)
      /\ Len(P.blocks) \in Nat /\ Size \in Nat
  BY PoolFacts, MaxSmallFacts, PoolAssumption DEF Whole
<1>1. Unused(P) # {}
  BY DEF Small
<1>2. CASE room = {}
  <2>1. o \in Block(P, size)
    BY <1>1, <1>2 DEF Small
  <2> QED BY <2>1, <1>1, TakenFromNewBlock
<1>3. CASE room # {}
  <2>1. room \in SUBSET Nat
    BY <1>0
  <2>2. first \in room
    BY <1>3, <2>1, Least
  <2>3. o = Outcome([P EXCEPT !.blocks[first].last = m + size, !.pieces = Added(P, Piece(first, m, size))],
                    Piece(first, m, size))
    BY <1>1, <1>3 DEF Small
  <2>4. first \in DOMAIN P.blocks /\ Fits(m, size)
    BY <2>2, <1>0
  <2> HIDE DEF first, room
  <2>5. m \in Nat /\ P.blocks[first].last <= m /\ Held(m)
    <3>1. P.blocks[first].last \in Nat /\ Held(P.blocks[first].last)
      BY <2>4, PoolFacts DEF Whole
    <3> QED BY <3>1, StartFacts
  <2> HIDE DEF m
  <2> QED BY <1>0, <1>1, <2>3, <2>4, <2>5, TakenFromBlock
<1> QED BY <1>2, <1>3

-------------------------------------------------------------------------------
(* A call of the program: the pool is again what it was promised to be,    *)
(* what it had is there, and what it gave is new.                          *)
Good(P) == Whole(P) /\ Separate(P) /\ Accounted(P)

Called(P, o, size) ==
  /\ Good(o.pool) /\ Keeps(P, o.pool) /\ New(P, o.pool, o.mem, size)

LEMMA LargeFacts ==
  ASSUME NEW P, Whole(P)
  PROVE  /\ DOMAIN P.large = 1 .. Len(P.large) /\ Len(P.large) \in Nat
         /\ \A j \in DOMAIN P.large : P.large[j] \in EntryType /\ P.large[j].alloc \in -MaxLarge .. 0
         /\ \A n \in P.heap : n \in Int /\ n # 0
         /\ Allocs(P) \subseteq -MaxLarge .. 0
<1>1. P.large \in Seq(EntryType) /\ P.heap \in HeapType
  BY PoolFacts
<1>2. DOMAIN P.large = 1 .. Len(P.large) /\ Len(P.large) \in Nat
  BY <1>1, LenProperties
<1>3. \A j \in DOMAIN P.large : P.large[j] \in EntryType
  BY <1>1, <1>2, ElementOfSeq
<1>4. \A j \in DOMAIN P.large : P.large[j].alloc \in -MaxLarge .. 0
  BY <1>3 DEF EntryType
<1>5. Allocs(P) \subseteq -MaxLarge .. 0
  BY <1>4 DEF Allocs
<1>6. \A n \in P.heap : n \in Int /\ n # 0
  BY <1>1, PoolAssumption DEF HeapType
<1> QED BY <1>2, <1>3, <1>4, <1>5, <1>6

LEMMA SmallIsCalled ==
  ASSUME NEW P, Good(P), P.alive = TRUE, NEW size \in 1 .. MaxSmall,
         NEW aligned \in BOOLEAN, NEW o \in Small(P, size, aligned)
  PROVE  Called(P, o, size)
<1>1. Taken(P, o, size)
  BY SmallTakes DEF Good
<1>2. Accounted(o.pool)
  BY <1>1 DEF Good, Accounted, Taken, Allocs
<1> QED BY <1>1, <1>2 DEF Taken, Called, Good

LEMMA SeparateSame ==
  ASSUME NEW P, NEW Q, Q.blocks = P.blocks, Q.pieces = P.pieces, Separate(P)
  PROVE  Separate(Q)
  BY DEF Separate, In

(* The entry of a large allocation n is put before the others.             *)
LEMMA EntryAdded ==
  ASSUME NEW P, Whole(P), Separate(P), NEW n \in -MaxLarge .. -1, NEW entry \in PieceType,
         n \in P.heap, n \notin Allocs(P), P.heap \ {n} = DOMAIN P.blocks \cup (Allocs(P) \ {0}),
         \A i, j \in DOMAIN P.large : P.large[i].alloc = P.large[j].alloc /\ i # j => P.large[i].alloc = 0
  PROVE  LET Q == [P EXCEPT !.large = <<[alloc |-> n, entry |-> entry]>> \o @]
         IN Good(Q) /\ Q.heap = P.heap /\ Q.pieces = P.pieces /\ Q.alive = P.alive
<1> DEFINE e == [alloc |-> n, entry |-> entry]
           L == <<e>> \o P.large
           Q == [P EXCEPT !.large = L]
<1>1. e \in EntryType /\ e.alloc = n
  BY PoolAssumption DEF EntryType
<1> HIDE DEF e
<1>2. <<e>> \in Seq(EntryType) /\ Len(<<e>>) = 1 /\ <<e>>[1] = e
  BY <1>1
<1>3. P.large \in Seq(EntryType)
  BY PoolFacts
<1>4. /\ L \in Seq(EntryType) /\ Len(L) = 1 + Len(P.large)
      /\ \A i \in 1 .. 1 + Len(P.large) : L[i] = IF i <= 1 THEN <<e>>[i] ELSE P.large[i - 1]
  BY <1>2, <1>3, ConcatProperties
<1>5. DOMAIN P.large = 1 .. Len(P.large) /\ Len(P.large) \in Nat
  BY LargeFacts
<1> HIDE DEF L
<1>6. DOMAIN L = 1 .. 1 + Len(P.large)
  BY <1>4, LenProperties
<1>7. L[1] = e /\ \A i \in DOMAIN P.large : i + 1 \in DOMAIN L /\ L[i + 1] = P.large[i]
  BY <1>2, <1>4, <1>5, <1>6
<1>8. \A i \in DOMAIN L : i = 1 \/ (i - 1 \in DOMAIN P.large /\ L[i] = P.large[i - 1])
  BY <1>4, <1>5, <1>6
<1>9. P \in PoolType
  BY DEF Whole
<1>10. /\ Q \in PoolType /\ Q.large = L /\ Q.blocks = P.blocks /\ Q.current = P.current
       /\ Q.heap = P.heap /\ Q.pieces = P.pieces /\ Q.alive = P.alive
  BY <1>4, <1>9 DEF PoolType
<1> HIDE DEF Q
<1>11. Whole(Q) /\ Separate(Q)
  BY <1>10, SeparateSame DEF Whole
<1>12. Allocs(Q) = Allocs(P) \cup {n}
  <2>1. \A a \in Allocs(Q) : a \in Allocs(P) \cup {n}
    BY <1>1, <1>7, <1>8, <1>10 DEF Allocs
  <2>2. n \in Allocs(Q)
    <3>1. 1 \in DOMAIN L
      BY <1>5, <1>6
    <3> QED BY <3>1, <1>1, <1>7, <1>10 DEF Allocs
  <2>3. \A a \in Allocs(P) : a \in Allocs(Q)
    BY <1>7, <1>10 DEF Allocs
  <2> QED BY <2>1, <2>2, <2>3
<1>13. ASSUME NEW i \in DOMAIN L, NEW j \in DOMAIN L, L[i].alloc = L[j].alloc, i # j
       PROVE  L[i].alloc = 0
  <2>1. \A k \in DOMAIN P.large : P.large[k].alloc # n
    BY DEF Allocs
  <2>2. CASE i = 1 \/ j = 1
    <3>1. (i # 1 => i - 1 \in DOMAIN P.large /\ L[i] = P.large[i - 1])
          /\ (j # 1 => j - 1 \in DOMAIN P.large /\ L[j] = P.large[j - 1])
      BY <1>8
    <3> QED BY <3>1, <2>1, <2>2, <1>1, <1>7, <1>13
  <2>3. CASE i # 1 /\ j # 1
    <3>1. i - 1 \in DOMAIN P.large /\ L[i] = P.large[i - 1] /\ j - 1 \in DOMAIN P.large /\ L[j] = P.large[j - 1]
      BY <1>8, <2>3
    <3>2. i - 1 # j - 1
      BY <1>5, <1>6, <1>13
    <3> QED BY <3>1, <3>2, <1>13
  <2> QED BY <2>2, <2>3
<1>14. Accounted(Q)
  <2>1. n # 0
    BY PoolAssumption
  <2>2. P.heap = (P.heap \ {n}) \cup {n}
    OBVIOUS
  <2>3. Q.heap = DOMAIN Q.blocks \cup (Allocs(Q) \ {0})
    BY <2>1, <2>2, <1>10, <1>12
  <2> QED BY <2>3, <1>10, <1>13 DEF Accounted
<1>15. Good(Q) /\ Q.heap = P.heap /\ Q.pieces = P.pieces /\ Q.alive = P.alive
  BY <1>10, <1>11, <1>14 DEF Good
<1> QED BY <1>15 DEF Q, L, e

LEMMA LargeIsCalled ==
  ASSUME NEW P, Good(P), P.alive = TRUE, NEW size \in Nat, NEW o \in Large(P, size)
  PROVE  Called(P, o, size)
<1>1. CASE o = Outcome(P, NULL)
  BY <1>1 DEF Called, Outcome, Keeps, New, MemType
<1>2. ASSUME NEW n \in Free(P), NEW e \in Small([P EXCEPT !.heap = @ \cup {n}], LargeHead, TRUE),
             o = IF e.mem = NULL THEN Outcome([e.pool EXCEPT !.heap = @ \ {n}], NULL)
                 ELSE Outcome([e.pool EXCEPT !.large = <<[alloc |-> n, entry |-> e.mem]>> \o @], Piece(n, 0, size))
      PROVE  Called(P, o, size)
  <2> DEFINE R == [P EXCEPT !.heap = @ \cup {n}]
  <2>1. n \in -MaxLarge .. -1 /\ n \notin P.heap /\ n \in Int /\ n < 0 /\ n # 0
    BY <1>2, PoolAssumption DEF Free
  <2>2. P \in PoolType /\ Whole(P) /\ Separate(P) /\ Accounted(P)
    BY DEF Good, Whole
  <2>3. /\ R \in PoolType /\ R.heap = P.heap \cup {n} /\ R.blocks = P.blocks /\ R.current = P.current
        /\ R.large = P.large /\ R.pieces = P.pieces /\ R.alive = P.alive
    <3>1. P.heap \cup {n} \in HeapType
      BY <2>1, <2>2, PoolFacts, PoolAssumption DEF HeapType
    <3> QED BY <3>1, <2>2 DEF PoolType
  <2>4. LargeHead \in 1 .. MaxSmall
    BY MaxSmallFacts DEF LargeHead
  <2> HIDE DEF R
  <2>5. Whole(R) /\ Separate(R) /\ R.alive = TRUE
    BY <2>2, <2>3, SeparateSame DEF Whole
  <2>6. e \in Small(R, LargeHead, TRUE)
    BY <1>2 DEF R
  <2>7. Taken(R, e, LargeHead)
    BY <2>4, <2>5, <2>6, SmallTakes
  <2>8. CASE e.mem = NULL
    <3>1. e.pool = R
      BY <2>7, <2>8 DEF Taken
    <3>2. [R EXCEPT !.heap = R.heap \ {n}] = P
      <4>1. (P.heap \cup {n}) \ {n} = P.heap
        BY <2>1
      <4>2. [R EXCEPT !.heap = R.heap \ {n}] = [P EXCEPT !.heap = (P.heap \cup {n}) \ {n}]
        BY <2>2, <2>3 DEF R, PoolType
      <4> QED BY <4>1, <4>2, <2>2 DEF PoolType
    <3>3. o = Outcome(P, NULL)
      BY <3>1, <3>2, <2>8, <1>2
    <3> QED BY <3>3, <1>1
  <2>9. CASE e.mem # NULL
    <3> DEFINE S == e.pool
               Q == [S EXCEPT !.large = <<[alloc |-> n, entry |-> e.mem]>> \o @]
               p == Piece(n, 0, size)
    <3>1. o = Outcome(Q, p)
      BY <1>2, <2>9
    <3>2. /\ Whole(S) /\ Separate(S) /\ S.large = P.large /\ e.mem \in PieceType
          /\ S.heap = R.heap \cup (DOMAIN S.blocks \ DOMAIN P.blocks) /\ DOMAIN P.blocks \subseteq DOMAIN S.blocks
          /\ Keeps(R, S)
      BY <2>3, <2>7, <2>9 DEF Taken
    <3> HIDE DEF S
    <3>3. n \notin DOMAIN S.blocks /\ n \notin Allocs(P)
      <4>1. \A b \in DOMAIN S.blocks : b \in Nat
        BY <3>2, PoolFacts, PoolAssumption
      <4>2. n \notin Allocs(P)
        BY <2>1, <2>2 DEF Accounted
      <4> QED BY <4>1, <4>2, <2>1
    <3>4. Allocs(S) = Allocs(P)
      BY <3>2 DEF Allocs
    <3>5. S.heap \ {n} = DOMAIN S.blocks \cup (Allocs(S) \ {0}) /\ n \in S.heap
      <4>1. P.heap = DOMAIN P.blocks \cup (Allocs(P) \ {0})
        BY <2>2 DEF Accounted
      <4>2. S.heap = P.heap \cup {n} \cup (DOMAIN S.blocks \ DOMAIN P.blocks)
        BY <3>2, <2>3
      <4> QED BY <4>1, <4>2, <3>2, <3>3, <3>4
    <3>6. \A i, j \in DOMAIN S.large : S.large[i].alloc = S.large[j].alloc /\ i # j => S.large[i].alloc = 0
      BY <2>2, <3>2 DEF Accounted
    <3>7. Good(Q) /\ Q.heap = S.heap /\ Q.pieces = S.pieces /\ Q.alive = S.alive
      BY <2>1, <3>2, <3>3, <3>4, <3>5, <3>6, EntryAdded
    <3> HIDE DEF Q
    <3>8. Keeps(P, Q)
      <4>1. Keeps(R, S)
        BY <3>2
      <4> QED BY <4>1, <2>3, <3>7 DEF Keeps
    <3>9. New(P, Q, p, size)
      <4>1. p \in MemType /\ p.block = n /\ p.size = size
        BY <2>1 DEF Piece, MemType
      <4> HIDE DEF p
      <4>2. IsLarge(p) /\ p.block \in Q.heap \ P.heap
        BY <4>1, <2>1, <3>5, <3>7 DEF IsLarge
      <4> QED BY <4>1, <4>2, <2>1 DEF New
    <3>10. o.pool = Q /\ o.mem = p
      BY <3>1 DEF Outcome
    <3> HIDE DEF p
    <3> QED BY <3>7, <3>8, <3>9, <3>10 DEF Called
  <2> QED BY <2>8, <2>9
<1>3. o = Outcome(P, NULL) \/ \E n \in Free(P) : \E e \in Small([P EXCEPT !.heap = @ \cup {n}], LargeHead, TRUE) :
        o = IF e.mem = NULL THEN Outcome([e.pool EXCEPT !.heap = @ \ {n}], NULL)
            ELSE Outcome([e.pool EXCEPT !.large = <<[alloc |-> n, entry |-> e.mem]>> \o @], Piece(n, 0, size))
  BY Zenon DEF Large
<1> QED BY <1>1, <1>2, <1>3

LEMMA AllocIsCalled ==
  ASSUME NEW P, Good(P), P.alive = TRUE, NEW size \in Nat \ {0}, NEW aligned \in BOOLEAN,
         NEW o \in Alloc(P, size, aligned)
  PROVE  Called(P, o, size)
<1>1. CASE size <= MaxSmall
  <2>1. size \in 1 .. MaxSmall
    BY <1>1, MaxSmallFacts
  <2>2. o \in Small(P, size, aligned)
    BY <1>1 DEF Alloc
  <2> QED BY <2>1, <2>2, SmallIsCalled
<1>2. CASE ~ size <= MaxSmall
  BY <1>2, LargeIsCalled DEF Alloc
<1> QED BY <1>1, <1>2

-------------------------------------------------------------------------------
(* What is allocated, and what keeps it so.                                *)

Allocated(P, m, size) ==
  /\ m.size >= size
  /\ IF IsLarge(m) THEN m.block \in P.heap ELSE \E s \in DOMAIN P.pieces : P.pieces[s] = m

LEMMA KeepsAllocated ==
  ASSUME NEW P, NEW Q, Keeps(P, Q), NEW m, NEW size, Allocated(P, m, size)
  PROVE  Allocated(Q, m, size)
  BY DEF Keeps, Allocated

LEMMA NewIsAllocated ==
  ASSUME NEW P, NEW Q, NEW size \in Nat, NEW m, New(P, Q, m, size), m # NULL
  PROVE  Allocated(Q, m, size) /\ m \in MemType /\ m.size = size
  BY DEF New, Allocated

LEMMA PieceIsNotApart ==
  ASSUME NEW m, m.at \in Nat, m.size \in Nat, m.size > 0
  PROVE  ~Apart(m, m)
  BY DEF Apart

LEMMA PieceHasSize ==
  ASSUME NEW P, Good(P), NEW s \in DOMAIN P.pieces
  PROVE  /\ P.pieces[s] \in PieceType /\ In(P, P.pieces[s])
         /\ P.pieces[s].size \in Nat /\ P.pieces[s].size > 0 /\ P.pieces[s].at \in Nat
         /\ ~IsLarge(P.pieces[s]) /\ P.pieces[s] # NULL
         /\ ~Apart(P.pieces[s], P.pieces[s])
<1>1. P.pieces[s] \in PieceType /\ In(P, P.pieces[s])
  BY PoolFacts DEF Good, Separate
<1>2. P.pieces[s].size \in Nat /\ P.pieces[s].at \in Nat /\ ~IsLarge(P.pieces[s]) /\ P.pieces[s] # NULL
  BY <1>1, PieceFacts, PoolAssumption
<1>3. P.pieces[s].size > 0
  BY <1>1 DEF In
<1> QED BY <1>1, <1>2, <1>3, PieceIsNotApart

(* No two numbers have the same piece.                                     *)
LEMMA PiecesDiffer ==
  ASSUME NEW P, Good(P), NEW s \in DOMAIN P.pieces, NEW t \in DOMAIN P.pieces, P.pieces[s] = P.pieces[t]
  PROVE  s = t
<1>1. s # t => Apart(P.pieces[s], P.pieces[t])
  BY DEF Good, Separate
<1> QED BY <1>1, PieceHasSize

LEMMA NewDiffers ==
  ASSUME NEW P, NEW Q, Good(Q), Keeps(P, Q), NEW m, NEW size, New(P, Q, m, size), m # NULL,
         NEW x, NEW k, Allocated(P, x, k)
  PROVE  x # m
<1> SUFFICES ASSUME x = m PROVE FALSE
  OBVIOUS
<1>1. CASE IsLarge(m)
  BY <1>1 DEF New, Allocated
<1>2. CASE ~IsLarge(m)
  <2>1. PICK s \in DOMAIN Q.pieces \ DOMAIN P.pieces : Q.pieces[s] = m
    BY <1>2 DEF New
  <2>2. PICK t \in DOMAIN P.pieces : P.pieces[t] = m
    BY <1>2 DEF Allocated
  <2>3. t \in DOMAIN Q.pieces /\ Q.pieces[t] = m
    BY <2>2 DEF Keeps
  <2> QED BY <2>1, <2>2, <2>3, PiecesDiffer
<1> QED BY <1>1, <1>2

LEMMA NullIsNotAllocated ==
  ASSUME NEW P, Good(P), NEW k
  PROVE  ~Allocated(P, NULL, k)
<1>1. ~IsLarge(NULL)
  BY DEF IsLarge, NULL
<1> QED BY <1>1, PieceHasSize DEF Allocated

(* The last allocation of the first block grows where it is.               *)
LEMMA ResizedIsGood ==
  ASSUME NEW P, Good(P), NEW m, Allocated(P, m, m.size), EndsPool(P, m, m.size),
         NEW size \in Nat, size >= m.size, P.blocks[1].last + size - m.size <= Size
  PROVE  LET Q == Resized(P, m, size)
             r == [m EXCEPT !.size = size]
         IN /\ Good(Q) /\ Q.alive = P.alive /\ Q.heap = P.heap
            /\ Allocated(Q, r, size) /\ r \in MemType /\ r.size = size /\ r # NULL
            /\ \A x, k : Allocated(P, x, k) /\ x # m => Allocated(Q, x, k)
            /\ \A x, k : Allocated(P, x, k) /\ x # m => x # r
<1> DEFINE Q == Resized(P, m, size)
           r == [m EXCEPT !.size = size]
<1>0. P \in PoolType /\ Whole(P) /\ Separate(P) /\ Accounted(P) /\ Size \in Nat
  BY PoolAssumption DEF Good, Whole
<1>1. ~IsLarge(m) /\ m.block = 1
  BY DEF EndsPool, IsLarge
<1>2. PICK u \in DOMAIN P.pieces : P.pieces[u] = m
  BY <1>1 DEF Allocated
<1>3. m \in PieceType /\ In(P, m) /\ m.size \in Nat /\ m.at \in Nat /\ m.size > 0
  BY <1>2, PieceHasSize
<1>4. 1 \in DOMAIN P.blocks /\ P.blocks[1] \in BlockType /\ P.blocks[1].last = m.at + m.size
  BY <1>1, <1>3, PoolFacts, <1>0 DEF In, EndsPool
<1>5. /\ r \in PieceType /\ r.block = 1 /\ r.at = m.at /\ r.size = size
  BY <1>1, <1>3 DEF PieceType
<1> DEFINE last == P.blocks[1].last + size - m.size
           x1 == [P.blocks[1] EXCEPT !.last = last]
           B == [P.blocks EXCEPT ![1] = x1]
           A == [s \in DOMAIN P.pieces |-> IF P.pieces[s] = m THEN r ELSE P.pieces[s]]
<1>6. last = m.at + size /\ last \in Nat /\ last <= Size /\ last >= P.blocks[1].last /\ P.blocks[1].last \in Nat
  BY <1>3, <1>4, <1>0
<1>7. Q = [P EXCEPT !.blocks = B, !.pieces = A]
  BY DEF Resized
<1> HIDE DEF last, r
<1>8. x1 \in BlockType /\ x1.last = last
  BY <1>4, <1>6 DEF BlockType
<1> HIDE DEF x1
<1>9. B \in Seq(BlockType) /\ Len(B) = Len(P.blocks) /\ DOMAIN B = DOMAIN P.blocks
      /\ \A b \in DOMAIN P.blocks : B[b] = IF b = 1 THEN x1 ELSE P.blocks[b]
  <2>1. P.blocks \in Seq(BlockType) /\ 1 \in 1 .. Len(P.blocks)
    BY <1>0, <1>4, PoolFacts
  <2>2. B \in Seq(BlockType) /\ Len(B) = Len(P.blocks)
    BY <2>1, <1>8, ExceptSeq
  <2> QED BY <2>2
<1>10. A \in Pieces /\ DOMAIN A = DOMAIN P.pieces
  <2>1. DOMAIN P.pieces \in SUBSET Serial /\ \A s \in DOMAIN P.pieces : P.pieces[s] \in PieceType
    BY <1>0, PoolFacts
  <2>2. A \in [DOMAIN P.pieces -> PieceType]
    BY <2>1, <1>5
  <2> QED BY <2>1, <2>2 DEF Pieces
<1>11. A[u] = r /\ \A s \in DOMAIN P.pieces : s # u => A[s] = P.pieces[s] /\ P.pieces[s] # m
  BY <1>2, PiecesDiffer
<1> HIDE DEF A, B, Q
<1>12. /\ Q \in PoolType /\ Q.blocks = B /\ Q.pieces = A /\ Q.alive = P.alive /\ Q.current = P.current
       /\ Q.large = P.large /\ Q.heap = P.heap
  BY <1>0, <1>7, <1>9, <1>10 DEF PoolType
<1>13. Whole(Q)
  <2>1. \A b \in DOMAIN P.blocks : P.blocks[b].last >= Begins(b)
    BY <1>0 DEF Whole
  <2>2. x1.last >= Begins(1)
    BY <2>1, <1>4, <1>6, <1>8 DEF Begins, PoolHead
  <2>3. \A b \in DOMAIN P.blocks : Held(P.blocks[b].last)
    BY <1>0 DEF Whole
  <2>4. Held(x1.last)
    BY <1>6, <1>8 DEF Held
  <2> QED BY <2>1, <2>2, <2>3, <2>4, <1>0, <1>9, <1>12 DEF Whole
<1>14. In(Q, r)
  <2>1. r.at >= Begins(1)
    BY <1>1, <1>3, <1>5 DEF In
  <2>2. InBlock(r)
    BY <1>5, <1>6 DEF InBlock
  <2> QED BY <2>1, <2>2, <1>3, <1>4, <1>5, <1>6, <1>8, <1>9, <1>12 DEF In
<1>15. ASSUME NEW s \in DOMAIN P.pieces, s # u
       PROVE  In(Q, P.pieces[s]) /\ Apart(P.pieces[s], r) /\ Apart(r, P.pieces[s])
  <2> DEFINE p == P.pieces[s]
  <2>1. p \in PieceType /\ In(P, p) /\ p.size \in Nat /\ p.size > 0 /\ p.at \in Nat
    BY PieceHasSize
  <2>2. Apart(p, m)
    BY <1>0, <1>2, <1>15 DEF Separate
  <2> HIDE DEF p
  <2>3. p.block \in DOMAIN P.blocks /\ P.blocks[p.block].last \in Nat /\ p.at + p.size <= P.blocks[p.block].last
        /\ p.at >= Begins(p.block)
    BY <2>1, <1>0, PoolFacts DEF In
  <2>4. In(Q, p)
    BY <2>1, <2>3, <1>6, <1>8, <1>9, <1>12 DEF In
  <2>5. p.block = 1 => p.at + p.size <= m.at
    BY <2>1, <2>2, <2>3, <1>1, <1>3, <1>4 DEF Apart
  <2>6. Apart(p, r) /\ Apart(r, p)
    BY <2>5, <1>5 DEF Apart
  <2> QED BY <2>4, <2>6 DEF p
<1>16. Separate(Q)
  <2>1. \A s \in DOMAIN Q.pieces : In(Q, Q.pieces[s])
    BY <1>10, <1>11, <1>12, <1>14, <1>15
  <2>2. ASSUME NEW s \in DOMAIN Q.pieces, NEW t \in DOMAIN Q.pieces, s # t
        PROVE  Apart(Q.pieces[s], Q.pieces[t])
    <3>1. CASE s # u /\ t # u
      BY <3>1, <2>2, <1>0, <1>10, <1>11, <1>12 DEF Separate
    <3>2. CASE s = u \/ t = u
      BY <3>2, <2>2, <1>10, <1>11, <1>12, <1>15
    <3> QED BY <3>1, <3>2
  <2> QED BY <2>1, <2>2 DEF Separate
<1>17. Accounted(Q)
  BY <1>0, <1>9, <1>12 DEF Accounted, Allocs
<1>18. Allocated(Q, r, size)
  BY <1>2, <1>5, <1>10, <1>11, <1>12 DEF Allocated, IsLarge
<1>19. ASSUME NEW x, NEW k, Allocated(P, x, k), x # m PROVE Allocated(Q, x, k) /\ x # r
  <2>1. CASE IsLarge(x)
    BY <2>1, <1>5, <1>12, <1>19 DEF Allocated, IsLarge
  <2>2. CASE ~IsLarge(x)
    <3>1. PICK s \in DOMAIN P.pieces : P.pieces[s] = x
      BY <2>2, <1>19 DEF Allocated
    <3>2. s # u
      BY <3>1, <1>2, <1>19
    <3>3. Allocated(Q, x, k)
      BY <2>2, <3>1, <3>2, <1>10, <1>11, <1>12, <1>19 DEF Allocated
    <3>4. Apart(x, r)
      BY <3>1, <3>2, <1>15
    <3>5. ~Apart(x, x)
      BY <3>1, PieceHasSize
    <3> QED BY <3>3, <3>4, <3>5
  <2> QED BY <2>1, <2>2
<1>20. r \in MemType /\ r # NULL
  BY <1>5, PieceFacts
<1> QED BY <1>5, <1>12, <1>13, <1>16, <1>17, <1>18, <1>19, <1>20 DEF Good, Q, r

(* What is given back is the last allocation of the first block, or stays. *)
LEMMA ReturnedIsGood ==
  ASSUME NEW P, Good(P), NEW m, NEW size, m.size = size, Allocated(P, m, size)
  PROVE  LET Q == Returned(P, m, size)
         IN /\ Good(Q) /\ Q.alive = P.alive
            /\ \A x, k : Allocated(P, x, k) /\ x # m => Allocated(Q, x, k)
<1> DEFINE Q == Returned(P, m, size)
<1>1. CASE ~EndsPool(P, m, size)
  BY <1>1 DEF Returned
<1>2. CASE EndsPool(P, m, size)
  <2>0. P \in PoolType /\ Whole(P) /\ Separate(P) /\ Accounted(P) /\ Size \in Nat
    BY PoolAssumption DEF Good, Whole
  <2>1. ~IsLarge(m) /\ m.block = 1
    BY <1>2 DEF EndsPool, IsLarge
  <2>2. PICK u \in DOMAIN P.pieces : P.pieces[u] = m
    BY <2>1 DEF Allocated
  <2>3. m \in PieceType /\ In(P, m) /\ size \in Nat /\ m.at \in Nat /\ size > 0
    BY <2>2, PieceHasSize
  <2>4. 1 \in DOMAIN P.blocks /\ P.blocks[1] \in BlockType /\ P.blocks[1].last = m.at + size
    BY <2>1, <2>3, PoolFacts, <2>0, <1>2 DEF In, EndsPool
  <2> DEFINE last == P.blocks[1].last - size
             x1 == [P.blocks[1] EXCEPT !.last = last]
             B == [P.blocks EXCEPT ![1] = x1]
             D == {s \in DOMAIN P.pieces : P.pieces[s] # m}
             A == [s \in D |-> P.pieces[s]]
  <2>5. P.blocks[1].last \in Nat /\ last = m.at /\ last \in Nat /\ last <= P.blocks[1].last
    BY <2>0, <2>3, <2>4, PoolFacts
  <2>6. Q = [P EXCEPT !.blocks = B, !.pieces = A]
    BY <1>2 DEF Returned
  <2> HIDE DEF last
  <2>7. x1 \in BlockType /\ x1.last = m.at
    BY <2>4, <2>5 DEF BlockType
  <2> HIDE DEF x1
  <2>8. B \in Seq(BlockType) /\ Len(B) = Len(P.blocks) /\ DOMAIN B = DOMAIN P.blocks
        /\ \A b \in DOMAIN P.blocks : B[b] = IF b = 1 THEN x1 ELSE P.blocks[b]
    <3>1. P.blocks \in Seq(BlockType) /\ 1 \in 1 .. Len(P.blocks)
      BY <2>0, <2>4, PoolFacts
    <3>2. B \in Seq(BlockType) /\ Len(B) = Len(P.blocks)
      BY <3>1, <2>7, ExceptSeq
    <3> QED BY <3>2
  <2>9. A \in Pieces /\ DOMAIN A = D /\ D \subseteq DOMAIN P.pieces
        /\ \A s \in D : A[s] = P.pieces[s] /\ P.pieces[s] # m
    <3>1. D \in SUBSET Serial /\ \A s \in D : P.pieces[s] \in PieceType
      BY <2>0, PoolFacts
    <3>2. A \in [D -> PieceType]
      BY <3>1
    <3> QED BY <3>1, <3>2 DEF Pieces
  <2>10. \A s \in DOMAIN P.pieces : P.pieces[s] # m => s \in D
    OBVIOUS
  <2> HIDE DEF A, B, D, Q
  <2>11. /\ Q \in PoolType /\ Q.blocks = B /\ Q.pieces = A /\ Q.alive = P.alive /\ Q.current = P.current
         /\ Q.large = P.large /\ Q.heap = P.heap
    BY <2>0, <2>6, <2>8, <2>9 DEF PoolType
  <2>12. Whole(Q)
    <3>1. \A b \in DOMAIN P.blocks : P.blocks[b].last >= Begins(b)
      BY <2>0 DEF Whole
    <3>2. x1.last >= Begins(1)
      BY <2>1, <2>3, <2>7 DEF In
    <3>3. \A b \in DOMAIN P.blocks : Held(P.blocks[b].last)
      BY <2>0 DEF Whole
    <3>4. Held(x1.last)
      BY <3>3, <2>0, <2>3, <2>4, <2>5, <2>7 DEF Held
    <3> QED BY <3>1, <3>2, <3>3, <3>4, <2>0, <2>8, <2>11 DEF Whole
  <2>13. ASSUME NEW s \in D PROVE In(Q, P.pieces[s])
    <3> DEFINE p == P.pieces[s]
    <3>1. p \in PieceType /\ In(P, p) /\ p.size \in Nat /\ p.size > 0 /\ p.at \in Nat
      BY <2>9, PieceHasSize
    <3>2. Apart(p, m)
      <4>1. s \in DOMAIN P.pieces /\ s # u
        BY <2>2, <2>9
      <4> QED BY <4>1, <2>0, <2>2 DEF Separate
    <3> HIDE DEF p
    <3>3. p.block \in DOMAIN P.blocks /\ P.blocks[p.block].last \in Nat /\ p.at + p.size <= P.blocks[p.block].last
          /\ p.at >= Begins(p.block)
      BY <3>1, <2>0, PoolFacts DEF In
    <3>4. p.block = 1 => p.at + p.size <= m.at
      BY <3>1, <3>2, <3>3, <2>1, <2>3, <2>4 DEF Apart
    <3>5. In(Q, p)
      BY <3>1, <3>3, <3>4, <2>7, <2>8, <2>11 DEF In
    <3> QED BY <3>5 DEF p
  <2>14. Separate(Q)
    BY <2>0, <2>9, <2>11, <2>13 DEF Separate
  <2>15. Accounted(Q)
    BY <2>0, <2>8, <2>11 DEF Accounted, Allocs
  <2>16. \A x, k : Allocated(P, x, k) /\ x # m => Allocated(Q, x, k)
    BY <2>9, <2>10, <2>11 DEF Allocated
  <2> QED BY <2>11, <2>12, <2>14, <2>15, <2>16 DEF Good, Q
<1> QED BY <1>1, <1>2

-------------------------------------------------------------------------------
(* The list and the array in the pool.                                     *)

PartType  == [head : MemType, elts : MemType, nelts : 0 .. ListN]
ListType  == [parts : Seq(PartType)]
ArrayType == [head : MemType, elts : MemType, nelts : Nat, nalloc : Nat]

PartOK(P, l, j) ==
  /\ j < Len(l.parts) => l.parts[j].nelts = ListN
  /\ Allocated(P, l.parts[j].elts, ListN * EltSize)
  /\ IF j = 1 THEN l.parts[j].head = NULL ELSE Allocated(P, l.parts[j].head, PartHead)

ListOK(P, l) ==
  /\ l \in ListType
  /\ l # NoList => P.alive
  /\ \A j \in DOMAIN l.parts : PartOK(P, l, j)

(* The memory of the array has the size that is written in the array.      *)
ArrayOK(P, a) ==
  /\ a \in ArrayType
  /\ a # NoArray => /\ P.alive /\ a.nelts <= a.nalloc /\ a.nalloc > 0
                    /\ a.elts.size = a.nalloc * EltSize /\ a.head.size = ArrayHead
                    /\ Allocated(P, a.elts, a.elts.size) /\ Allocated(P, a.head, a.head.size)
                    /\ a.head # a.elts

(* The array and the list share no memory.                                 *)
Different(l, a) ==
  a # NoArray => \A j \in DOMAIN l.parts : /\ l.parts[j].elts \notin {a.head, a.elts}
                                           /\ l.parts[j].head \notin {a.head, a.elts}

IInv == Good(pool) /\ ListOK(pool, list) /\ ArrayOK(pool, array) /\ Different(list, array)

LEMMA ListFacts ==
  ASSUME NEW P, NEW l, ListOK(P, l)
  PROVE  /\ l.parts \in Seq(PartType) /\ l = [parts |-> l.parts]
         /\ Len(l.parts) \in Nat /\ DOMAIN l.parts = 1 .. Len(l.parts)
         /\ \A j \in DOMAIN l.parts : l.parts[j] \in PartType
         /\ l # NoList => Len(l.parts) \in DOMAIN l.parts
<1>1. l.parts \in Seq(PartType) /\ l = [parts |-> l.parts]
  BY DEF ListOK, ListType
<1>2. Len(l.parts) \in Nat /\ DOMAIN l.parts = 1 .. Len(l.parts)
  BY <1>1, LenProperties
<1>3. \A j \in DOMAIN l.parts : l.parts[j] \in PartType
  BY <1>1, <1>2, ElementOfSeq
<1>4. ASSUME l # NoList PROVE Len(l.parts) \in DOMAIN l.parts
  <2>1. l.parts # <<>>
    BY <1>1, <1>4 DEF NoList
  <2>2. Len(l.parts) # 0
    BY <2>1, <1>1, EmptySeq
  <2> QED BY <2>2, <1>2
<1> QED BY <1>1, <1>2, <1>3, <1>4

LEMMA Products ==
  /\ ListN * EltSize \in Nat \ {0} /\ EltSize \in Nat \ {0} /\ ListN \in Nat \ {0}
  /\ \A n \in Nat \ {0} : n * EltSize \in Nat \ {0}
  /\ \A n, k \in Nat : (n + k) * EltSize = n * EltSize + k * EltSize
  BY PoolAssumption

LEMMA ListKeeps ==
  ASSUME NEW P, NEW Q, NEW l, ListOK(P, l), Q.alive = P.alive,
         \A j \in DOMAIN l.parts : PartOK(Q, l, j)
  PROVE  ListOK(Q, l)
  BY DEF ListOK

LEMMA CallKeepsList ==
  ASSUME NEW P, NEW Q, Keeps(P, Q), NEW l, ListOK(P, l)
  PROVE  ListOK(Q, l)
<1>1. \A j \in DOMAIN l.parts : PartOK(Q, l, j)
  BY KeepsAllocated DEF ListOK, PartOK
<1> QED BY <1>1, ListKeeps DEF Keeps

LEMMA CallKeepsArray ==
  ASSUME NEW P, NEW Q, Keeps(P, Q), NEW a, ArrayOK(P, a)
  PROVE  ArrayOK(Q, a)
  BY KeepsAllocated DEF ArrayOK, Keeps

-------------------------------------------------------------------------------
(* Every action keeps the invariant.                                       *)

LEMMA EmptyPool ==
  /\ Good(NoPool) /\ Good(NewPool) /\ NoPool.alive = FALSE /\ NewPool.alive = TRUE
  /\ \A P : ListOK(P, NoList) /\ ArrayOK(P, NoArray)
  /\ \A l, a : Different(NoList, a) /\ Different(l, NoArray)
<1>1. << >> \in Pieces
  <2>1. << >> \in [{} -> PieceType] /\ {} \in SUBSET Serial
    OBVIOUS
  <2> QED BY <2>1 DEF Pieces
<1>2. FreshBlock(PoolHead) \in BlockType /\ FreshBlock(PoolHead).last = PoolHead /\ 1 \in 1 .. MaxBlocks
  BY PoolAssumption DEF FreshBlock, BlockType, PoolHead, LargeHead
<1>3. {} \in HeapType /\ {1} \in HeapType
  BY <1>2, PoolAssumption DEF HeapType
<1>4. NoPool \in PoolType
  BY <1>1, <1>3 DEF NoPool, PoolType
<1>5. Good(NoPool)
  BY <1>4, PoolAssumption DEF Good, Whole, Separate, Accounted, NoPool, Allocs
<1>6. /\ NewPool.alive = TRUE /\ NewPool.blocks = <<FreshBlock(PoolHead)>> /\ NewPool.current = 1
      /\ NewPool.large = << >> /\ NewPool.heap = {1} /\ NewPool.pieces = << >>
  BY DEF NewPool, NoPool
<1>7. <<FreshBlock(PoolHead)>> \in Seq(BlockType) /\ Len(<<FreshBlock(PoolHead)>>) = 1
      /\ DOMAIN <<FreshBlock(PoolHead)>> = {1} /\ <<FreshBlock(PoolHead)>>[1] = FreshBlock(PoolHead)
  BY <1>2
<1>8. NewPool \in PoolType
  <2> DEFINE B == <<FreshBlock(PoolHead)>>
  <2>1. B \in Seq(BlockType)
    BY <1>7
  <2>2. NewPool = [NoPool EXCEPT !.alive = TRUE, !.blocks = B, !.heap = {1}]
    BY DEF NewPool
  <2> HIDE DEF B
  <2> QED BY <2>1, <2>2, <1>3, <1>4 DEF PoolType
<1>9. Whole(NewPool)
  <2>1. DOMAIN NewPool.blocks = {1} /\ NewPool.blocks[1].last = PoolHead /\ Len(NewPool.blocks) = 1
    BY <1>2, <1>6, <1>7
  <2>2. PoolHead >= Begins(1) /\ Held(PoolHead) /\ 1 <= MaxBlocks /\ NewPool.current = 1
    BY <1>6, PoolAssumption DEF Begins, PoolHead, LargeHead, Held
  <2> QED BY <2>1, <2>2, <1>8 DEF Whole
<1>10. Separate(NewPool) /\ Accounted(NewPool)
  BY <1>6, <1>7 DEF Separate, Accounted, Allocs
<1>11. \A P : ListOK(P, NoList)
  BY EmptySeq DEF ListOK, NoList, ListType
<1>12. \A P : ArrayOK(P, NoArray)
  BY DEF ArrayOK, NoArray, ArrayType, MemType
<1>13. \A l, a : Different(NoList, a) /\ Different(l, NoArray)
  BY DEF Different, NoList
<1> QED BY <1>5, <1>6, <1>9, <1>10, <1>11, <1>12, <1>13 DEF Good, NoPool

LEMMA CreatePoolKeeps == IInv /\ CreatePool => IInv'
<1> SUFFICES ASSUME IInv, CreatePool PROVE IInv'
  OBVIOUS
<1>1. list = NoList /\ array = NoArray
  BY DEF IInv, CreatePool, ListOK, ArrayOK
<1> QED BY <1>1, EmptyPool DEF IInv, CreatePool

LEMMA PallocKeeps == IInv /\ Palloc => IInv'
<1> SUFFICES ASSUME IInv, Palloc PROVE IInv'
  OBVIOUS
<1>0. Good(pool) /\ pool.alive = TRUE
  BY DEF IInv, Palloc, Good, Whole, PoolType
<1>1. PICK size \in Sizes, aligned \in BOOLEAN : \E o \in Alloc(pool, size, aligned) : pool' = o.pool
  BY DEF Palloc
<1>2. PICK o \in Alloc(pool, size, aligned) : pool' = o.pool
  BY <1>1
<1>3. Called(pool, o, size)
  BY <1>0, AllocIsCalled, PoolAssumption
<1> QED BY <1>2, <1>3, CallKeepsList, CallKeepsArray DEF IInv, Called, Palloc, Different

LEMMA PfreeKeeps == IInv /\ Pfree => IInv'
<1> SUFFICES ASSUME IInv, Pfree PROVE IInv'
  OBVIOUS
<1>0. pool \in PoolType /\ Whole(pool) /\ Separate(pool) /\ Accounted(pool)
  BY DEF IInv, Good, Whole
<1>1. PICK j \in DOMAIN pool.large :
        /\ pool.large[j].alloc \notin Owned \cup {0}
        /\ pool' = [pool EXCEPT !.large[j].alloc = 0, !.heap = @ \ {pool.large[j].alloc}]
  BY DEF Pfree
<1> DEFINE a == pool.large[j].alloc
           e == [pool.large[j] EXCEPT !.alloc = 0]
           L == [pool.large EXCEPT ![j] = e]
           H == pool.heap \ {a}
<1>2. pool.large \in Seq(EntryType) /\ j \in 1 .. Len(pool.large) /\ pool.large[j] \in EntryType
      /\ a \in -MaxLarge .. 0 /\ a # 0
  BY <1>0, <1>1, PoolFacts, LargeFacts
<1>3. e \in EntryType /\ e.alloc = 0
  <2>1. 0 \in -MaxLarge .. 0
    BY PoolAssumption
  <2> QED BY <2>1, <1>2 DEF EntryType
<1>a. pool' = [pool EXCEPT !.large = L, !.heap = H]
  BY <1>1
<1> HIDE DEF a, e
<1>4. L \in Seq(EntryType) /\ DOMAIN L = DOMAIN pool.large /\ Len(L) = Len(pool.large)
      /\ \A i \in DOMAIN pool.large : L[i] = IF i = j THEN e ELSE pool.large[i]
  <2>1. L \in Seq(EntryType) /\ Len(L) = Len(pool.large)
    BY <1>2, <1>3, ExceptSeq
  <2> QED BY <2>1
<1>5. H \in HeapType
  BY <1>0, PoolFacts DEF HeapType
<1> HIDE DEF L, H
<1>6. /\ pool' \in PoolType /\ pool'.large = L /\ pool'.heap = H /\ pool'.blocks = pool.blocks
      /\ pool'.alive = pool.alive /\ pool'.current = pool.current /\ pool'.pieces = pool.pieces
  BY <1>0, <1>4, <1>5, <1>a DEF PoolType
<1>7. Whole(pool') /\ Separate(pool')
  BY <1>0, <1>6, SeparateSame DEF Whole
<1>8. ASSUME NEW i \in DOMAIN pool.large, i # j PROVE pool.large[i].alloc # a
  BY <1>0, <1>1, <1>2, <1>8 DEF Accounted, a
<1>9. Allocs(pool') \ {0} = (Allocs(pool) \ {0}) \ {a}
  <2>1. ASSUME NEW n \in Allocs(pool') \ {0} PROVE n \in Allocs(pool) /\ n # a
    <3>1. PICK i \in DOMAIN L : n = L[i].alloc
      BY <1>6 DEF Allocs
    <3>2. i # j
      BY <3>1, <1>3, <1>4, <2>1
    <3> QED BY <3>1, <3>2, <1>4, <1>8 DEF Allocs
  <2>2. ASSUME NEW n \in Allocs(pool), n # a PROVE n \in Allocs(pool')
    <3>1. PICK i \in DOMAIN pool.large : n = pool.large[i].alloc
      BY DEF Allocs
    <3>2. i # j
      BY <3>1, <2>2 DEF a
    <3> QED BY <3>1, <3>2, <1>4, <1>6 DEF Allocs
  <2> QED BY <2>1, <2>2
<1>10. a \notin DOMAIN pool.blocks
  <2>1. DOMAIN pool.blocks \subseteq 1 .. MaxBlocks
    BY <1>0, PoolFacts, PoolAssumption
  <2> QED BY <2>1, <1>2, PoolAssumption
<1>11. Accounted(pool')
  <2>1. pool'.heap = DOMAIN pool'.blocks \cup (Allocs(pool') \ {0})
    BY <1>0, <1>6, <1>9, <1>10 DEF Accounted, H
  <2>2. ASSUME NEW i \in DOMAIN L, NEW k \in DOMAIN L, L[i].alloc = L[k].alloc, i # k PROVE L[i].alloc = 0
    BY <1>0, <1>3, <1>4, <1>8, <2>2 DEF Accounted
  <2> QED BY <2>1, <2>2, <1>6 DEF Accounted
<1>12. ASSUME NEW m, NEW k, Allocated(pool, m, k), m.block # a PROVE Allocated(pool', m, k)
  BY <1>6, <1>12 DEF Allocated, H
<1>13. UNCHANGED <<list, array>> /\ a \notin Owned
  BY <1>1 DEF Pfree, a
<1>14. ListOK(pool', list)
  <2>1. \A i \in DOMAIN list.parts : list.parts[i].elts.block # a /\ list.parts[i].head.block # a
    BY <1>13 DEF Owned
  <2>2. \A i \in DOMAIN list.parts : PartOK(pool', list, i)
    BY <2>1, <1>12 DEF IInv, ListOK, PartOK
  <2>3. ListOK(pool, list)
    BY DEF IInv
  <2> QED BY <2>2, <2>3, <1>6, ListKeeps
<1>15. ArrayOK(pool', array)
  <2>1. array.head.block # a /\ array.elts.block # a
    BY <1>13 DEF Owned
  <2> QED BY <2>1, <1>6, <1>12 DEF IInv, ArrayOK
<1> QED BY <1>7, <1>11, <1>13, <1>14, <1>15 DEF IInv, Good, Different

LEMMA ResetPoolKeeps == IInv /\ ResetPool => IInv'
<1> SUFFICES ASSUME IInv, ResetPool PROVE IInv'
  OBVIOUS
<1>0. pool \in PoolType /\ Whole(pool) /\ Separate(pool) /\ Accounted(pool) /\ pool.alive = TRUE
  BY DEF IInv, Good, Whole, ResetPool, PoolType
<1> DEFINE B == [b \in DOMAIN pool.blocks |-> FreshBlock(PoolHead)]
           H == pool.heap \ Allocs(pool)
<1>1. pool' = [pool EXCEPT !.heap = H, !.large = << >>, !.pieces = << >>, !.current = 1, !.blocks = B]
  BY DEF ResetPool
<1>2. FreshBlock(PoolHead) \in BlockType /\ FreshBlock(PoolHead).last = PoolHead
  BY PoolAssumption DEF FreshBlock, BlockType, PoolHead, LargeHead
<1>3. DOMAIN pool.blocks = 1 .. Len(pool.blocks) /\ Len(pool.blocks) \in Nat /\ 1 \in DOMAIN pool.blocks
  BY <1>0, PoolFacts, PoolAssumption DEF Whole
<1>4. B \in Seq(BlockType) /\ DOMAIN B = DOMAIN pool.blocks /\ Len(B) = Len(pool.blocks)
      /\ \A b \in DOMAIN B : B[b].last = PoolHead
  <2>1. B \in [1 .. Len(pool.blocks) -> BlockType]
    BY <1>2, <1>3
  <2>2. \A b \in DOMAIN B : B[b].last = PoolHead
    BY <1>2
  <2> HIDE DEF B
  <2>3. B \in Seq(BlockType) /\ Len(B) = Len(pool.blocks) /\ DOMAIN B = DOMAIN pool.blocks
    BY <1>3, <2>1, SMT
  <2> QED BY <2>2, <2>3
<1>5. H \in HeapType /\ << >> \in Pieces /\ << >> \in Seq(EntryType)
  <2>1. << >> \in [{} -> PieceType] /\ {} \in SUBSET Serial
    OBVIOUS
  <2>2. << >> \in Pieces
    BY <2>1 DEF Pieces
  <2> QED BY <2>2, <1>0, PoolFacts, EmptySeq DEF HeapType
<1> HIDE DEF B
<1>6. H = DOMAIN pool.blocks
  <2>1. \A b \in DOMAIN pool.blocks : b \notin Allocs(pool)
    BY <1>0, <1>3, LargeFacts, PoolAssumption
  <2>2. pool.heap = DOMAIN pool.blocks \cup (Allocs(pool) \ {0})
    BY <1>0 DEF Accounted
  <2> QED BY <2>1, <2>2
<1> HIDE DEF H
<1>7. /\ pool' \in PoolType /\ pool'.heap = H /\ pool'.large = << >> /\ pool'.pieces = << >> /\ pool'.current = 1
      /\ pool'.blocks = B /\ pool'.alive = TRUE
  BY <1>0, <1>1, <1>4, <1>5 DEF PoolType
<1>8. Whole(pool')
  <2>1. Held(PoolHead)
    BY PoolAssumption DEF Held, PoolHead, LargeHead
  <2> QED BY <2>1, <1>0, <1>3, <1>4, <1>7 DEF Whole, Begins, PoolHead, DataHead
<1>9. Separate(pool') /\ Accounted(pool')
  BY <1>4, <1>6, <1>7 DEF Separate, Accounted, Allocs
<1>10. list' = NoList /\ array' = NoArray
  BY DEF ResetPool
<1> QED BY <1>8, <1>9, <1>10, EmptyPool DEF IInv, Good

LEMMA DestroyPoolKeeps == IInv /\ DestroyPool => IInv'
<1> SUFFICES ASSUME IInv, DestroyPool PROVE IInv'
  OBVIOUS
<1>1. pool.heap \ (Allocs(pool) \cup DOMAIN pool.blocks) = {}
  BY DEF IInv, Good, Accounted
<1>2. pool' = NoPool
  BY <1>1 DEF DestroyPool, NoPool
<1> QED BY <1>2, EmptyPool DEF IInv, DestroyPool

(* What is new for P is not among the memory of the array or of the list.  *)
LEMMA NewIsDifferent ==
  ASSUME NEW P, NEW Q, Good(Q), Keeps(P, Q), NEW m, NEW size, New(P, Q, m, size), m # NULL
  PROVE  /\ \A a : ArrayOK(P, a) /\ a # NoArray => m \notin {a.head, a.elts}
         /\ \A l : ListOK(P, l) => \A j \in DOMAIN l.parts : m # l.parts[j].elts /\ m # l.parts[j].head
<1>1. \A x, k : Allocated(P, x, k) => x # m
  BY NewDiffers
<1> QED BY <1>1 DEF ArrayOK, ListOK, PartOK

LEMMA ListInitKeeps == IInv /\ ListInit => IInv'
<1> SUFFICES ASSUME IInv, ListInit PROVE IInv'
  OBVIOUS
<1> DEFINE size == ListN * EltSize
<1>0. Good(pool) /\ pool.alive = TRUE /\ size \in Nat \ {0}
  BY Products DEF IInv, ListInit, Good, Whole, PoolType
<1> HIDE DEF size
<1>1. PICK o \in Alloc(pool, size, TRUE) :
        /\ pool' = o.pool
        /\ list' = IF o.mem = NULL THEN list ELSE [parts |-> <<[head |-> NULL, elts |-> o.mem, nelts |-> 0]>>]
  BY DEF ListInit, size
<1>2. Called(pool, o, size)
  BY <1>0, AllocIsCalled
<1>3. Good(pool') /\ Keeps(pool, pool') /\ New(pool, pool', o.mem, size)
  BY <1>1, <1>2 DEF Called
<1>4. ArrayOK(pool', array) /\ array' = array
  BY <1>3, CallKeepsArray DEF IInv, ListInit
<1>5. CASE o.mem = NULL
  <2>1. list' = list
    BY <1>1, <1>5
  <2> QED BY <2>1, <1>3, <1>4, CallKeepsList DEF IInv, Different
<1>6. CASE o.mem # NULL
  <2> DEFINE part == [head |-> NULL, elts |-> o.mem, nelts |-> 0]
             l == [parts |-> <<part>>]
  <2>1. list' = l
    BY <1>1, <1>6
  <2>2. Allocated(pool', o.mem, size) /\ o.mem \in MemType
    BY <1>0, <1>3, <1>6, NewIsAllocated
  <2>3. part \in PartType /\ part.elts = o.mem /\ part.head = NULL
    BY <2>2, PoolAssumption DEF PartType, MemType
  <2> HIDE DEF part
  <2>4. l.parts \in Seq(PartType) /\ Len(l.parts) = 1 /\ DOMAIN l.parts = {1} /\ l.parts[1] = part /\ l \in ListType
    BY <2>3 DEF ListType
  <2> HIDE DEF l
  <2>5. ListOK(pool', l)
    <3>1. PartOK(pool', l, 1)
      BY <2>2, <2>3, <2>4 DEF PartOK, size
    <3>2. pool'.alive
      BY <1>0, <1>3 DEF Keeps
    <3> QED BY <3>1, <3>2, <2>4 DEF ListOK
  <2>6. Different(l, array)
    <3>1. array # NoArray => o.mem \notin {array.head, array.elts}
      BY <1>3, <1>6, NewIsDifferent DEF IInv
    <3>2. array # NoArray => NULL \notin {array.head, array.elts}
      BY <1>0, NullIsNotAllocated DEF IInv, ArrayOK
    <3> QED BY <3>1, <3>2, <2>3, <2>4 DEF Different
  <2> QED BY <2>1, <2>5, <2>6, <1>3, <1>4 DEF IInv
<1> QED BY <1>5, <1>6

(* A list whose last part has one element more.                            *)
LEMMA ListFilled ==
  ASSUME NEW P, NEW l, ListOK(P, l), l # NoList, l.parts[Len(l.parts)].nelts < ListN
  PROVE  LET r == [l EXCEPT !.parts[Len(l.parts)].nelts = @ + 1]
         IN ListOK(P, r) /\ DOMAIN r.parts = DOMAIN l.parts
            /\ \A j \in DOMAIN l.parts : r.parts[j].elts = l.parts[j].elts /\ r.parts[j].head = l.parts[j].head
<1> DEFINE n == Len(l.parts)
           x == [l.parts[n] EXCEPT !.nelts = @ + 1]
           B == [l.parts EXCEPT ![n] = x]
           r == [l EXCEPT !.parts = B]
<1>1. /\ l.parts \in Seq(PartType) /\ l = [parts |-> l.parts] /\ n \in Nat /\ DOMAIN l.parts = 1 .. n
      /\ n \in DOMAIN l.parts /\ l.parts[n] \in PartType
  BY ListFacts
<1>2. x \in PartType /\ x.elts = l.parts[n].elts /\ x.head = l.parts[n].head
  BY <1>1, PoolAssumption, SMTT(30) DEF PartType
<1> HIDE DEF x
<1>3. B \in Seq(PartType) /\ Len(B) = n /\ DOMAIN B = DOMAIN l.parts
      /\ \A j \in DOMAIN l.parts : B[j] = IF j = n THEN x ELSE l.parts[j]
  <2>1. B \in Seq(PartType) /\ Len(B) = n
    BY <1>1, <1>2, ExceptSeq
  <2> QED BY <2>1
<1> HIDE DEF B, n
<1>4. r = [parts |-> B] /\ r \in ListType /\ r.parts = B
  BY <1>1, <1>3 DEF ListType
<1> HIDE DEF r
<1>5. \A j \in DOMAIN l.parts : r.parts[j].elts = l.parts[j].elts /\ r.parts[j].head = l.parts[j].head
  BY <1>2, <1>3, <1>4
<1>6. ASSUME NEW j \in DOMAIN r.parts PROVE PartOK(P, r, j)
  <2>1. j \in DOMAIN l.parts /\ PartOK(P, l, j)
    BY <1>3, <1>4 DEF ListOK
  <2>2. j < Len(r.parts) => r.parts[j].nelts = ListN
    BY <2>1, <1>1, <1>3, <1>4 DEF PartOK, n
  <2> QED BY <2>1, <2>2, <1>5 DEF PartOK
<1>7. ListOK(P, r)
  BY <1>4, <1>6 DEF ListOK
<1> QED BY <1>3, <1>4, <1>5, <1>7 DEF r, B, x, n

(* A list with one more part, when all others are full.                    *)
LEMMA ListExtended ==
  ASSUME NEW P, P.alive, NEW l, ListOK(P, l), l # NoList, l.parts[Len(l.parts)].nelts = ListN,
         NEW head, NEW elts, head \in MemType, elts \in MemType,
         Allocated(P, elts, ListN * EltSize), Allocated(P, head, PartHead)
  PROVE  LET r == [l EXCEPT !.parts = Append(@, NewPart(head, elts))]
         IN ListOK(P, r)
            /\ \A j \in DOMAIN r.parts : \/ r.parts[j].elts = elts /\ r.parts[j].head = head
                                         \/ j \in DOMAIN l.parts /\ r.parts[j] = l.parts[j]
<1> DEFINE n == Len(l.parts)
           x == NewPart(head, elts)
           B == Append(l.parts, x)
           r == [l EXCEPT !.parts = B]
<1>1. /\ l.parts \in Seq(PartType) /\ l = [parts |-> l.parts] /\ n \in Nat /\ DOMAIN l.parts = 1 .. n
      /\ n \in DOMAIN l.parts
  BY ListFacts
<1>2. x \in PartType /\ x.elts = elts /\ x.head = head
  BY PoolAssumption DEF PartType, NewPart
<1> HIDE DEF x
<1>3. B \in Seq(PartType) /\ Len(B) = n + 1 /\ B[n + 1] = x /\ \A j \in 1 .. n : B[j] = l.parts[j]
  BY <1>1, <1>2, AppendProperties
<1> HIDE DEF B, n
<1>4. DOMAIN B = 1 .. n + 1
  BY <1>3, LenProperties
<1>5. r = [parts |-> B] /\ r \in ListType /\ r.parts = B
  BY <1>1, <1>3 DEF ListType
<1> HIDE DEF r
<1>6. ASSUME NEW j \in DOMAIN r.parts PROVE PartOK(P, r, j)
  <2>1. CASE j = n + 1
    BY <2>1, <1>2, <1>3, <1>5, <1>1 DEF PartOK
  <2>2. CASE j \in 1 .. n
    <3>1. PartOK(P, l, j) /\ r.parts[j] = l.parts[j]
      BY <2>2, <1>1, <1>3, <1>5 DEF ListOK
    <3>2. r.parts[j].nelts = ListN
      <4>1. CASE j = n
        BY <4>1, <3>1 DEF n
      <4>2. CASE j # n
        BY <4>2, <3>1, <2>2, <1>1 DEF PartOK, n
      <4> QED BY <4>1, <4>2
    <3> QED BY <3>1, <3>2 DEF PartOK
  <2> QED BY <2>1, <2>2, <1>1, <1>4, <1>5
<1>7. ListOK(P, r)
  BY <1>5, <1>6 DEF ListOK
<1>8. \A j \in DOMAIN r.parts : \/ r.parts[j].elts = elts /\ r.parts[j].head = head
                                \/ j \in DOMAIN l.parts /\ r.parts[j] = l.parts[j]
  BY <1>1, <1>2, <1>3, <1>4, <1>5
<1> QED BY <1>7, <1>8 DEF r, B, x

LEMMA ListPushKeeps == IInv /\ ListPush => IInv'
<1> SUFFICES ASSUME IInv, ListPush PROVE IInv'
  OBVIOUS
<1> DEFINE n == Len(list.parts)
           size == ListN * EltSize
<1>0. /\ Good(pool) /\ ListOK(pool, list) /\ ArrayOK(pool, array) /\ Different(list, array)
      /\ list # NoList /\ array' = array /\ size \in Nat \ {0} /\ PartHead \in Nat \ {0}
  BY Products DEF IInv, ListPush, PartHead
<1>a. pool.alive = TRUE
  BY <1>0 DEF ListOK, Good, Whole, PoolType
<1>b. list.parts[n] \in PartType /\ list.parts[n].nelts \in 0 .. ListN /\ ListN \in Nat
  <2>1. list.parts[n] \in PartType
    BY <1>0, ListFacts
  <2> QED BY <2>1, PoolAssumption DEF PartType
<1>1. CASE list.parts[n].nelts < ListN
  <2>1. list' = [list EXCEPT !.parts[n].nelts = @ + 1] /\ pool' = pool
    BY <1>1 DEF ListPush
  <2>2. /\ ListOK(pool, list') /\ DOMAIN list'.parts = DOMAIN list.parts
        /\ \A j \in DOMAIN list.parts : list'.parts[j].elts = list.parts[j].elts /\ list'.parts[j].head = list.parts[j].head
    BY <2>1, <1>0, <1>1, ListFilled
  <2> QED BY <2>1, <2>2, <1>0 DEF IInv, Different
<1>2. CASE ~ list.parts[n].nelts < ListN
  <2>0. list.parts[n].nelts = ListN
    BY <1>b, <1>2
  <2> HIDE DEF size
  <2>1. PICK o \in Alloc(pool, PartHead, TRUE) :
          IF o.mem = NULL THEN pool' = o.pool /\ UNCHANGED list
          ELSE \E e \in Alloc(o.pool, size, TRUE) :
                 /\ pool' = e.pool
                 /\ list' = IF e.mem = NULL THEN list ELSE [list EXCEPT !.parts = Append(@, NewPart(o.mem, e.mem))]
    BY <1>2 DEF ListPush, size
  <2>2. Called(pool, o, PartHead)
    BY <1>0, <1>a, AllocIsCalled
  <2> DEFINE R == o.pool
  <2>3. /\ Good(R) /\ Keeps(pool, R) /\ New(pool, R, o.mem, PartHead) /\ ListOK(R, list) /\ ArrayOK(R, array)
        /\ R.alive = TRUE
    BY <2>2, <1>0, <1>a, CallKeepsList, CallKeepsArray DEF Called, Keeps
  <2>4. CASE o.mem = NULL
    BY <2>1, <2>3, <2>4, <1>0 DEF IInv
  <2>5. CASE o.mem # NULL
    <3>1. PICK e \in Alloc(R, size, TRUE) :
            /\ pool' = e.pool
            /\ list' = IF e.mem = NULL THEN list ELSE [list EXCEPT !.parts = Append(@, NewPart(o.mem, e.mem))]
      BY <2>1, <2>5
    <3> HIDE DEF R
    <3>2. Called(R, e, size)
      BY <1>0, <2>3, <3>1, AllocIsCalled
    <3>3. Good(pool') /\ Keeps(R, pool') /\ New(R, pool', e.mem, size)
      BY <3>1, <3>2 DEF Called
    <3>4. ListOK(pool', list) /\ ArrayOK(pool', array) /\ pool'.alive
      BY <2>3, <3>3, CallKeepsList, CallKeepsArray DEF Keeps
    <3>5. CASE e.mem = NULL
      BY <3>1, <3>3, <3>4, <3>5, <1>0 DEF IInv
    <3>6. CASE e.mem # NULL
      <4>1. Allocated(R, o.mem, PartHead) /\ o.mem \in MemType
        BY <1>0, <2>3, <2>5, NewIsAllocated
      <4>2. Allocated(pool', o.mem, PartHead)
        BY <4>1, <3>3, KeepsAllocated
      <4>3. Allocated(pool', e.mem, size) /\ e.mem \in MemType
        BY <1>0, <3>3, <3>6, NewIsAllocated
      <4>4. list' = [list EXCEPT !.parts = Append(@, NewPart(o.mem, e.mem))]
        BY <3>1, <3>6
      <4>5. /\ ListOK(pool', list')
            /\ \A j \in DOMAIN list'.parts : \/ list'.parts[j].elts = e.mem /\ list'.parts[j].head = o.mem
                                             \/ j \in DOMAIN list.parts /\ list'.parts[j] = list.parts[j]
        <5> DEFINE r == [list EXCEPT !.parts = Append(@, NewPart(o.mem, e.mem))]
        <5>1. Allocated(pool', e.mem, ListN * EltSize)
          BY <4>3 DEF size
        <5>2. list.parts[Len(list.parts)].nelts = ListN
          BY <2>0
        <5>3. /\ ListOK(pool', r)
              /\ \A j \in DOMAIN r.parts : \/ r.parts[j].elts = e.mem /\ r.parts[j].head = o.mem
                                           \/ j \in DOMAIN list.parts /\ r.parts[j] = list.parts[j]
          BY <5>1, <5>2, <4>1, <4>2, <4>3, <3>4, <1>0, ListExtended
        <5>4. list' = r
          BY <4>4
        <5> HIDE DEF r
        <5> QED BY <5>3, <5>4
      <4>6. array # NoArray => o.mem \notin {array.head, array.elts} /\ e.mem \notin {array.head, array.elts}
        <5>1. array # NoArray => o.mem \notin {array.head, array.elts}
          BY <1>0, <2>3, <2>5, NewIsDifferent
        <5>2. array # NoArray => e.mem \notin {array.head, array.elts}
          BY <2>3, <3>3, <3>6, NewIsDifferent
        <5> QED BY <5>1, <5>2
      <4>7. Different(list', array)
        BY <4>5, <4>6, <1>0 DEF Different
      <4> QED BY <4>5, <4>7, <3>3, <3>4, <1>0 DEF IInv
    <3> QED BY <3>5, <3>6
  <2> QED BY <2>4, <2>5
<1> QED BY <1>1, <1>2

(* What is allocated for the list is so in the next pool too, and is not   *)
(* what m is.                                                              *)
LEMMA OthersKeepList ==
  ASSUME NEW P, NEW Q, Q.alive = P.alive, NEW M, \A x, k : Allocated(P, x, k) /\ x \notin M => Allocated(Q, x, k),
         NEW l, ListOK(P, l),
         \A j \in DOMAIN l.parts : l.parts[j].elts \notin M /\ l.parts[j].head \notin M
  PROVE  ListOK(Q, l)
<1>1. \A j \in DOMAIN l.parts : PartOK(Q, l, j)
  BY DEF ListOK, PartOK
<1> QED BY <1>1, ListKeeps

LEMMA ArrayCreateKeeps == IInv /\ ArrayCreate => IInv'
<1> SUFFICES ASSUME IInv, ArrayCreate PROVE IInv'
  OBVIOUS
<1>0. /\ Good(pool) /\ ListOK(pool, list) /\ list' = list /\ pool.alive = TRUE /\ array = NoArray
      /\ EltSize \in Nat \ {0} /\ ArrayHead \in Nat \ {0}
  BY Products DEF IInv, ArrayCreate, ArrayHead, Good, Whole, PoolType
<1>1. PICK o \in Alloc(pool, ArrayHead, TRUE) :
        IF o.mem = NULL THEN pool' = o.pool /\ UNCHANGED array
        ELSE \E e \in Alloc(o.pool, EltSize, TRUE) :
               /\ pool' = e.pool
               /\ array' = IF e.mem = NULL THEN array
                           ELSE [head |-> o.mem, elts |-> e.mem, nelts |-> 0, nalloc |-> 1]
  BY DEF ArrayCreate
<1>2. Called(pool, o, ArrayHead)
  BY <1>0, AllocIsCalled
<1> DEFINE R == o.pool
<1>3. Good(R) /\ Keeps(pool, R) /\ New(pool, R, o.mem, ArrayHead) /\ ListOK(R, list) /\ R.alive = TRUE
  BY <1>2, <1>0, CallKeepsList DEF Called, Keeps
<1>4. CASE o.mem = NULL
  BY <1>1, <1>3, <1>4, <1>0, EmptyPool DEF IInv
<1>5. CASE o.mem # NULL
  <2>1. PICK e \in Alloc(R, EltSize, TRUE) :
          /\ pool' = e.pool
          /\ array' = IF e.mem = NULL THEN array
                      ELSE [head |-> o.mem, elts |-> e.mem, nelts |-> 0, nalloc |-> 1]
    BY <1>1, <1>5
  <2> HIDE DEF R
  <2>2. Called(R, e, EltSize)
    BY <1>0, <1>3, AllocIsCalled
  <2>3. Good(pool') /\ Keeps(R, pool') /\ New(R, pool', e.mem, EltSize)
    BY <2>1, <2>2 DEF Called
  <2>4. ListOK(pool', list) /\ pool'.alive = TRUE
    BY <1>3, <2>3, CallKeepsList DEF Keeps
  <2>5. CASE e.mem = NULL
    BY <2>1, <2>3, <2>4, <2>5, <1>0, EmptyPool DEF IInv
  <2>6. CASE e.mem # NULL
    <3>1. Allocated(R, o.mem, ArrayHead) /\ o.mem \in MemType /\ o.mem.size = ArrayHead
      BY <1>0, <1>3, <1>5, NewIsAllocated
    <3>2. Allocated(pool', o.mem, ArrayHead)
      BY <3>1, <2>3, KeepsAllocated
    <3>3. Allocated(pool', e.mem, EltSize) /\ e.mem \in MemType /\ e.mem.size = EltSize
      BY <1>0, <2>3, <2>6, NewIsAllocated
    <3>4. o.mem # e.mem
      BY <3>1, <2>3, <2>6, NewDiffers
    <3>5. array' = [head |-> o.mem, elts |-> e.mem, nelts |-> 0, nalloc |-> 1]
      BY <2>1, <2>6
    <3>6. ArrayOK(pool', array')
      <4>1. array' \in ArrayType
        BY <3>1, <3>3, <3>5 DEF ArrayType
      <4>2. 1 * EltSize = EltSize
        BY <1>0
      <4> QED BY <4>1, <4>2, <3>1, <3>2, <3>3, <3>4, <3>5, <2>4 DEF ArrayOK
    <3>7. Different(list, array')
      <4>1. \A j \in DOMAIN list.parts : list.parts[j].elts \notin {o.mem, e.mem}
        BY <1>0, <1>3, <1>5, <2>3, <2>6, NewIsDifferent
      <4>2. \A j \in DOMAIN list.parts : list.parts[j].head \notin {o.mem, e.mem}
        BY <1>0, <1>3, <1>5, <2>3, <2>6, NewIsDifferent
      <4> QED BY <4>1, <4>2, <3>5 DEF Different
    <3> QED BY <3>6, <3>7, <2>3, <2>4, <1>0 DEF IInv
  <2> QED BY <2>5, <2>6
<1> QED BY <1>4, <1>5

LEMMA ArrayRecord ==
  ASSUME NEW head \in MemType, NEW elts \in MemType, NEW nelts \in Nat, NEW nalloc \in Nat
  PROVE  LET b == [head |-> head, elts |-> elts, nelts |-> nelts, nalloc |-> nalloc]
         IN b \in ArrayType /\ b.head = head /\ b.elts = elts /\ b.nelts = nelts /\ b.nalloc = nalloc
  BY DEF ArrayType

(* In place: what was the memory of the array is larger.                   *)
LEMMA GrownInPlace ==
  ASSUME NEW n \in 1 .. 2, IInv, array # NoArray,
         EndsPool(pool, array.elts, array.nalloc * EltSize), pool.blocks[1].last + n * EltSize <= Size,
         pool' = Resized(pool, array.elts, (array.nalloc + n) * EltSize),
         array' = [array EXCEPT !.elts.size = (array.nalloc + n) * EltSize, !.nalloc = @ + n, !.nelts = @ + n],
         list' = list
  PROVE  IInv'
<1> DEFINE m == array.elts
           grown == (array.nalloc + n) * EltSize
           r == [m EXCEPT !.size = grown]
<1>1. /\ Good(pool) /\ ListOK(pool, list) /\ array \in ArrayType /\ Different(list, array) /\ pool.alive
      /\ array.nalloc \in Nat /\ array.nelts \in Nat /\ array.nelts <= array.nalloc /\ array.nalloc > 0
      /\ m.size = array.nalloc * EltSize /\ Allocated(pool, m, m.size)
      /\ array.head.size = ArrayHead /\ Allocated(pool, array.head, ArrayHead) /\ array.head # m
  BY DEF IInv, ArrayOK, ArrayType
<1>a. /\ array \in ArrayType /\ array.nalloc \in Nat /\ array.nelts \in Nat /\ array.nelts <= array.nalloc
      /\ array.nalloc > 0 /\ pool.alive
  BY DEF IInv, ArrayOK, ArrayType
<1>2. grown = m.size + n * EltSize /\ n * EltSize \in Nat /\ m.size \in Nat /\ grown \in Nat
  <2> HIDE DEF m
  <2>1. \A k \in Nat : k * EltSize \in Nat /\ (k + n) * EltSize = k * EltSize + n * EltSize
    BY Products
  <2>2. array.nalloc \in Nat /\ array.nalloc + n \in Nat /\ n \in Nat
    BY <1>1
  <2> QED BY <2>1, <2>2, <1>1
<1>3. pool.blocks[1].last \in Nat
  <2>1. Whole(pool) /\ 1 \in DOMAIN pool.blocks
    BY <1>1, PoolFacts, PoolAssumption DEF Good, Whole
  <2> QED BY <2>1, PoolFacts, PoolAssumption DEF Whole
<1> HIDE DEF grown
<1>4. pool' = Resized(pool, m, grown)
  BY DEF grown
<1>5. /\ Good(pool') /\ pool'.alive = pool.alive
      /\ Allocated(pool', r, grown) /\ r \in MemType /\ r.size = grown /\ r # NULL
      /\ \A x, k : Allocated(pool, x, k) /\ x # m => Allocated(pool', x, k)
      /\ \A x, k : Allocated(pool, x, k) /\ x # m => x # r
  <2>1. EndsPool(pool, m, m.size)
    BY <1>1
  <2>2. grown >= m.size /\ pool.blocks[1].last + grown - m.size <= Size
    BY <1>2, <1>3, PoolAssumption
  <2>3. Good(pool) /\ Allocated(pool, m, m.size) /\ grown \in Nat
    BY <1>1, <1>2
  <2> HIDE DEF m
  <2> QED BY <2>1, <2>2, <2>3, <1>4, ResizedIsGood
<1>6. /\ array' \in ArrayType /\ array'.head = array.head /\ array'.elts = r
      /\ array'.nelts = array.nelts + n /\ array'.nalloc = array.nalloc + n
  <2>1. array' = [array EXCEPT !.elts = r, !.nalloc = array.nalloc + n, !.nelts = @ + n]
    BY DEF grown
  <2>2. array.nalloc + n \in Nat /\ array.nelts + n \in Nat /\ r \in MemType /\ array \in ArrayType
    BY <1>a, <1>5
  <2>3. array' = [head |-> array.head, elts |-> r, nelts |-> array.nelts + n, nalloc |-> array.nalloc + n]
        /\ array.head \in MemType
    BY <2>1, <2>2 DEF ArrayType
  <2> DEFINE b == [head |-> array.head, elts |-> r, nelts |-> array.nelts + n, nalloc |-> array.nalloc + n]
  <2>4. array' = b
    BY <2>3
  <2> HIDE DEF r
  <2>5. b \in ArrayType /\ b.head = array.head /\ b.elts = r /\ b.nelts = array.nelts + n /\ b.nalloc = array.nalloc + n
    BY <2>2, <2>3, ArrayRecord
  <2> HIDE DEF b
  <2> QED BY <2>4, <2>5
<1>7. ArrayOK(pool', array')
  <2>1. Allocated(pool', array.head, ArrayHead) /\ array.head # r /\ array.head.size = ArrayHead
    BY <1>1, <1>5
  <2>2. r.size = array'.nalloc * EltSize /\ Allocated(pool', r, r.size)
    BY <1>5, <1>6 DEF grown
  <2>3. array'.nelts <= array'.nalloc /\ array'.nalloc > 0 /\ pool'.alive
    <3>1. array.nelts + n <= array.nalloc + n /\ array.nalloc + n > 0
      BY <1>a
    <3>2. pool'.alive
      BY <1>a, <1>5
    <3> QED BY <3>1, <3>2, <1>6
  <2> HIDE DEF r, m
  <2> QED BY <2>1, <2>2, <2>3, <1>6 DEF ArrayOK
<1> HIDE DEF r, m
<1>8. \A j \in DOMAIN list.parts : list.parts[j].elts # m /\ list.parts[j].head # m
  BY <1>1 DEF Different, m
<1>9. ListOK(pool', list)
  <2>1. \A x, k : Allocated(pool, x, k) /\ x \notin {m} => Allocated(pool', x, k)
    BY <1>5
  <2>2. pool'.alive = pool.alive /\ ListOK(pool, list)
    BY <1>1, <1>5
  <2>3. \A j \in DOMAIN list.parts : list.parts[j].elts \notin {m} /\ list.parts[j].head \notin {m}
    BY <1>8
  <2> QED BY <2>1, <2>2, <2>3, OthersKeepList
<1>10. Different(list, array')
  <2>1. ASSUME NEW j \in DOMAIN list.parts PROVE list.parts[j].elts # r /\ list.parts[j].head # r
    <3>1. PartOK(pool, list, j)
      BY <1>1 DEF ListOK
    <3> QED BY <3>1, <1>5, <1>8 DEF PartOK
  <2> QED BY <2>1, <1>1, <1>6 DEF Different
<1> QED BY <1>5, <1>7, <1>9, <1>10 DEF IInv

(* In new memory of twice the size, or not at all.                         *)
LEMMA GrownElsewhere ==
  ASSUME NEW n \in 1 .. 2, IInv, array # NoArray, array.nelts + n > array.nalloc,
         NEW o \in Alloc(pool, (2 * Larger(n, array.nalloc)) * EltSize, TRUE),
         pool' = o.pool,
         array' = IF o.mem = NULL THEN array
                  ELSE [array EXCEPT !.elts = o.mem, !.nalloc = 2 * Larger(n, array.nalloc), !.nelts = @ + n],
         list' = list
  PROVE  IInv'
<1> DEFINE twice == 2 * Larger(n, array.nalloc)
           size == twice * EltSize
<1>1. /\ Good(pool) /\ ListOK(pool, list) /\ ArrayOK(pool, array) /\ Different(list, array)
      /\ array \in ArrayType /\ pool.alive = TRUE
      /\ array.nalloc \in Nat /\ array.nelts \in Nat /\ array.nelts <= array.nalloc /\ array.nalloc > 0
      /\ Allocated(pool, array.head, ArrayHead) /\ array.head.size = ArrayHead
  BY DEF IInv, ArrayOK, ArrayType, Good, Whole, PoolType
<1>2. twice \in Nat \ {0} /\ array.nelts + n <= twice
  BY <1>1 DEF Larger
<1> HIDE DEF twice
<1>3. size \in Nat \ {0}
  BY <1>2, Products
<1>4. o \in Alloc(pool, size, TRUE)
  BY DEF twice
<1> HIDE DEF size
<1>5. Called(pool, o, size)
  BY <1>1, <1>3, <1>4, AllocIsCalled
<1>6. Good(pool') /\ Keeps(pool, pool') /\ New(pool, pool', o.mem, size)
  BY <1>5 DEF Called
<1>7. ListOK(pool', list) /\ ArrayOK(pool', array) /\ pool'.alive = TRUE
  BY <1>1, <1>6, CallKeepsList, CallKeepsArray DEF Keeps
<1>8. CASE o.mem = NULL
  BY <1>1, <1>6, <1>7, <1>8 DEF IInv
<1>9. CASE o.mem # NULL
  <2>1. Allocated(pool', o.mem, size) /\ o.mem \in MemType /\ o.mem.size = size
    BY <1>3, <1>6, <1>9, NewIsAllocated
  <2>2. array' = [array EXCEPT !.elts = o.mem, !.nalloc = twice, !.nelts = @ + n]
    BY <1>9 DEF twice
  <2>3. /\ array' \in ArrayType /\ array'.head = array.head /\ array'.elts = o.mem
        /\ array'.nelts = array.nelts + n /\ array'.nalloc = twice
    <3>1. array \in ArrayType /\ twice \in Nat /\ array.nelts + n \in Nat
      BY <1>1, <1>2
    <3>2. array' = [head |-> array.head, elts |-> o.mem, nelts |-> array.nelts + n, nalloc |-> twice]
          /\ array.head \in MemType
      BY <2>2, <3>1 DEF ArrayType
    <3> DEFINE b == [head |-> array.head, elts |-> o.mem, nelts |-> array.nelts + n, nalloc |-> twice]
    <3>3. array' = b
      BY <3>2
    <3>4. b \in ArrayType /\ b.head = array.head /\ b.elts = o.mem /\ b.nelts = array.nelts + n /\ b.nalloc = twice
      BY <2>1, <3>1, <3>2, ArrayRecord
    <3> HIDE DEF b
    <3> QED BY <3>3, <3>4
  <2>4. Allocated(pool', array.head, ArrayHead) /\ array.head # o.mem
    BY <1>1, <1>6, <1>9, KeepsAllocated, NewDiffers
  <2>5. ArrayOK(pool', array')
    BY <2>1, <2>3, <2>4, <1>1, <1>2, <1>7 DEF ArrayOK, size
  <2>6. \A j \in DOMAIN list.parts : o.mem # list.parts[j].elts /\ o.mem # list.parts[j].head
    BY <1>1, <1>6, <1>9, NewIsDifferent
  <2>7. Different(list, array')
    BY <2>3, <2>6, <1>1 DEF Different
  <2> QED BY <2>5, <2>7, <1>6, <1>7 DEF IInv
<1> QED BY <1>8, <1>9

LEMMA ArrayPushKeeps ==
  ASSUME NEW n \in 1 .. 2, IInv, ArrayPush(n)
  PROVE  IInv'
<1> DEFINE grown == (array.nalloc + n) * EltSize
           inPlace == EndsPool(pool, array.elts, array.nalloc * EltSize) /\ pool.blocks[1].last + n * EltSize <= Size
<1>1. array # NoArray /\ list' = list /\ array \in ArrayType /\ ArrayOK(pool, array)
      /\ array.nalloc \in Nat /\ array.nelts \in Nat
  BY DEF ArrayPush, IInv, ArrayOK, ArrayType
<1>2. CASE array.nelts + n <= array.nalloc
  <2>1. array' = [array EXCEPT !.nelts = @ + n] /\ pool' = pool
    BY <1>2 DEF ArrayPush
  <2>2. /\ array' \in ArrayType /\ array'.nelts = array.nelts + n /\ array'.nalloc = array.nalloc
        /\ array'.head = array.head /\ array'.elts = array.elts
    BY <2>1, <1>1 DEF ArrayType
  <2>3. ArrayOK(pool', array')
    BY <2>1, <2>2, <1>1, <1>2 DEF ArrayOK
  <2>4. Different(list, array')
    BY <2>2, <1>1 DEF IInv, Different
  <2> QED BY <2>1, <2>3, <2>4, <1>1 DEF IInv
<1>3. CASE ~ array.nelts + n <= array.nalloc /\ inPlace
  <2>1. /\ pool' = Resized(pool, array.elts, grown)
        /\ array' = [array EXCEPT !.elts.size = grown, !.nalloc = @ + n, !.nelts = @ + n]
    BY <1>3 DEF ArrayPush
  <2> QED BY <2>1, <1>1, <1>3, GrownInPlace
<1>4. CASE ~ array.nelts + n <= array.nalloc /\ ~inPlace
  <2>1. PICK o \in Alloc(pool, (2 * Larger(n, array.nalloc)) * EltSize, TRUE) :
          /\ pool' = o.pool
          /\ array' = IF o.mem = NULL THEN array
                      ELSE [array EXCEPT !.elts = o.mem, !.nalloc = 2 * Larger(n, array.nalloc), !.nelts = @ + n]
    BY <1>4 DEF ArrayPush
  <2>2. array.nelts + n > array.nalloc
    BY <1>1, <1>4
  <2> QED BY <2>1, <2>2, <1>1, GrownElsewhere
<1> QED BY <1>2, <1>3, <1>4

LEMMA ArrayDestroyKeeps == IInv /\ ArrayDestroy => IInv'
<1> SUFFICES ASSUME IInv, ArrayDestroy PROVE IInv'
  OBVIOUS
<1> DEFINE m == array.elts
           h == array.head
           R == Returned(pool, m, m.size)
<1>1. /\ Good(pool) /\ ListOK(pool, list) /\ Different(list, array) /\ array # NoArray
      /\ m.size = array.nalloc * EltSize /\ Allocated(pool, m, m.size)
      /\ h.size = ArrayHead /\ Allocated(pool, h, ArrayHead) /\ h # m
  BY DEF IInv, ArrayOK, ArrayDestroy
<1>2. pool' = Returned(R, h, ArrayHead) /\ array' = NoArray /\ list' = list
  BY <1>1 DEF ArrayDestroy
<1>3. \A j \in DOMAIN list.parts : list.parts[j].elts \notin {m, h} /\ list.parts[j].head \notin {m, h}
  BY <1>1 DEF Different
<1> HIDE DEF m, h
<1>4. Good(R) /\ R.alive = pool.alive /\ \A x, k : Allocated(pool, x, k) /\ x # m => Allocated(R, x, k)
  BY <1>1, ReturnedIsGood
<1> HIDE DEF R
<1>5. Allocated(R, h, ArrayHead)
  BY <1>1, <1>4
<1>6. Good(pool') /\ pool'.alive = R.alive /\ \A x, k : Allocated(R, x, k) /\ x # h => Allocated(pool', x, k)
  BY <1>1, <1>2, <1>4, <1>5, ReturnedIsGood
<1>7. ListOK(pool', list)
  <2>1. \A x, k : Allocated(pool, x, k) /\ x \notin {m, h} => Allocated(pool', x, k)
    BY <1>4, <1>6
  <2>2. pool'.alive = pool.alive
    BY <1>4, <1>6
  <2> QED BY <2>1, <2>2, <1>1, <1>3, OthersKeepList
<1> QED BY <1>2, <1>6, <1>7, EmptyPool DEF IInv

-------------------------------------------------------------------------------
LEMMA InitKeeps == PoolInit => IInv
  BY EmptyPool DEF PoolInit, IInv

LEMMA NextKeeps == IInv /\ [PoolNext]_poolVars => IInv'
<1> SUFFICES ASSUME IInv, [PoolNext]_poolVars PROVE IInv'
  OBVIOUS
<1>1. CASE UNCHANGED poolVars
  BY <1>1 DEF poolVars, IInv
<1>2. CASE PoolNext
  BY <1>2, CreatePoolKeeps, PallocKeeps, PfreeKeeps, ResetPoolKeeps, DestroyPoolKeeps, ListInitKeeps, ListPushKeeps,
     ArrayCreateKeeps, ArrayPushKeeps, ArrayDestroyKeeps DEF PoolNext
<1> QED BY <1>1, <1>2

LEMMA IInvIsInvariant == PoolSpec => []IInv
  BY InitKeeps, NextKeeps, PTL DEF PoolSpec

(* Every variable has its type and current is a block of the chain: the    *)
(* walks of ngx_palloc_small() and ngx_palloc_block() start inside it.     *)
THEOREM PoolTypeCorrect == PoolSpec => []PoolTypeOK
<1>1. IInv => PoolTypeOK
  <2> SUFFICES ASSUME IInv PROVE PoolTypeOK
    OBVIOUS
  <2>1. Whole(pool) /\ pool \in PoolType
    BY DEF IInv, Good, Whole
  <2>2. /\ pool.alive \in BOOLEAN /\ pool.blocks \in Seq(BlockType) /\ Len(pool.blocks) <= MaxBlocks
        /\ pool.alive => pool.current \in DOMAIN pool.blocks
        /\ pool.large \in Seq(EntryType) /\ pool.heap \in HeapType
    BY <2>1 DEF Whole, PoolType
  <2>3. DOMAIN pool.pieces \subseteq Serial /\ \A s \in DOMAIN pool.pieces : pool.pieces[s] \in PieceType
    BY <2>1, PoolFacts
  <2>4. list.parts \in Seq(PartType) /\ array \in ArrayType
    BY ListFacts DEF IInv, ArrayOK
  <2> QED BY <2>2, <2>3, <2>4 DEF PoolTypeOK, BlockType, EntryType, HeapType, PartType, ArrayType
<1> QED BY <1>1, IInvIsInvariant, PTL

(* Whatever is allocated, freed, grown and given back, in whatever order   *)
(* and with malloc() failing anywhere, two allocations in the blocks do    *)
(* not overlap.  None is half in its block: it lies in it, or, which the   *)
(* test of ngx_palloc_small() lets happen only where the size of a block   *)
(* is not a multiple of the alignment, behind its end.                     *)
THEOREM AllocationsStayApart == PoolSpec => []AllocationsAreApart
<1>1. IInv => AllocationsAreApart
  BY DEF IInv, Good, Separate, In, Begins, AllocationsAreApart
<1> QED BY <1>1, IInvIsInvariant, PTL

(* In blocks that end on the alignment, as those of the cycle and of a     *)
(* connection, every allocation lies in its block, and so does the next    *)
(* free byte, or it is the first behind the end.                           *)
THEOREM AlignedPoolsStayInside ==
  ASSUME Size % Alignment = 0
  PROVE  PoolSpec => []((\A s \in DOMAIN pool.pieces : InBlock(pool.pieces[s]))
                          /\ \A b \in DOMAIN pool.blocks : pool.blocks[b].last <= Size)
<1>1. IInv => (\A s \in DOMAIN pool.pieces : InBlock(pool.pieces[s]))
                /\ \A b \in DOMAIN pool.blocks : pool.blocks[b].last <= Size
  BY DEF IInv, Good, Whole, Held, Separate, In, Behind
<1> QED BY <1>1, IInvIsInvariant, PTL

(* What malloc() gave and free() did not take is a block of the chain or   *)
(* what exactly one entry names: no path, the failing ones included, leaks *)
(* or frees twice.                                                         *)
THEOREM MemoryStaysAccounted == PoolSpec => []MemoryIsAccounted
<1>1. IInv => MemoryIsAccounted
  BY DEF IInv, Good, Accounted, MemoryIsAccounted
<1> QED BY <1>1, IInvIsInvariant, PTL

(* The parts of the list before the last are full, and every part and the  *)
(* array have memory, still allocated, for all that they may hold.         *)
THEOREM ContainersStayWhole == PoolSpec => []ContainersAreWhole
<1>1. IInv => ContainersAreWhole
  <2> SUFFICES ASSUME IInv PROVE ContainersAreWhole
    OBVIOUS
  <2>1. \A m, size : Allocated(pool, m, size) => IsAllocated(m, size)
    BY DEF Allocated, IsAllocated
  <2>2. ASSUME NEW j \in DOMAIN list.parts
        PROVE  /\ j < Len(list.parts) => list.parts[j].nelts = ListN
               /\ IsAllocated(list.parts[j].elts, ListN * EltSize)
               /\ j > 1 => IsAllocated(list.parts[j].head, PartHead)
    BY <2>1 DEF IInv, ListOK, PartOK
  <2>3. array # NoArray => /\ array.nelts <= array.nalloc
                           /\ IsAllocated(array.elts, array.nalloc * EltSize) /\ IsAllocated(array.head, ArrayHead)
    BY <2>1 DEF IInv, ArrayOK
  <2> QED BY <2>2, <2>3 DEF ContainersAreWhole
<1> QED BY <1>1, IInvIsInvariant, PTL

-------------------------------------------------------------------------------
(* The table of the channels.                                              *)

(* A table T of s chains in which every pair is in the chain of its index, *)
(* and no key is there twice.                                              *)
Pairs == [key : Keys, value : Queues]
Proper(T, s) ==
  /\ T \in [0 .. s - 1 -> Seq(Pairs)]
  /\ \A n \in 0 .. s - 1 : \A j \in DOMAIN T[n] : T[n][j].key % s = n
  /\ \A n \in 0 .. s - 1 : \A j, k \in DOMAIN T[n] : T[n][j].key = T[n][k].key => j = k

Has(T, key) == \E n \in DOMAIN T : \E j \in DOMAIN T[n] : T[n][j].key = key

LEMMA IndexType ==
  ASSUME NEW s \in Nat \ {0}, NEW key \in Nat
  PROVE  key % s \in 0 .. s - 1
OBVIOUS

LEMMA IsInItsChain ==
  ASSUME NEW s \in Nat \ {0}, NEW T, Proper(T, s), NEW key \in Keys
  PROVE  /\ key % s \in 0 .. s - 1
         /\ Has(T, key) <=> \E j \in DOMAIN T[key % s] : T[key % s][j].key = key
<1>1. key % s \in 0 .. s - 1
  BY IndexType, HashAssumption
<1>2. DOMAIN T = 0 .. s - 1
  BY DEF Proper
<1> QED BY <1>1, <1>2 DEF Has, Proper

LEMMA PairOf ==
  ASSUME NEW T, NEW s \in Nat \ {0}, Proper(T, s), NEW n \in 0 .. s - 1, NEW j \in DOMAIN T[n]
  PROVE  T[n][j] \in Pairs /\ T[n][j].key \in Keys /\ T[n][j].value \in Queues /\ T[n] \in Seq(Pairs)
<1>1. T[n] \in Seq(Pairs)
  BY DEF Proper
<1>2. T[n][j] \in Pairs
  BY <1>1, ElementOfSeq
<1> QED BY <1>1, <1>2 DEF Pairs

(* An entry becomes the head of its chain.                                 *)
Pushed(T, s, e) == [T EXCEPT ![e.key % s] = <<e>> \o @]

LEMMA Linking ==
  ASSUME NEW s \in Nat \ {0}, NEW T, Proper(T, s), NEW e \in Pairs, ~Has(T, e.key),
         NEW S, S = Pushed(T, s, e)
  PROVE  /\ Proper(S, s)
         /\ \A key : Has(S, key) <=> (Has(T, key) \/ key = e.key)
         /\ \A n \in 0 .. s - 1 : \A j \in DOMAIN S[n] : S[n][j] = e \/ \E k \in DOMAIN T[n] : S[n][j] = T[n][k]
<1> DEFINE x == e.key % s
<1> HIDE DEF x
<1>1. x \in 0 .. s - 1 /\ e.key \in Keys
  BY IndexType, HashAssumption DEF x, Pairs
<1>2. T \in [0 .. s - 1 -> Seq(Pairs)] /\ DOMAIN T = 0 .. s - 1
  BY DEF Proper
<1>3. <<e>> \o T[x] \in Seq(Pairs)
  BY <1>1, <1>2
<1>4. /\ S \in [0 .. s - 1 -> Seq(Pairs)] /\ DOMAIN S = 0 .. s - 1
      /\ S[x] = <<e>> \o T[x]
      /\ \A n \in 0 .. s - 1 : n # x => S[n] = T[n]
  BY <1>1, <1>2, <1>3 DEF x, Pushed
<1>5. T[x] \in Seq(Pairs)
  BY <1>1, <1>2
<1>6. DOMAIN T[x] = 1 .. Len(T[x]) /\ Len(T[x]) \in Nat /\ DOMAIN S[x] = 1 .. Len(T[x]) + 1
  BY <1>4, <1>5
<1>7. S[x][1] = e /\ \A j \in 2 .. Len(T[x]) + 1 : S[x][j] = T[x][j - 1]
  BY <1>4, <1>5
<1>8. \A j \in DOMAIN T[x] : j + 1 \in DOMAIN S[x] /\ S[x][j + 1] = T[x][j]
  <2>1. ASSUME NEW j \in DOMAIN T[x] PROVE j + 1 \in DOMAIN S[x] /\ S[x][j + 1] = T[x][j]
    <3>1. j \in Nat /\ j + 1 \in 2 .. Len(T[x]) + 1 /\ j + 1 - 1 = j
      BY <1>6
    <3> QED BY <3>1, <1>6, <1>7
  <2> QED BY <2>1
<1>9. \A j \in DOMAIN S[x] : j = 1 \/ (j - 1 \in DOMAIN T[x] /\ S[x][j] = T[x][j - 1])
  BY <1>6, <1>7
<1>10. \A j \in DOMAIN T[x] : T[x][j].key # e.key
  BY <1>1, <1>2 DEF Has
<1>11. \A n \in 0 .. s - 1 : \A j \in DOMAIN S[n] : S[n][j].key % s = n
  <2>1. \A j \in DOMAIN T[x] : T[x][j].key % s = x
    BY <1>1 DEF Proper
  <2>2. \A j \in DOMAIN S[x] : S[x][j].key % s = x
    BY <2>1, <1>7, <1>9 DEF x
  <2>3. \A n \in 0 .. s - 1 : n # x => \A j \in DOMAIN S[n] : S[n][j].key % s = n
    BY <1>4 DEF Proper
  <2> QED BY <2>2, <2>3
<1>12. \A n \in 0 .. s - 1 : \A j, k \in DOMAIN S[n] : S[n][j].key = S[n][k].key => j = k
  <2>1. ASSUME NEW j \in DOMAIN S[x], NEW k \in DOMAIN S[x], S[x][j].key = S[x][k].key PROVE j = k
    <3>1. CASE j = 1
      BY <3>1, <2>1, <1>7, <1>9, <1>10
    <3>2. CASE k = 1
      BY <3>2, <2>1, <1>7, <1>9, <1>10
    <3>3. CASE j # 1 /\ k # 1
      <4>1. j - 1 \in DOMAIN T[x] /\ k - 1 \in DOMAIN T[x] /\ T[x][j - 1].key = T[x][k - 1].key
        BY <3>3, <2>1, <1>9
      <4>2. j - 1 = k - 1
        BY <4>1, <1>1 DEF Proper
      <4> QED BY <4>2, <2>1, <1>6
    <3> QED BY <3>1, <3>2, <3>3
  <2>2. \A n \in 0 .. s - 1 : n # x => \A j, k \in DOMAIN S[n] : S[n][j].key = S[n][k].key => j = k
    BY <1>4 DEF Proper
  <2> QED BY <2>1, <2>2
<1>13. Proper(S, s)
  BY <1>4, <1>11, <1>12 DEF Proper
<1>14. ASSUME NEW key PROVE Has(S, key) <=> (Has(T, key) \/ key = e.key)
  <2>1. ASSUME Has(S, key) PROVE Has(T, key) \/ key = e.key
    <3>1. PICK n \in 0 .. s - 1 : \E j \in DOMAIN S[n] : S[n][j].key = key
      BY <2>1, <1>4 DEF Has
    <3>2. CASE n = x
      <4>1. PICK j \in DOMAIN S[x] : S[x][j].key = key
        BY <3>1, <3>2
      <4>2. CASE j = 1
        BY <4>1, <4>2, <1>7
      <4>3. CASE j - 1 \in DOMAIN T[x] /\ S[x][j] = T[x][j - 1]
        BY <4>1, <4>3, <1>1, <1>2 DEF Has
      <4> QED BY <4>2, <4>3, <1>9
    <3>3. CASE n # x
      BY <3>1, <3>3, <1>2, <1>4 DEF Has
    <3> QED BY <3>2, <3>3
  <2>2. ASSUME Has(T, key) PROVE Has(S, key)
    <3>1. PICK n \in 0 .. s - 1 : \E j \in DOMAIN T[n] : T[n][j].key = key
      BY <2>2, <1>2 DEF Has
    <3>2. CASE n = x
      <4>1. PICK j \in DOMAIN T[x] : T[x][j].key = key
        BY <3>1, <3>2
      <4>2. j + 1 \in DOMAIN S[x] /\ S[x][j + 1].key = key
        BY <4>1, <1>8
      <4> QED BY <4>2, <1>1, <1>4 DEF Has
    <3>3. CASE n # x
      BY <3>1, <3>3, <1>4 DEF Has
    <3> QED BY <3>2, <3>3
  <2>3. Has(S, e.key)
    <3>1. 1 \in DOMAIN S[x] /\ S[x][1].key = e.key
      BY <1>6, <1>7
    <3> QED BY <3>1, <1>1, <1>4 DEF Has
  <2> QED BY <2>1, <2>2, <2>3
<1>15. \A n \in 0 .. s - 1 : \A j \in DOMAIN S[n] : S[n][j] = e \/ \E k \in DOMAIN T[n] : S[n][j] = T[n][k]
  <2>1. \A j \in DOMAIN S[x] : S[x][j] = e \/ \E k \in DOMAIN T[x] : S[x][j] = T[x][k]
    BY <1>7, <1>9
  <2>2. \A n \in 0 .. s - 1 : n # x => S[n] = T[n]
    BY <1>4
  <2> QED BY <2>1, <2>2
<1> QED BY <1>13, <1>14, <1>15

(* The head of a chain leaves it.                                          *)
Popped(T, x) == [T EXCEPT ![x] = Tail(@)]

LEMMA Unlinking ==
  ASSUME NEW s \in Nat \ {0}, NEW T, Proper(T, s), NEW x \in 0 .. s - 1, T[x] # <<>>,
         NEW S, S = Popped(T, x)
  PROVE  /\ Proper(S, s)
         /\ Head(T[x]) \in Pairs /\ Head(T[x]) = T[x][1] /\ 1 \in DOMAIN T[x] /\ Has(T, Head(T[x]).key)
         /\ ~Has(S, Head(T[x]).key)
         /\ \A key : Has(T, key) <=> (Has(S, key) \/ key = Head(T[x]).key)
         /\ \A n \in 0 .. s - 1 : \A j \in DOMAIN S[n] : \E k \in DOMAIN T[n] : S[n][j] = T[n][k]
<1>2. T \in [0 .. s - 1 -> Seq(Pairs)] /\ DOMAIN T = 0 .. s - 1
  BY DEF Proper
<1>5. T[x] \in Seq(Pairs) /\ Tail(T[x]) \in Seq(Pairs) /\ Head(T[x]) \in Pairs /\ Head(T[x]) = T[x][1]
  BY <1>2
<1>4. /\ S \in [0 .. s - 1 -> Seq(Pairs)] /\ DOMAIN S = 0 .. s - 1
      /\ S[x] = Tail(T[x])
      /\ \A n \in 0 .. s - 1 : n # x => S[n] = T[n]
  BY <1>2, <1>5 DEF Popped
<1>6. /\ Len(T[x]) \in Nat /\ Len(T[x]) >= 1
      /\ DOMAIN T[x] = 1 .. Len(T[x]) /\ DOMAIN S[x] = 1 .. Len(T[x]) - 1
      /\ \A j \in 1 .. Len(T[x]) - 1 : S[x][j] = T[x][j + 1]
  BY <1>4, <1>5
<1>7. \A j \in DOMAIN S[x] : j + 1 \in DOMAIN T[x] /\ j + 1 # 1 /\ S[x][j] = T[x][j + 1]
  BY <1>6
<1>8. \A j \in DOMAIN T[x] : j = 1 \/ (j - 1 \in DOMAIN S[x] /\ S[x][j - 1] = T[x][j])
  <2>1. ASSUME NEW j \in DOMAIN T[x], j # 1 PROVE j - 1 \in DOMAIN S[x] /\ S[x][j - 1] = T[x][j]
    <3>1. j - 1 \in 1 .. Len(T[x]) - 1 /\ (j - 1) + 1 = j
      BY <1>6, <2>1
    <3> QED BY <3>1, <1>6
  <2> QED BY <2>1
<1>9. 1 \in DOMAIN T[x]
  BY <1>6
<1>10. \A j, k \in DOMAIN T[x] : T[x][j].key = T[x][k].key => j = k
  BY DEF Proper
<1>11. \A n \in 0 .. s - 1 : \A j \in DOMAIN S[n] : S[n][j].key % s = n
  <2>1. \A j \in DOMAIN T[x] : T[x][j].key % s = x
    BY DEF Proper
  <2>2. \A j \in DOMAIN S[x] : S[x][j].key % s = x
    BY <2>1, <1>7
  <2>3. \A n \in 0 .. s - 1 : n # x => \A j \in DOMAIN S[n] : S[n][j].key % s = n
    BY <1>4 DEF Proper
  <2> QED BY <2>2, <2>3
<1>12. \A n \in 0 .. s - 1 : \A j, k \in DOMAIN S[n] : S[n][j].key = S[n][k].key => j = k
  <2>1. ASSUME NEW j \in DOMAIN S[x], NEW k \in DOMAIN S[x], S[x][j].key = S[x][k].key PROVE j = k
    <3>1. j + 1 = k + 1
      BY <2>1, <1>7, <1>10
    <3> QED BY <3>1, <1>6
  <2>2. \A n \in 0 .. s - 1 : n # x => \A j, k \in DOMAIN S[n] : S[n][j].key = S[n][k].key => j = k
    BY <1>4 DEF Proper
  <2> QED BY <2>1, <2>2
<1>13. Proper(S, s)
  BY <1>4, <1>11, <1>12 DEF Proper
<1>14. Has(T, Head(T[x]).key)
  BY <1>2, <1>5, <1>9 DEF Has
<1>15. ~Has(S, Head(T[x]).key)
  <2>1. ASSUME NEW n \in 0 .. s - 1, NEW j \in DOMAIN S[n], S[n][j].key = T[x][1].key PROVE FALSE
    <3>1. CASE n = x
      BY <3>1, <2>1, <1>7, <1>9, <1>10
    <3>2. CASE n # x
      <4>1. T[n][j].key % s = n /\ T[x][1].key % s = x
        BY <3>2, <2>1, <1>4, <1>9 DEF Proper
      <4> QED BY <4>1, <3>2, <2>1, <1>4
    <3> QED BY <3>1, <3>2
  <2> QED BY <2>1, <1>4, <1>5 DEF Has
<1>16. ASSUME NEW key PROVE Has(T, key) <=> (Has(S, key) \/ key = Head(T[x]).key)
  <2>1. ASSUME Has(T, key) PROVE Has(S, key) \/ key = Head(T[x]).key
    <3>1. PICK n \in 0 .. s - 1 : \E j \in DOMAIN T[n] : T[n][j].key = key
      BY <2>1, <1>2 DEF Has
    <3>2. CASE n = x
      <4>1. PICK j \in DOMAIN T[x] : T[x][j].key = key
        BY <3>1, <3>2
      <4>2. CASE j = 1
        BY <4>1, <4>2, <1>5
      <4>3. CASE j # 1
        <5>1. j - 1 \in DOMAIN S[x] /\ S[x][j - 1].key = key
          BY <4>1, <4>3, <1>8
        <5> QED BY <5>1, <1>4 DEF Has
      <4> QED BY <4>2, <4>3
    <3>3. CASE n # x
      BY <3>1, <3>3, <1>4 DEF Has
    <3> QED BY <3>2, <3>3
  <2>2. ASSUME Has(S, key) PROVE Has(T, key)
    <3>1. PICK n \in 0 .. s - 1 : \E j \in DOMAIN S[n] : S[n][j].key = key
      BY <2>2, <1>4 DEF Has
    <3>2. CASE n = x
      BY <3>1, <3>2, <1>2, <1>7 DEF Has
    <3>3. CASE n # x
      BY <3>1, <3>3, <1>2, <1>4 DEF Has
    <3> QED BY <3>2, <3>3
  <2> QED BY <2>1, <2>2, <1>14
<1>17. \A n \in 0 .. s - 1 : \A j \in DOMAIN S[n] : \E k \in DOMAIN T[n] : S[n][j] = T[n][k]
  <2>1. \A j \in DOMAIN S[x] : \E k \in DOMAIN T[x] : S[x][j] = T[x][k]
    BY <1>7
  <2>2. \A n \in 0 .. s - 1 : n # x => S[n] = T[n]
    BY <1>4
  <2> QED BY <2>1, <2>2
<1> QED BY <1>5, <1>9, <1>13, <1>14, <1>15, <1>16, <1>17

-------------------------------------------------------------------------------
(* The invariant.  While entries are moved a key that was put is in the    *)
(* old chains or in the new ones, and never in both.                       *)

Known == {key \in Keys : put[key] # NoQueue}
Truthful(T) == \A n \in DOMAIN T : \A j \in DOMAIN T[n] : put[T[n][j].key] = T[n][j].value

TableInv ==
  /\ hash = [table |-> hash.table, table_size |-> hash.table_size, entries |-> hash.entries,
             prime_index |-> hash.prime_index]
  /\ hash.table_size \in Nat \ {0} /\ hash.prime_index \in Nat \ {0}
  /\ hash.entries = Cardinality(Known)
  /\ Proper(hash.table, hash.table_size) /\ Truthful(hash.table)
  /\ \A key \in Keys : Has(hash.table, key) <=> put[key] # NoQueue /\ ~Has(left, key)

InsertInv ==
  /\ insert = NoInsert \/ insert \in [at : {"enlarge", "moving", "place"}, key : Keys, value : Queues]
  /\ insert.at = "enlarge" => hash.entries # 0
  /\ insert.at = "moving" => \E s \in Nat \ {0} : Proper(left, s)
  /\ insert.at # "moving" => left = <<>>
  /\ Truthful(left)
  /\ \A key \in Keys : Has(left, key) => put[key] # NoQueue

HashInv ==
  /\ put \in [Keys -> Queues \cup {NoQueue}]
  /\ IsFiniteSet(Known)
  /\ \/ hash = NoTable /\ left = <<>> /\ insert = NoInsert /\ Known = {}
     \/ hash # NoTable /\ TableInv /\ InsertInv

LEMMA InitInv == HashInit => HashInv
<1> SUFFICES ASSUME HashInit PROVE HashInv
  OBVIOUS
<1>1. Known = {}
  BY DEF HashInit, Known
<1> QED BY <1>1, FS_EmptySet DEF HashInit, HashInv

(* The chains of a new table are empty.                                    *)
LEMMA EmptyProper ==
  ASSUME NEW s \in Nat \ {0}
  PROVE  /\ Proper(EmptyChains(s), s)
         /\ \A key : ~Has(EmptyChains(s), key)
         /\ Truthful(EmptyChains(s))
<1>1. EmptyChains(s) \in [0 .. s - 1 -> Seq(Pairs)]
  BY DEF EmptyChains
<1>2. \A n \in 0 .. s - 1 : EmptyChains(s)[n] = <<>> /\ DOMAIN EmptyChains(s)[n] = {}
  BY DEF EmptyChains
<1>3. Proper(EmptyChains(s), s)
  BY <1>1, <1>2 DEF Proper
<1> QED BY <1>1, <1>2, <1>3 DEF Has, Truthful

LEMMA TableSizeType ==
  ASSUME NEW index \in Nat \ {0}, NEW entries \in Nat, index > Len(Primes) => entries # 0
  PROVE  TableSize(index, entries) \in Nat \ {0}
<1>1. CASE index <= Len(Primes)
  <2>1. index \in 1 .. Len(Primes)
    BY <1>1, HashAssumption
  <2>2. Primes[index] \in Nat \ {0}
    BY <2>1, HashAssumption, ElementOfSeq
  <2> QED BY <1>1, <2>2 DEF TableSize
<1>2. CASE ~(index <= Len(Primes))
  <2>1. entries # 0
    BY <1>2, HashAssumption
  <2>2. entries * 10 \in Nat \ {0}
    BY <2>1
  <2> QED BY <1>2, <2>2 DEF TableSize
<1> QED BY <1>1, <1>2

LEMMA NewTableInv == HashInv /\ NewTable => HashInv'
<1> SUFFICES ASSUME HashInv, NewTable PROVE HashInv'
  OBVIOUS
<1> DEFINE s == TableSize(1, 0)
<1>1. Len(Primes) >= 1
  BY HashAssumption
<1>2. s \in Nat \ {0}
  BY <1>1, TableSizeType
<1>3. hash = NoTable /\ left = <<>> /\ insert = NoInsert /\ Known = {} /\ UNCHANGED <<left, insert, put>>
  BY DEF HashInv, NewTable
<1>4. Known' = {} /\ IsFiniteSet(Known') /\ Cardinality(Known') = 0
  BY <1>3, FS_EmptySet DEF Known
<1> HIDE DEF s
<1>5. hash' = [table |-> EmptyChains(s), table_size |-> s, entries |-> 0, prime_index |-> 1]
  BY DEF NewTable, s
<1>6. hash' # NoTable
  BY <1>5 DEF NoTable
<1>7. ~Has(left, 0) /\ \A key : ~Has(left', key)
  BY <1>3 DEF Has
<1>8. TableInv'
  <2>1. Proper(EmptyChains(s), s) /\ \A key : ~Has(EmptyChains(s), key)
    BY <1>2, EmptyProper
  <2>2. \A n \in DOMAIN EmptyChains(s) : DOMAIN EmptyChains(s)[n] = {}
    BY DEF EmptyChains
  <2>3. \A key \in Keys : put'[key] = NoQueue
    BY <1>4 DEF Known
  <2> QED BY <1>2, <1>4, <1>5, <2>1, <2>2, <2>3 DEF TableInv, Truthful
<1>9. InsertInv'
  BY <1>3, <1>7 DEF InsertInv, NoInsert, Truthful
<1> QED BY <1>3, <1>4, <1>6, <1>8, <1>9 DEF HashInv

LEMMA HashInsertInv ==
  ASSUME HashInv, NEW key \in Keys, NEW value \in Queues, HashInsert(key, value)
  PROVE  HashInv'
<1>1. hash # NoTable /\ TableInv /\ InsertInv /\ insert = NoInsert /\ UNCHANGED <<hash, left, put>>
  BY DEF HashInv, HashInsert
<1>2. TableInv' /\ Known' = Known
  BY <1>1 DEF TableInv, Known, Truthful, Has
<1>3. insert' \in [at : {"enlarge", "moving", "place"}, key : Keys, value : Queues] /\ insert'.at # "moving"
  BY DEF HashInsert
<1>4. insert'.at = "enlarge" => hash.entries # 0
  <2>1. ASSUME hash.entries = 0 PROVE ~((hash.entries * 3) \div hash.table_size > 0)
    <3>1. hash.table_size \in Nat \ {0}
      BY <1>1 DEF TableInv
    <3>2. 0 \div hash.table_size = 0
      BY <3>1
    <3> QED BY <2>1, <3>2
  <2> QED BY <2>1 DEF HashInsert
<1>5. InsertInv'
  BY <1>1, <1>3, <1>4 DEF InsertInv, NoInsert, Truthful, Has
<1> QED BY <1>1, <1>2, <1>5 DEF HashInv

LEMMA EnlargeInv == HashInv /\ Enlarge => HashInv'
<1> SUFFICES ASSUME HashInv, Enlarge PROVE HashInv'
  OBVIOUS
<1>1. hash # NoTable /\ TableInv /\ InsertInv /\ insert.at = "enlarge" /\ left = <<>> /\ put' = put
  BY DEF HashInv, Enlarge, InsertInv, NoInsert
<1>2. Known' = Known
  BY <1>1 DEF Known
<1>3. insert \in [at : {"enlarge", "moving", "place"}, key : Keys, value : Queues]
  BY <1>1 DEF InsertInv, NoInsert
<1>4. CASE insert' = NoInsert /\ UNCHANGED <<hash, left>>
  <2>1. TableInv'
    BY <1>1, <1>2, <1>4 DEF TableInv, Truthful, Has
  <2>2. InsertInv'
    BY <1>1, <1>4 DEF InsertInv, NoInsert, Truthful, Has
  <2> QED BY <1>1, <1>2, <1>4, <2>1, <2>2 DEF HashInv
<1>5. CASE ~(insert' = NoInsert /\ UNCHANGED <<hash, left>>)
  <2> DEFINE s == TableSize(hash.prime_index + 1, hash.entries)
  <2>1. /\ hash' = [hash EXCEPT !.table = EmptyChains(s), !.table_size = s, !.prime_index = @ + 1]
        /\ left' = hash.table /\ insert' = [insert EXCEPT !.at = "moving"]
    BY <1>5 DEF Enlarge
  <2>2. s \in Nat \ {0}
    <3>1. Cardinality(Known) \in Nat
      BY FS_CardinalityType DEF HashInv
    <3>2. hash.prime_index + 1 \in Nat \ {0} /\ hash.entries \in Nat /\ hash.entries # 0
      BY <1>1, <3>1 DEF TableInv, InsertInv
    <3> QED BY <3>2, TableSizeType
  <2> HIDE DEF s
  <2>3. hash' = [table |-> EmptyChains(s), table_size |-> s, entries |-> hash.entries,
                 prime_index |-> hash.prime_index + 1]
    BY <1>1, <2>1 DEF TableInv
  <2>4. /\ hash'.table = EmptyChains(s) /\ hash'.table_size = s /\ hash'.entries = hash.entries
        /\ hash'.prime_index \in Nat \ {0} /\ hash' # NoTable
    <3>1. hash.prime_index + 1 \in Nat \ {0}
      BY <1>1 DEF TableInv
    <3> QED BY <2>3, <3>1 DEF NoTable
  <2>5. \A key \in Keys : Has(left', key) <=> put[key] # NoQueue
    <3>1. \A key : ~Has(left, key)
      BY <1>1 DEF Has
    <3> QED BY <1>1, <2>1, <3>1 DEF TableInv
  <2>6. TableInv'
    <3>1. Proper(EmptyChains(s), s) /\ \A key : ~Has(EmptyChains(s), key)
      BY <2>2, EmptyProper
    <3>2. \A n \in DOMAIN EmptyChains(s) : DOMAIN EmptyChains(s)[n] = {}
      BY DEF EmptyChains
    <3>3. hash.entries = Cardinality(Known)
      BY <1>1 DEF TableInv
    <3> QED BY <1>1, <1>2, <2>2, <2>3, <2>4, <2>5, <3>1, <3>2, <3>3 DEF TableInv, Truthful
  <2>7. InsertInv'
    <3>1. insert' \in [at : {"enlarge", "moving", "place"}, key : Keys, value : Queues] /\ insert'.at = "moving"
      BY <1>3, <2>1
    <3>2. hash.table_size \in Nat \ {0} /\ Proper(left', hash.table_size)
      BY <1>1, <2>1 DEF TableInv
    <3>3. Truthful(left)'
      BY <1>1, <2>1 DEF TableInv, Truthful
    <3> QED BY <1>1, <2>5, <3>1, <3>2, <3>3 DEF InsertInv
  <2> QED BY <1>1, <1>2, <2>4, <2>6, <2>7 DEF HashInv
<1> QED BY <1>4, <1>5

(* A pair whose key no chain of the table has is linked into its chain.    *)
NewChains(e) == Pushed(hash.table, hash.table_size, e)

LEMMA LinkedTable ==
  ASSUME hash = [table |-> hash.table, table_size |-> hash.table_size, entries |-> hash.entries,
                 prime_index |-> hash.prime_index],
         hash.table_size \in Nat \ {0}, Proper(hash.table, hash.table_size),
         NEW e \in Pairs, ~Has(hash.table, e.key)
  PROVE  /\ Linked(hash, e) = [table |-> NewChains(e), table_size |-> hash.table_size, entries |-> hash.entries,
                               prime_index |-> hash.prime_index]
         /\ Proper(NewChains(e), hash.table_size)
         /\ \A key : Has(NewChains(e), key) <=> (Has(hash.table, key) \/ key = e.key)
         /\ \A n \in DOMAIN NewChains(e) : \A j \in DOMAIN NewChains(e)[n] :
               \/ NewChains(e)[n][j] = e
               \/ n \in DOMAIN hash.table /\ \E k \in DOMAIN hash.table[n] : NewChains(e)[n][j] = hash.table[n][k]
<1>1. Linked(hash, e) = [table |-> NewChains(e), table_size |-> hash.table_size, entries |-> hash.entries,
                         prime_index |-> hash.prime_index]
  BY DEF Linked, Index, NewChains, Pushed
<1>2. ASSUME NEW s \in Nat \ {0}, NEW T, s = hash.table_size, T = hash.table, NEW S, S = NewChains(e)
      PROVE  /\ Proper(S, s)
             /\ \A key : Has(S, key) <=> (Has(T, key) \/ key = e.key)
             /\ \A n \in 0 .. s - 1 : \A j \in DOMAIN S[n] : S[n][j] = e \/ \E k \in DOMAIN T[n] : S[n][j] = T[n][k]
  <2>1. S = Pushed(T, s, e) /\ Proper(T, s) /\ ~Has(T, e.key)
    BY <1>2 DEF NewChains
  <2> QED BY <1>2, <2>1, Linking
<1>3. DOMAIN NewChains(e) = 0 .. hash.table_size - 1 /\ DOMAIN hash.table = 0 .. hash.table_size - 1
  BY <1>2 DEF Proper
<1> QED BY <1>1, <1>2, <1>3

LEMMA MoveInv == HashInv /\ Move => HashInv'
<1> SUFFICES ASSUME HashInv, Move PROVE HashInv'
  OBVIOUS
<1>1. hash # NoTable /\ TableInv /\ InsertInv /\ insert.at = "moving" /\ put' = put /\ insert' = insert
  BY DEF HashInv, Move, NoInsert
<1>2. Known' = Known
  BY <1>1 DEF Known
<1>3. PICK s \in Nat \ {0} : Proper(left, s)
  BY <1>1 DEF InsertInv
<1>4. DOMAIN left = 0 .. s - 1
  BY <1>3 DEF Proper
<1>5. PICK n \in 0 .. s - 1 : /\ left[n] # <<>>
                             /\ hash' = Linked(hash, Head(left[n])) /\ left' = [left EXCEPT ![n] = Tail(@)]
  BY <1>4 DEF Move
<1> DEFINE e == Head(left[n])
<1> HIDE DEF e
<1>6. /\ Proper(left', s)
      /\ e \in Pairs /\ e = left[n][1] /\ 1 \in DOMAIN left[n] /\ Has(left, e.key)
      /\ ~Has(left', e.key)
      /\ \A key : Has(left, key) <=> (Has(left', key) \/ key = e.key)
      /\ \A m \in 0 .. s - 1 : \A j \in DOMAIN left'[m] : \E k \in DOMAIN left[m] : left'[m][j] = left[m][k]
  <2>1. ASSUME NEW T, T = left, NEW S, S = left', NEW h, h = Head(left[n])
        PROVE  /\ Proper(S, s)
               /\ h \in Pairs /\ h = T[n][1] /\ 1 \in DOMAIN T[n] /\ Has(T, h.key)
               /\ ~Has(S, h.key)
               /\ \A key : Has(T, key) <=> (Has(S, key) \/ key = h.key)
               /\ \A m \in 0 .. s - 1 : \A j \in DOMAIN S[m] : \E k \in DOMAIN T[m] : S[m][j] = T[m][k]
    <3>1. S = Popped(T, n) /\ Proper(T, s) /\ T[n] # <<>> /\ h = Head(T[n])
      BY <1>3, <1>5, <2>1 DEF Popped
    <3> QED BY <3>1, Unlinking
  <2> QED BY <2>1 DEF e
<1>7. e.key \in Keys /\ put[e.key] = e.value /\ put[e.key] # NoQueue
  <2>1. e.key \in Keys /\ e.value \in Queues
    BY <1>6 DEF Pairs
  <2>2. put[e.key] = e.value
    BY <1>1, <1>4, <1>6 DEF InsertInv, Truthful
  <2> QED BY <2>1, <2>2, HashAssumption DEF NoQueue
<1>8. ~Has(hash.table, e.key)
  BY <1>1, <1>6, <1>7 DEF TableInv
<1> DEFINE S == NewChains(e)
<1>9. /\ hash' = [table |-> S, table_size |-> hash.table_size, entries |-> hash.entries,
                  prime_index |-> hash.prime_index]
      /\ Proper(S, hash.table_size)
      /\ \A key : Has(S, key) <=> (Has(hash.table, key) \/ key = e.key)
      /\ \A m \in DOMAIN S : \A j \in DOMAIN S[m] :
           S[m][j] = e \/ (m \in DOMAIN hash.table /\ \E k \in DOMAIN hash.table[m] : S[m][j] = hash.table[m][k])
  <2>1. hash' = Linked(hash, e)
    BY <1>5 DEF e
  <2> QED BY <2>1, <1>1, <1>6, <1>8, LinkedTable DEF TableInv
<1> HIDE DEF S
<1>10. hash'.table = S /\ hash'.table_size = hash.table_size /\ hash'.entries = hash.entries
       /\ hash'.prime_index = hash.prime_index
  BY <1>9
<1>11. hash' # NoTable
  BY <1>1, <1>9 DEF NoTable, TableInv
<1>12. Truthful(hash.table)'
  <2>1. \A m \in DOMAIN hash.table : \A k \in DOMAIN hash.table[m] : put[hash.table[m][k].key] = hash.table[m][k].value
    BY <1>1 DEF TableInv, Truthful
  <2>2. \A m \in DOMAIN S : \A j \in DOMAIN S[m] : put[S[m][j].key] = S[m][j].value
    BY <2>1, <1>7, <1>9
  <2> QED BY <2>2, <1>1, <1>10 DEF Truthful
<1>13. Truthful(left)'
  <2>1. \A m \in 0 .. s - 1 : \A k \in DOMAIN left[m] : put[left[m][k].key] = left[m][k].value
    BY <1>1, <1>4 DEF InsertInv, Truthful
  <2>2. DOMAIN left' = 0 .. s - 1
    BY <1>6 DEF Proper
  <2>3. \A m \in 0 .. s - 1 : \A j \in DOMAIN left'[m] : put[left'[m][j].key] = left'[m][j].value
    BY <2>1, <1>6
  <2> QED BY <2>2, <2>3, <1>1 DEF Truthful
<1>14. TableInv'
  <2>1. \A key \in Keys : Has(S, key) <=> put[key] # NoQueue /\ ~Has(left', key)
    <3>1. \A key \in Keys : Has(hash.table, key) <=> put[key] # NoQueue /\ ~Has(left, key)
      BY <1>1 DEF TableInv
    <3> QED BY <3>1, <1>6, <1>7, <1>9
  <2>2. hash.table_size \in Nat \ {0} /\ hash.prime_index \in Nat \ {0} /\ hash.entries = Cardinality(Known)
    BY <1>1 DEF TableInv
  <2>3. hash' = [table |-> hash'.table, table_size |-> hash'.table_size, entries |-> hash'.entries,
                 prime_index |-> hash'.prime_index]
    BY <1>9, <1>10
  <2> QED BY <2>1, <2>2, <2>3, <1>1, <1>2, <1>9, <1>10, <1>12 DEF TableInv
<1>15. InsertInv'
  <2>1. \A key \in Keys : Has(left', key) => put[key] # NoQueue
    BY <1>1, <1>6 DEF InsertInv
  <2>2. insert = NoInsert \/ insert \in [at : {"enlarge", "moving", "place"}, key : Keys, value : Queues]
    BY <1>1 DEF InsertInv
  <2> QED BY <2>1, <2>2, <1>1, <1>6, <1>13 DEF InsertInv
<1> QED BY <1>1, <1>2, <1>11, <1>14, <1>15 DEF HashInv

LEMMA MovedInv == HashInv /\ Moved => HashInv'
<1> SUFFICES ASSUME HashInv, Moved PROVE HashInv'
  OBVIOUS
<1>1. /\ hash # NoTable /\ TableInv /\ InsertInv /\ insert.at = "moving" /\ UNCHANGED <<hash, put>>
      /\ left' = <<>> /\ insert' = [insert EXCEPT !.at = "place"]
  BY DEF HashInv, Moved, NoInsert
<1>2. Known' = Known
  BY <1>1 DEF Known
<1>3. \A key : ~Has(left, key) /\ ~Has(left', key)
  <2>1. \A n \in DOMAIN left : left[n] = <<>>
    BY DEF Moved
  <2>2. \A n \in DOMAIN left : DOMAIN left[n] = {}
    BY <2>1
  <2> QED BY <2>2, <1>1 DEF Has
<1>4. TableInv'
  <2>1. \A key \in Keys : Has(hash.table, key) <=> put[key] # NoQueue
    BY <1>1, <1>3 DEF TableInv
  <2>2. (\A key \in Keys : Has(hash.table, key) <=> put[key] # NoQueue /\ ~Has(left, key))'
    BY <2>1, <1>1, <1>3
  <2>3. Truthful(hash.table)' /\ Proper(hash.table, hash.table_size)'
    BY <1>1 DEF TableInv, Truthful
  <2> QED BY <1>1, <1>2, <2>2, <2>3 DEF TableInv
<1>5. InsertInv'
  <2>1. insert' \in [at : {"enlarge", "moving", "place"}, key : Keys, value : Queues] /\ insert'.at = "place"
    BY <1>1 DEF InsertInv, NoInsert
  <2>2. Truthful(left)'
    BY <1>1 DEF Truthful
  <2> QED BY <2>1, <2>2, <1>1, <1>3 DEF InsertInv
<1> QED BY <1>1, <1>2, <1>4, <1>5 DEF HashInv

(* What is found in the chain of a key.                                    *)
LEMMA FoundOne ==
  ASSUME TableInv, left = <<>>, NEW key \in Keys
  PROVE  /\ Index(hash, key) \in 0 .. hash.table_size - 1
         /\ Found(hash, key) # {} <=> Has(hash.table, key)
         /\ Found(hash, key) # {} =>
              /\ FirstFound(hash, key) \in Found(hash, key)
              /\ Found(hash, key) = {FirstFound(hash, key)}
              /\ Chain(hash, key)[FirstFound(hash, key)].value = put[key]
<1>1. hash.table_size \in Nat \ {0} /\ Proper(hash.table, hash.table_size) /\ Truthful(hash.table)
  BY DEF TableInv
<1>2. /\ Index(hash, key) \in 0 .. hash.table_size - 1
      /\ Has(hash.table, key) <=> \E j \in DOMAIN Chain(hash, key) : Chain(hash, key)[j].key = key
  <2>1. ASSUME NEW T, T = hash.table, NEW s \in Nat \ {0}, s = hash.table_size
        PROVE  key % s \in 0 .. s - 1 /\ (Has(T, key) <=> \E j \in DOMAIN T[key % s] : T[key % s][j].key = key)
    <3>1. Proper(T, s)
      BY <1>1, <2>1
    <3> QED BY <3>1, IsInItsChain
  <2> QED BY <1>1, <2>1 DEF Index, Chain
<1>3. Chain(hash, key) \in Seq(Pairs)
  BY <1>1, <1>2 DEF Proper, Chain
<1>4. \A j, k \in Found(hash, key) : j = k
  BY <1>1, <1>2 DEF Found, Proper, Chain
<1>5. Found(hash, key) # {} <=> Has(hash.table, key)
  BY <1>2 DEF Found
<1>6. ASSUME NEW j \in Found(hash, key)
      PROVE  /\ FirstFound(hash, key) \in Found(hash, key)
             /\ Found(hash, key) = {FirstFound(hash, key)}
             /\ Chain(hash, key)[FirstFound(hash, key)].value = put[key]
  <2>1. j \in Nat /\ j \in DOMAIN Chain(hash, key) /\ Chain(hash, key)[j].key = key
    BY <1>3, <1>6 DEF Found
  <2>2. \A k \in Found(hash, key) : j <= k
    <3>1. ASSUME NEW k \in Found(hash, key) PROVE j <= k
      BY <1>4, <1>6, <2>1, <3>1
    <3> QED BY <3>1
  <2>3. FirstFound(hash, key) \in Found(hash, key)
    BY <1>6, <2>2 DEF FirstFound
  <2>4. Found(hash, key) = {FirstFound(hash, key)} /\ FirstFound(hash, key) = j
    BY <1>4, <1>6, <2>3
  <2>5. put[Chain(hash, key)[j].key] = Chain(hash, key)[j].value
    <3>1. Index(hash, key) \in DOMAIN hash.table
      BY <1>1, <1>2 DEF Proper
    <3> QED BY <1>1, <2>1, <3>1 DEF Truthful, Chain
  <2> QED BY <2>1, <2>3, <2>4, <2>5
<1> QED BY <1>2, <1>5, <1>6

(* A pair that is in its chain gets another value.                         *)
Written(T, x, i, e) == [T EXCEPT ![x][i] = e]

LEMMA Writing ==
  ASSUME NEW s \in Nat \ {0}, NEW T, Proper(T, s), NEW x \in 0 .. s - 1, NEW i \in DOMAIN T[x],
         NEW e \in Pairs, e.key = T[x][i].key, NEW S, S = Written(T, x, i, e)
  PROVE  /\ Proper(S, s)
         /\ \A key : Has(S, key) <=> Has(T, key)
         /\ \A n \in 0 .. s - 1 : \A j \in DOMAIN S[n] :
               \/ S[n][j] = e
               \/ j \in DOMAIN T[n] /\ S[n][j] = T[n][j] /\ T[n][j].key # e.key
<1>1. T \in [0 .. s - 1 -> Seq(Pairs)] /\ DOMAIN T = 0 .. s - 1 /\ T[x] \in Seq(Pairs)
  BY DEF Proper
<1>2. [T[x] EXCEPT ![i] = e] \in Seq(Pairs)
  BY <1>1
<1>3. /\ S \in [0 .. s - 1 -> Seq(Pairs)] /\ DOMAIN S = 0 .. s - 1
      /\ S[x] = [T[x] EXCEPT ![i] = e]
      /\ \A n \in 0 .. s - 1 : n # x => S[n] = T[n]
  BY <1>1, <1>2 DEF Written
<1>4. /\ DOMAIN S[x] = DOMAIN T[x] /\ S[x][i] = e
      /\ \A j \in DOMAIN T[x] : j # i => S[x][j] = T[x][j]
  BY <1>1, <1>3
<1>5. \A n \in 0 .. s - 1 : DOMAIN S[n] = DOMAIN T[n] /\ \A j \in DOMAIN T[n] : S[n][j].key = T[n][j].key
  <2>1. \A j \in DOMAIN T[x] : S[x][j].key = T[x][j].key
    BY <1>4
  <2> QED BY <2>1, <1>3, <1>4
<1>6. Proper(S, s)
  <2>1. \A n \in 0 .. s - 1 : \A j \in DOMAIN S[n] : S[n][j].key % s = n
    BY <1>5 DEF Proper
  <2>2. \A n \in 0 .. s - 1 : \A j, k \in DOMAIN S[n] : S[n][j].key = S[n][k].key => j = k
    BY <1>5 DEF Proper
  <2> QED BY <1>3, <2>1, <2>2 DEF Proper
<1>7. ASSUME NEW key PROVE Has(S, key) <=> Has(T, key)
  <2>1. ASSUME NEW n \in 0 .. s - 1
        PROVE  (\E j \in DOMAIN S[n] : S[n][j].key = key) <=> \E j \in DOMAIN T[n] : T[n][j].key = key
    BY <1>5
  <2> QED BY <2>1, <1>1, <1>3 DEF Has
<1>8. ASSUME NEW n \in 0 .. s - 1, NEW j \in DOMAIN S[n], S[n][j] # e
      PROVE  j \in DOMAIN T[n] /\ S[n][j] = T[n][j] /\ T[n][j].key # e.key
  <2>1. CASE n = x
    <3>1. j # i /\ j \in DOMAIN T[x]
      BY <2>1, <1>4, <1>8
    <3>2. T[x][j].key # T[x][i].key
      BY <3>1 DEF Proper
    <3> QED BY <2>1, <3>1, <3>2, <1>4
  <2>2. CASE n # x
    <3>1. S[n] = T[n]
      BY <2>2, <1>3
    <3>2. T[n][j].key % s = n /\ T[x][i].key % s = x
      BY <3>1, <1>8 DEF Proper
    <3>3. T[n][j].key # e.key
      BY <2>2, <3>2
    <3> QED BY <3>1, <3>3, <1>8
  <2> QED BY <2>1, <2>2
<1>9. \A n \in 0 .. s - 1 : \A j \in DOMAIN S[n] :
        S[n][j] = e \/ (j \in DOMAIN T[n] /\ S[n][j] = T[n][j] /\ T[n][j].key # e.key)
  BY <1>8
<1> QED BY <1>6, <1>7, <1>9

LEMMA RenewInv == HashInv /\ Renew => HashInv'
<1> SUFFICES ASSUME HashInv, Renew PROVE HashInv'
  OBVIOUS
<1>1. /\ hash # NoTable /\ TableInv /\ InsertInv /\ insert.at = "place" /\ left = <<>> /\ left' = <<>>
      /\ insert' = NoInsert
  BY DEF HashInv, Renew, InsertInv, NoInsert
<1>2. insert.key \in Keys /\ insert.value \in Queues
  BY <1>1 DEF InsertInv, NoInsert
<1> DEFINE x == Index(hash, insert.key)
           i == FirstFound(hash, insert.key)
           e == Pair(insert.key, insert.value)
           S == Written(hash.table, x, i, e)
<1>3. /\ x \in 0 .. hash.table_size - 1 /\ i \in DOMAIN hash.table[x] /\ hash.table[x][i].key = insert.key
      /\ Has(hash.table, insert.key)
  <2>1. Found(hash, insert.key) # {}
    BY DEF Renew
  <2> QED BY <2>1, <1>1, <1>2, FoundOne DEF Found, Chain
<1>4. e \in Pairs /\ e.key = insert.key /\ e.value = insert.value
  BY <1>2 DEF Pair, Pairs
<1>5. hash' = [table |-> S, table_size |-> hash.table_size, entries |-> hash.entries,
               prime_index |-> hash.prime_index]
  BY <1>1 DEF TableInv, Renew, Written
<1> HIDE DEF x, i, e, S
<1>6. /\ hash.table_size \in Nat \ {0} /\ hash.prime_index \in Nat \ {0} /\ Proper(hash.table, hash.table_size)
      /\ hash.entries = Cardinality(Known) /\ Truthful(hash.table)
  BY <1>1 DEF TableInv
<1>7. /\ Proper(S, hash.table_size)
      /\ \A key : Has(S, key) <=> Has(hash.table, key)
      /\ \A n \in 0 .. hash.table_size - 1 : \A j \in DOMAIN S[n] :
            \/ S[n][j] = e
            \/ j \in DOMAIN hash.table[n] /\ S[n][j] = hash.table[n][j] /\ hash.table[n][j].key # e.key
  <2>1. ASSUME NEW T, T = hash.table, NEW s, s = hash.table_size, NEW R, R = S, NEW y, y = x, NEW k, k = i,
               NEW d, d = e
        PROVE  /\ Proper(R, s)
               /\ \A key : Has(R, key) <=> Has(T, key)
               /\ \A n \in 0 .. s - 1 : \A j \in DOMAIN R[n] :
                    R[n][j] = d \/ (j \in DOMAIN T[n] /\ R[n][j] = T[n][j] /\ T[n][j].key # d.key)
    <3>1. /\ s \in Nat \ {0} /\ Proper(T, s) /\ y \in 0 .. s - 1 /\ k \in DOMAIN T[y] /\ d \in Pairs
          /\ d.key = T[y][k].key
      BY <1>3, <1>4, <1>6, <2>1
    <3>2. R = Written(T, y, k, d)
      BY <2>1 DEF S
    <3> QED BY <3>1, <3>2, Writing
  <2> QED BY <2>1
<1>8. put' = [put EXCEPT ![insert.key] = insert.value] /\ put \in [Keys -> Queues \cup {NoQueue}]
  BY DEF Renew, HashInv
<1>9. /\ put' \in [Keys -> Queues \cup {NoQueue}]
      /\ put'[insert.key] = insert.value /\ \A key \in Keys : key # insert.key => put'[key] = put[key]
  BY <1>2, <1>8
<1>10. \A key : ~Has(left, key) /\ ~Has(left', key)
  BY <1>1 DEF Has
<1>11. \A key \in Keys : put'[key] # NoQueue <=> put[key] # NoQueue
  <2>1. put[insert.key] # NoQueue
    BY <1>1, <1>2, <1>3 DEF TableInv
  <2>2. insert.value # NoQueue
    BY <1>2, HashAssumption DEF NoQueue
  <2> QED BY <2>1, <2>2, <1>9
<1>12. Known' = Known
  BY <1>11 DEF Known
<1>13. \A n \in DOMAIN S : \A j \in DOMAIN S[n] : put'[S[n][j].key] = S[n][j].value
  <2>1. DOMAIN S = 0 .. hash.table_size - 1 /\ DOMAIN hash.table = 0 .. hash.table_size - 1
    BY <1>6, <1>7 DEF Proper
  <2>2. ASSUME NEW n \in 0 .. hash.table_size - 1, NEW j \in DOMAIN S[n]
        PROVE  put'[S[n][j].key] = S[n][j].value
    <3>1. CASE S[n][j] = e
      BY <3>1, <1>4, <1>9
    <3>2. CASE j \in DOMAIN hash.table[n] /\ S[n][j] = hash.table[n][j] /\ hash.table[n][j].key # e.key
      <4>1. put[hash.table[n][j].key] = hash.table[n][j].value
        BY <3>2, <2>1, <1>6 DEF Truthful
      <4>2. S[n][j].key \in Keys
        <5>1. S[n] \in Seq(Pairs)
          BY <1>7 DEF Proper
        <5>2. S[n][j] \in Pairs
          BY <5>1, ElementOfSeq
        <5> QED BY <5>2 DEF Pairs
      <4> QED BY <3>2, <4>1, <4>2, <1>4, <1>9
    <3> QED BY <3>1, <3>2, <1>7
  <2> QED BY <2>1, <2>2
<1>14. hash'.table = S /\ hash'.table_size = hash.table_size /\ hash'.entries = hash.entries
       /\ hash'.prime_index = hash.prime_index /\ hash' # NoTable
  BY <1>5, <1>6 DEF NoTable
<1>15. TableInv'
  <2>1. \A key \in Keys : Has(S, key) <=> put'[key] # NoQueue /\ ~Has(left', key)
    BY <1>1, <1>7, <1>10, <1>11 DEF TableInv
  <2>2. Truthful(hash.table)'
    BY <1>13, <1>14 DEF Truthful
  <2>3. hash' = [table |-> hash'.table, table_size |-> hash'.table_size, entries |-> hash'.entries,
                 prime_index |-> hash'.prime_index]
    BY <1>5, <1>14
  <2> QED BY <2>1, <2>2, <2>3, <1>6, <1>7, <1>12, <1>14 DEF TableInv
<1>16. InsertInv'
  BY <1>1, <1>10 DEF InsertInv, NoInsert, Truthful
<1>17. IsFiniteSet(Known')
  BY <1>12 DEF HashInv
<1> QED BY <1>9, <1>14, <1>15, <1>16, <1>17 DEF HashInv

LEMMA AddInv == HashInv /\ Add => HashInv'
<1> SUFFICES ASSUME HashInv, Add PROVE HashInv'
  OBVIOUS
<1>1. /\ hash # NoTable /\ TableInv /\ InsertInv /\ insert.at = "place" /\ left = <<>> /\ left' = <<>>
      /\ insert' = NoInsert
  BY DEF HashInv, Add, InsertInv, NoInsert
<1>2. insert.key \in Keys /\ insert.value \in Queues
  BY <1>1 DEF InsertInv, NoInsert
<1>3. \A key : ~Has(left, key) /\ ~Has(left', key)
  BY <1>1 DEF Has
<1>4. InsertInv'
  BY <1>1, <1>3 DEF InsertInv, NoInsert, Truthful
<1>5. CASE UNCHANGED <<hash, put>>
  <2>1. TableInv' /\ Known' = Known
    BY <1>1, <1>5 DEF TableInv, Truthful, Known, Has
  <2> QED BY <1>1, <1>4, <1>5, <2>1 DEF HashInv
<1>6. CASE ~UNCHANGED <<hash, put>>
  <2> DEFINE e == Pair(insert.key, insert.value)
             S == NewChains(e)
  <2>1. /\ hash' = [Linked(hash, e) EXCEPT !.entries = @ + 1]
        /\ put' = [put EXCEPT ![insert.key] = insert.value]
    BY <1>6 DEF Add
  <2>2. e \in Pairs /\ e.key = insert.key /\ e.value = insert.value
    BY <1>2 DEF Pair, Pairs
  <2>3. ~Has(hash.table, e.key)
    BY <1>1, <1>2, <2>2, FoundOne DEF Add
  <2> HIDE DEF e
  <2>4. /\ hash.table_size \in Nat \ {0} /\ hash.prime_index \in Nat \ {0} /\ Proper(hash.table, hash.table_size)
        /\ hash.entries = Cardinality(Known) /\ Truthful(hash.table) /\ IsFiniteSet(Known)
        /\ hash = [table |-> hash.table, table_size |-> hash.table_size, entries |-> hash.entries,
                   prime_index |-> hash.prime_index]
    BY <1>1 DEF TableInv, HashInv
  <2>5. /\ Linked(hash, e) = [table |-> S, table_size |-> hash.table_size, entries |-> hash.entries,
                              prime_index |-> hash.prime_index]
        /\ Proper(S, hash.table_size)
        /\ \A key : Has(S, key) <=> (Has(hash.table, key) \/ key = e.key)
        /\ \A m \in DOMAIN S : \A j \in DOMAIN S[m] :
             S[m][j] = e \/ (m \in DOMAIN hash.table /\ \E k \in DOMAIN hash.table[m] : S[m][j] = hash.table[m][k])
    BY <2>2, <2>3, <2>4, LinkedTable
  <2> HIDE DEF S
  <2>6. hash' = [table |-> S, table_size |-> hash.table_size, entries |-> hash.entries + 1,
                 prime_index |-> hash.prime_index]
    BY <2>1, <2>5
  <2>7. hash'.table = S /\ hash'.table_size = hash.table_size /\ hash'.entries = hash.entries + 1
        /\ hash'.prime_index = hash.prime_index /\ hash' # NoTable
    BY <2>4, <2>6 DEF NoTable
  <2>8. put \in [Keys -> Queues \cup {NoQueue}]
    BY DEF HashInv
  <2>9. /\ put' \in [Keys -> Queues \cup {NoQueue}]
        /\ put'[insert.key] = insert.value /\ \A key \in Keys : key # insert.key => put'[key] = put[key]
    BY <1>2, <2>1, <2>8
  <2>10. put[insert.key] = NoQueue /\ insert.value # NoQueue
    <3>1. put[insert.key] = NoQueue
      BY <1>1, <1>2, <1>3, <2>2, <2>3 DEF TableInv
    <3> QED BY <3>1, <1>2, HashAssumption DEF NoQueue
  <2>11. Known' = Known \cup {insert.key} /\ insert.key \notin Known
    BY <1>2, <2>9, <2>10 DEF Known
  <2>12. IsFiniteSet(Known') /\ Cardinality(Known') = Cardinality(Known) + 1
    BY <2>4, <2>11, FS_AddElement
  <2>13. \A n \in DOMAIN S : \A j \in DOMAIN S[n] : put'[S[n][j].key] = S[n][j].value
    <3>1. ASSUME NEW n \in DOMAIN hash.table, NEW k \in DOMAIN hash.table[n]
          PROVE  put'[hash.table[n][k].key] = hash.table[n][k].value
      <4>1. put[hash.table[n][k].key] = hash.table[n][k].value
        BY <2>4 DEF Truthful
      <4>2. hash.table[n] \in Seq(Pairs)
        BY <2>4 DEF Proper
      <4>3. hash.table[n][k] \in Pairs
        BY <4>2, ElementOfSeq
      <4>4. hash.table[n][k].key \in Keys /\ hash.table[n][k].key # insert.key
        BY <4>3, <2>2, <2>3 DEF Pairs, Has
      <4> QED BY <4>1, <4>4, <2>9
    <3>2. put'[e.key] = e.value
      BY <2>2, <2>9
    <3> QED BY <3>1, <3>2, <2>5
  <2>14. TableInv'
    <3>1. \A key \in Keys : Has(S, key) <=> put'[key] # NoQueue /\ ~Has(left', key)
      <4>1. \A key \in Keys : Has(hash.table, key) <=> put[key] # NoQueue
        BY <1>1, <1>3 DEF TableInv
      <4> QED BY <4>1, <1>3, <2>2, <2>5, <2>9, <2>10
    <3>2. Truthful(hash.table)'
      BY <2>7, <2>13 DEF Truthful
    <3>3. hash' = [table |-> hash'.table, table_size |-> hash'.table_size, entries |-> hash'.entries,
                   prime_index |-> hash'.prime_index]
      BY <2>6, <2>7
    <3>4. hash'.entries = Cardinality(Known')
      BY <2>4, <2>7, <2>12
    <3> QED BY <3>1, <3>2, <3>3, <3>4, <2>4, <2>5, <2>7 DEF TableInv
  <2> QED BY <1>4, <2>7, <2>9, <2>12, <2>14 DEF HashInv
<1> QED BY <1>5, <1>6

(* Whatever is put, replaced and moved to a larger table, and wherever     *)
(* memory runs out (core/ngx_hash.c:60-179): a lookup finds what was last  *)
(* put for a key, and nothing for any other.                               *)
THEOREM ChannelsStayFound == HashSpec => []ChannelsAreFound
<1>1. HashInv => ChannelsAreFound
  <2> SUFFICES ASSUME HashInv, hash # NoTable, insert.at # "moving" PROVE ChannelsAreFound
    BY DEF ChannelsAreFound
  <2>1. TableInv /\ InsertInv /\ left = <<>>
    BY DEF HashInv, InsertInv
  <2>2. \A key \in Keys : Lookup(hash, key) = put[key]
    <3>1. ASSUME NEW key \in Keys PROVE Lookup(hash, key) = put[key]
      <4>1. ~Has(left, key)
        BY <2>1 DEF Has
      <4>2. Has(hash.table, key) <=> put[key] # NoQueue
        BY <2>1, <4>1 DEF TableInv
      <4> QED BY <2>1, <4>2, FoundOne DEF Lookup
    <3> QED BY <3>1
  <2>3. hash.entries = Cardinality({key \in Keys : put[key] # NoQueue})
    BY <2>1 DEF TableInv, Known
  <2>4. DOMAIN hash.table = 0 .. hash.table_size - 1
    BY <2>1 DEF TableInv, Proper
  <2> QED BY <2>2, <2>3, <2>4 DEF ChannelsAreFound
<1>2. HashInv /\ [HashNext]_hashVars => HashInv'
  <2> SUFFICES ASSUME HashInv, [HashNext]_hashVars PROVE HashInv'
    OBVIOUS
  <2>1. CASE UNCHANGED hashVars
    BY <2>1 DEF hashVars, HashInv, TableInv, InsertInv, Known, Truthful, Has
  <2>2. CASE \E key \in Keys, value \in Queues : HashInsert(key, value)
    BY <2>2, HashInsertInv
  <2> QED BY <2>1, <2>2, NewTableInv, EnlargeInv, MoveInv, MovedInv, RenewInv, AddInv DEF HashNext
<1> QED BY <1>1, <1>2, InitInv, PTL DEF HashSpec
===============================================================================
