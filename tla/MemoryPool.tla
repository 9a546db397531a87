------------------------------ MODULE MemoryPool ------------------------------
(***************************************************************************)
(* A memory pool (core/ngx_palloc.c) with a list (core/ngx_list.c) and an  *)
(* array (core/ngx_array.c) in it.  Sizes and offsets are the bytes of     *)
(* x86-64.  malloc() may fail at any call.                                 *)
(*                                                                         *)
(* What one call does to the pool is a set of outcomes, so that calls that *)
(* allocate twice are the composition of two.                              *)
(*                                                                         *)
(* An allocation may come to lie behind the end of its block (Fits).  It   *)
(* keeps its offset from the block's begin; what of other memory its bytes *)
(* then overwrite is left out.                                             *)
(***************************************************************************)
EXTENDS Integers, Sequences, FiniteSets

CONSTANTS
  Size,        \* bytes of a block: what ngx_create_pool() is given
  Sizes,       \* what the program asks for
  Patience,    \* 4: the failures after which a block is no longer tried
  ListN,       \* list->nalloc
  EltSize,     \* bytes of an element of the list and of the array
  MaxBlocks,   \* bound: blocks the system has memory for
  MaxLarge,    \* bound: large allocations the system has memory for
  MaxPieces    \* bound: allocations in the blocks

Alignment == 8      \* NGX_ALIGNMENT
PoolHead  == 64     \* sizeof(ngx_pool_t)
DataHead  == 32     \* sizeof(ngx_pool_data_t)
LargeHead == 16     \* sizeof(ngx_pool_large_t)
PartHead  == 24     \* sizeof(ngx_list_part_t)
ArrayHead == 40     \* sizeof(ngx_array_t)
MaxAlloc  == 4096   \* NGX_MAX_ALLOC_FROM_POOL

(* A block has room for the entry of a large allocation.  Its size is not  *)
(* always a multiple of the alignment: that of a request is 2018.          *)
ASSUME PoolAssumption ==
  /\ Size \in Nat /\ Size >= PoolHead + LargeHead
  /\ Sizes \subseteq Nat \ {0}
  /\ Patience \in Nat /\ ListN \in Nat \ {0} /\ EltSize \in Nat \ {0}
  /\ MaxBlocks \in Nat \ {0} /\ MaxLarge \in Nat /\ MaxPieces \in Nat

VARIABLES
  pool,   \* the pool
  list,   \* a list in it
  array   \* an array in it

poolVars == <<pool, list, array>>

NULL == [block |-> 0, at |-> 0, size |-> 0]
Piece(b, at, size) == [block |-> b, at |-> at, size |-> size]

(* A large allocation is its own block, numbered below 0.                  *)
IsLarge(m) == m.block < 0

NoList  == [parts |-> <<>>]
NoArray == [head |-> NULL, elts |-> NULL, nelts |-> 0, nalloc |-> 0]

FreshBlock(last) == [last |-> last, failed |-> 0]

(* alive; blocks[1] is the pool itself, the others follow d.next; current  *)
(* is an index into them; large are the entries, newest first, each with   *)
(* its alloc or 0; heap is what malloc() gave and free() did not take;     *)
(* pieces are the allocations inside the blocks.                           *)
NoPool == [alive |-> FALSE, blocks |-> <<>>, current |-> 1, large |-> <<>>, heap |-> {}, pieces |-> <<>>]
NewPool == [NoPool EXCEPT !.alive = TRUE, !.blocks = <<FreshBlock(PoolHead)>>, !.heap = {1}]

PoolInit == pool = NoPool /\ list = NoList /\ array = NoArray

-------------------------------------------------------------------------------
(* Allocation: from a pool to the pools it may become, and the address.    *)

Outcome(P, mem) == [pool |-> P, mem |-> mem]

MaxSmall == IF Size - PoolHead < MaxAlloc THEN Size - PoolHead ELSE MaxAlloc   \* pool->max

Align(m) == m + ((Alignment - (m % Alignment)) % Alignment)
Start(last, aligned) == IF aligned THEN Align(last) ELSE last

(* (size_t) (end - m) >= size: a difference below 0 wraps, and there is    *)
(* room for anything.                                                      *)
Fits(m, size) == m > Size \/ Size - m >= size

Serial == 1 .. MaxPieces
Unused(P) == Serial \ DOMAIN P.pieces
Added(P, m) == LET new == CHOOSE s \in Unused(P) : TRUE
               IN [s \in DOMAIN P.pieces \cup {new} |-> IF s = new THEN m ELSE P.pieces[s]]

(* A new block, at the end of the chain.  The blocks from current on but   *)
(* the last have failed once more; current moves behind those that have    *)
(* failed more often than Patience.                                        *)
Tried(P) == P.current .. Len(P.blocks) - 1
GivenUp(P) == {b \in Tried(P) : P.blocks[b].failed > Patience}

Failed(P) == [b \in 1 .. Len(P.blocks) |-> [P.blocks[b] EXCEPT !.failed = IF b \in Tried(P) THEN @ + 1 ELSE @]]
Current(P) == IF GivenUp(P) = {} THEN P.current
              ELSE 1 + (CHOOSE b \in GivenUp(P) : \A c \in GivenUp(P) : c <= b)

Chained(P, m) == [P EXCEPT !.blocks = Append(Failed(P), FreshBlock(m.at + m.size)),
                           !.current = Current(P), !.heap = @ \cup {m.block}, !.pieces = Added(P, m)]

Block(P, size) ==
  LET m == Piece(Len(P.blocks) + 1, Align(DataHead), size)
  IN {Outcome(P, NULL)} \cup (IF m.block <= MaxBlocks THEN {Outcome(Chained(P, m), m)} ELSE {})

(* Mutant: the room is tested before the address is aligned.               *)
Small_TestsFirst(P, size, aligned) ==
  LET room == {b \in P.current .. Len(P.blocks) : Fits(P.blocks[b].last, size)}
      first == CHOOSE b \in room : \A c \in room : b <= c
      m == Start(P.blocks[first].last, aligned)
  IN IF Unused(P) = {} THEN {}
     ELSE IF room = {} THEN Block(P, size)
     ELSE {Outcome([P EXCEPT !.blocks[first].last = m + size, !.pieces = Added(P, Piece(first, m, size))],
                   Piece(first, m, size))}

(* The first block from current on with room, or a new one.                *)
Small(P, size, aligned) ==
  LET room == {b \in P.current .. Len(P.blocks) : Fits(Start(P.blocks[b].last, aligned), size)}
      first == CHOOSE b \in room : \A c \in room : b <= c
      m == Start(P.blocks[first].last, aligned)
  IN IF Unused(P) = {} THEN {}
     ELSE IF room = {} THEN Block(P, size)
     ELSE {Outcome([P EXCEPT !.blocks[first].last = m + size, !.pieces = Added(P, Piece(first, m, size))],
                   Piece(first, m, size))}

Free(P) == (-MaxLarge .. -1) \ P.heap

(* Mutant: the memory is not given back when there is none for the entry.  *)
Large_Leaks(P, size) ==
  {Outcome(P, NULL)} \cup
  UNION {{IF o.mem = NULL THEN o
          ELSE Outcome([o.pool EXCEPT !.large = <<[alloc |-> n, entry |-> o.mem]>> \o @], Piece(n, 0, size))
          : o \in Small([P EXCEPT !.heap = @ \cup {n}], LargeHead, TRUE)} : n \in Free(P)}

(* malloc() first, then an entry for it from the blocks: no entry that was *)
(* freed is used again.                                                    *)
Large(P, size) ==
  {Outcome(P, NULL)} \cup
  UNION {{IF o.mem = NULL THEN Outcome([o.pool EXCEPT !.heap = @ \ {n}], NULL)
          ELSE Outcome([o.pool EXCEPT !.large = <<[alloc |-> n, entry |-> o.mem]>> \o @], Piece(n, 0, size))
          : o \in Small([P EXCEPT !.heap = @ \cup {n}], LargeHead, TRUE)} : n \in Free(P)}

(* ngx_palloc() and, not aligned, ngx_pnalloc().                           *)
Alloc(P, size, aligned) == IF size <= MaxSmall THEN Small(P, size, aligned) ELSE Large(P, size)

-------------------------------------------------------------------------------
(* The pool.                                                               *)

CreatePool ==
  /\ ~pool.alive /\ pool' = NewPool
  /\ UNCHANGED <<list, array>>

Palloc ==
  /\ pool.alive
  /\ \E size \in Sizes, aligned \in BOOLEAN : \E o \in Alloc(pool, size, aligned) : pool' = o.pool
  /\ UNCHANGED <<list, array>>

Owned == {array.head.block, array.elts.block}
           \cup {list.parts[j].elts.block : j \in DOMAIN list.parts}
           \cup {list.parts[j].head.block : j \in DOMAIN list.parts}

(* ngx_pfree() of a large allocation that the list and the array do not    *)
(* use; for another address it does nothing.                               *)
Pfree ==
  /\ pool.alive
  /\ \E j \in DOMAIN pool.large :
       /\ pool.large[j].alloc \notin Owned \cup {0}
       /\ pool' = [pool EXCEPT !.large[j].alloc = 0, !.heap = @ \ {pool.large[j].alloc}]
  /\ UNCHANGED <<list, array>>

Allocs(P) == {P.large[j].alloc : j \in DOMAIN P.large}

(* Mutant: the entries of the large allocations stay.                      *)
ResetPool_KeepsLarge ==
  /\ pool.alive
  /\ pool' = [pool EXCEPT !.heap = @ \ Allocs(pool), !.pieces = <<>>, !.current = 1,
                          !.blocks = [b \in DOMAIN @ |-> FreshBlock(PoolHead)]]
  /\ list' = NoList /\ array' = NoArray

(* All that was allocated is gone; every block begins behind a pool's head.*)
ResetPool ==
  /\ pool.alive
  /\ pool' = [pool EXCEPT !.heap = @ \ Allocs(pool), !.large = <<>>, !.pieces = <<>>, !.current = 1,
                          !.blocks = [b \in DOMAIN @ |-> FreshBlock(PoolHead)]]
  /\ list' = NoList /\ array' = NoArray

DestroyPool ==
  /\ pool.alive
  /\ pool' = [NoPool EXCEPT !.heap = pool.heap \ (Allocs(pool) \cup DOMAIN pool.blocks)]
  /\ list' = NoList /\ array' = NoArray

-------------------------------------------------------------------------------
(* The list.                                                               *)

ListInit ==
  /\ pool.alive /\ list = NoList
  /\ \E o \in Alloc(pool, ListN * EltSize, TRUE) :
       /\ pool' = o.pool
       /\ list' = IF o.mem = NULL THEN list ELSE [parts |-> <<[head |-> NULL, elts |-> o.mem, nelts |-> 0]>>]
  /\ UNCHANGED array

NewPart(head, elts) == [head |-> head, elts |-> elts, nelts |-> 1]

(* Mutant: a part takes one element more than it has memory for.           *)
ListPush_OneMore ==
  /\ list # NoList
  /\ LET n == Len(list.parts)
     IN IF list.parts[n].nelts <= ListN
        THEN list' = [list EXCEPT !.parts[n].nelts = @ + 1] /\ UNCHANGED pool
        ELSE \E o \in Alloc(pool, PartHead, TRUE) :
               IF o.mem = NULL THEN pool' = o.pool /\ UNCHANGED list
               ELSE \E e \in Alloc(o.pool, ListN * EltSize, TRUE) :
                      /\ pool' = e.pool
                      /\ list' = IF e.mem = NULL THEN list
                                 ELSE [list EXCEPT !.parts = Append(@, NewPart(o.mem, e.mem))]
  /\ UNCHANGED array

(* Mutant: the part is linked before it has memory for its elements.       *)
ListPush_LinksFirst ==
  /\ list # NoList
  /\ LET n == Len(list.parts)
     IN IF list.parts[n].nelts < ListN
        THEN list' = [list EXCEPT !.parts[n].nelts = @ + 1] /\ UNCHANGED pool
        ELSE \E o \in Alloc(pool, PartHead, TRUE) :
               IF o.mem = NULL THEN pool' = o.pool /\ UNCHANGED list
               ELSE \E e \in Alloc(o.pool, ListN * EltSize, TRUE) :
                      /\ pool' = e.pool
                      /\ list' = [list EXCEPT !.parts = Append(@, NewPart(o.mem, e.mem))]
  /\ UNCHANGED array

(* A part that is full is followed by a new one, for which there must be   *)
(* memory twice.                                                           *)
ListPush ==
  /\ list # NoList
  /\ LET n == Len(list.parts)
     IN IF list.parts[n].nelts < ListN
        THEN list' = [list EXCEPT !.parts[n].nelts = @ + 1] /\ UNCHANGED pool
        ELSE \E o \in Alloc(pool, PartHead, TRUE) :
               IF o.mem = NULL THEN pool' = o.pool /\ UNCHANGED list
               ELSE \E e \in Alloc(o.pool, ListN * EltSize, TRUE) :
                      /\ pool' = e.pool
                      /\ list' = IF e.mem = NULL THEN list
                                 ELSE [list EXCEPT !.parts = Append(@, NewPart(o.mem, e.mem))]
  /\ UNCHANGED array

-------------------------------------------------------------------------------
(* The array.                                                              *)

ArrayCreate ==
  /\ pool.alive /\ array = NoArray
  /\ \E o \in Alloc(pool, ArrayHead, TRUE) :
       IF o.mem = NULL THEN pool' = o.pool /\ UNCHANGED array
       ELSE \E e \in Alloc(o.pool, EltSize, TRUE) :
              /\ pool' = e.pool
              /\ array' = IF e.mem = NULL THEN array
                          ELSE [head |-> o.mem, elts |-> e.mem, nelts |-> 0, nalloc |-> 1]
  /\ UNCHANGED list

(* The memory of m ends where the first block is filled to.                *)
EndsPool(P, m, size) == m.block = 1 /\ m.at + size = P.blocks[1].last

Resized(P, m, size) ==
  [P EXCEPT !.blocks[1].last = @ + size - m.size,
            !.pieces = [s \in DOMAIN @ |-> IF @[s] = m THEN [m EXCEPT !.size = size] ELSE @[s]]]

Larger(a, b) == IF a >= b THEN a ELSE b

(* Mutant: the array grows in place wherever it is in the first block.     *)
ArrayPush_InPlace(n) ==
  /\ array # NoArray
  /\ IF array.nelts + n <= array.nalloc
     THEN array' = [array EXCEPT !.nelts = @ + n] /\ UNCHANGED pool
     ELSE LET grown == (array.nalloc + n) * EltSize
          IN /\ array.elts.block = 1 /\ pool.blocks[1].last + n * EltSize <= Size
             /\ pool' = Resized(pool, array.elts, grown)
             /\ array' = [array EXCEPT !.elts.size = grown, !.nalloc = @ + n, !.nelts = @ + n]
  /\ UNCHANGED list

(* ngx_array_push_n(), and ngx_array_push() for n = 1: in place if the     *)
(* array is the last in the first block, else in new memory of twice the   *)
(* size.                                                                   *)
ArrayPush(n) ==
  /\ array # NoArray
  /\ IF array.nelts + n <= array.nalloc
     THEN array' = [array EXCEPT !.nelts = @ + n] /\ UNCHANGED pool
     ELSE LET grown == (array.nalloc + n) * EltSize
          IN IF EndsPool(pool, array.elts, array.nalloc * EltSize) /\ pool.blocks[1].last + n * EltSize <= Size
             THEN /\ pool' = Resized(pool, array.elts, grown)
                  /\ array' = [array EXCEPT !.elts.size = grown, !.nalloc = @ + n, !.nelts = @ + n]
             ELSE LET twice == 2 * Larger(n, array.nalloc)
                  IN \E o \in Alloc(pool, twice * EltSize, TRUE) :
                       /\ pool' = o.pool
                       /\ array' = IF o.mem = NULL THEN array
                                   ELSE [array EXCEPT !.elts = o.mem, !.nalloc = twice, !.nelts = @ + n]
  /\ UNCHANGED list

Returned(P, m, size) ==
  IF EndsPool(P, m, size)
  THEN [P EXCEPT !.blocks[1].last = @ - size,
                 !.pieces = [s \in {s \in DOMAIN @ : @[s] # m} |-> @[s]]]
  ELSE P

(* The elements and then the array itself go back, if they are the last.   *)
ArrayDestroy ==
  /\ array # NoArray
  /\ pool' = Returned(Returned(pool, array.elts, array.nalloc * EltSize), array.head, ArrayHead)
  /\ array' = NoArray
  /\ UNCHANGED list

-------------------------------------------------------------------------------
PoolNext ==
  \/ CreatePool \/ Palloc \/ Pfree \/ ResetPool \/ DestroyPool
  \/ ListInit \/ ListPush
  \/ ArrayCreate \/ (\E n \in 1 .. 2 : ArrayPush(n)) \/ ArrayDestroy

PoolSpec == PoolInit /\ [][PoolNext]_poolVars

-------------------------------------------------------------------------------
(* Properties.                                                             *)

PieceType == [block : 1 .. MaxBlocks, at : Nat, size : Nat]
MemType   == PieceType \cup [block : -MaxLarge .. -1, at : {0}, size : Nat] \cup {NULL}

(* Every variable has its type, current is a block of the chain.           *)
PoolTypeOK ==
  /\ pool.alive \in BOOLEAN
  /\ pool.blocks \in Seq([last : Nat, failed : Nat]) /\ Len(pool.blocks) <= MaxBlocks
  /\ pool.alive => pool.current \in DOMAIN pool.blocks
  /\ pool.large \in Seq([alloc : -MaxLarge .. 0, entry : PieceType])
  /\ pool.heap \subseteq (-MaxLarge .. MaxBlocks) \ {0}
  /\ DOMAIN pool.pieces \subseteq Serial
  /\ \A s \in DOMAIN pool.pieces : pool.pieces[s] \in PieceType
  /\ list.parts \in Seq([head : MemType, elts : MemType, nelts : 0 .. ListN])
  /\ array \in [head : MemType, elts : MemType, nelts : Nat, nalloc : Nat]

InBlock(m) == m.at + m.size <= Size
Behind(m)  == Size % Alignment # 0 /\ m.at > Size

Apart(a, b) == a.block # b.block \/ a.at + a.size <= b.at \/ b.at + b.size <= a.at

(* What was allocated, for the program or for the pool's own entries, lies *)
(* behind its block's head and before the next free byte, and overlaps     *)
(* nothing else that was allocated; an array that grows included.  It lies *)
(* in its block: only a block that does not end on the alignment may have  *)
(* allocations behind its end, and then they are behind it as a whole.     *)
AllocationsAreApart ==
  LET piece == pool.pieces
  IN /\ \A s \in DOMAIN piece : /\ piece[s].block \in DOMAIN pool.blocks
                                /\ piece[s].at >= (IF piece[s].block = 1 THEN PoolHead ELSE DataHead)
                                /\ piece[s].at + piece[s].size <= pool.blocks[piece[s].block].last
                                /\ InBlock(piece[s]) \/ Behind(piece[s])
     /\ \A s, t \in DOMAIN piece : s # t => Apart(piece[s], piece[t])

(* What malloc() has given is a block of the chain or has one entry, and   *)
(* nothing is left of it when the pool is destroyed: whichever allocation  *)
(* failed, nothing leaks and nothing is freed twice.                       *)
MemoryIsAccounted ==
  /\ pool.heap = DOMAIN pool.blocks \cup (Allocs(pool) \ {0})
  /\ \A i, j \in DOMAIN pool.large : pool.large[i].alloc = pool.large[j].alloc /\ i # j => pool.large[i].alloc = 0

IsAllocated(m, size) ==
  /\ m.size >= size
  /\ IF IsLarge(m) THEN m.block \in pool.heap ELSE \E s \in DOMAIN pool.pieces : pool.pieces[s] = m

(* Every part of the list but the last is full, every part and the array   *)
(* have memory for what they may hold, after any sequence of pushes and    *)
(* failed allocations.                                                     *)
ContainersAreWhole ==
  /\ \A j \in DOMAIN list.parts :
       LET part == list.parts[j]
       IN /\ j < Len(list.parts) => part.nelts = ListN
          /\ IsAllocated(part.elts, ListN * EltSize)
          /\ j > 1 => IsAllocated(part.head, PartHead)
  /\ array # NoArray =>
       /\ array.nelts <= array.nalloc
       /\ IsAllocated(array.elts, array.nalloc * EltSize) /\ IsAllocated(array.head, ArrayHead)
===============================================================================
