------------------------------- MODULE HashTable ------------------------------
(***************************************************************************)
(* The table of the channels of a worker (core/ngx_hash.c, with the hash   *)
(* and the comparison of http/ngx_websocket.c).  calloc() and malloc() may *)
(* fail at any call.                                                       *)
(***************************************************************************)
EXTENDS Integers, Sequences, FiniteSets

CONSTANTS
  Keys,     \* channel ids
  Queues,   \* what is kept for them
  Primes    \* hash_table_primes

ASSUME HashAssumption ==
  /\ Keys \subseteq Nat /\ Keys # {}
  /\ Primes \in Seq(Nat \ {0}) /\ Primes # <<>>
  /\ "null" \notin Queues      \* no queue is NULL

VARIABLES
  hash,    \* the hash table
  left,    \* the chains of the old table that are not moved yet
  insert,  \* the call of ngx_hash_table_insert() under way
  put      \* history: what was put for a key, and the call did not fail

hashVars == <<hash, left, insert, put>>

NoQueue == "null"      \* ngx_hash_table_null

TableSize(index, entries) == IF index <= Len(Primes) THEN Primes[index] ELSE entries * 10

(* table is NULL, or the chains; prime_index counts from 1.                *)
NoTable == [table |-> <<>>, table_size |-> 0, entries |-> 0, prime_index |-> 0]
EmptyChains(size) == [n \in 0 .. size - 1 |-> <<>>]
NoInsert == [at |-> "none"]

HashInit == hash = NoTable /\ left = <<>> /\ insert = NoInsert /\ put = [k \in Keys |-> NoQueue]

(* ngx_hash_table_new(): both allocations succeed, or there is no worker.  *)
NewTable ==
  /\ hash = NoTable
  /\ hash' = [table |-> EmptyChains(TableSize(1, 0)), table_size |-> TableSize(1, 0), entries |-> 0, prime_index |-> 1]
  /\ UNCHANGED <<left, insert, put>>

Pair(key, value) == [key |-> key, value |-> value]
Index(H, key) == key % H.table_size
Chain(H, key) == H.table[Index(H, key)]
Found(H, key) == {j \in DOMAIN Chain(H, key) : Chain(H, key)[j].key = key}
FirstFound(H, key) == CHOOSE j \in Found(H, key) : \A k \in Found(H, key) : j <= k

(* A pair becomes the head of its chain.                                   *)
Linked(H, pair) == [H EXCEPT !.table[Index(H, pair.key)] = <<pair>> \o @]

(* ngx_hash_table_insert().  From a third of its size on the table is      *)
(* enlarged first, for a key that is there too.                            *)
HashInsert(key, value) ==
  /\ hash # NoTable /\ insert = NoInsert
  /\ insert' = [at    |-> IF (hash.entries * 3) \div hash.table_size > 0 THEN "enlarge" ELSE "place",
                key   |-> key, value |-> value]
  /\ UNCHANGED <<hash, left, put>>

(* Mutant: a failure leaves the new size behind.                           *)
Enlarge_KeepsSize ==
  /\ insert.at = "enlarge"
  /\ LET size == TableSize(hash.prime_index + 1, hash.entries)
     IN \/ /\ hash' = [hash EXCEPT !.table = EmptyChains(size), !.table_size = size, !.prime_index = @ + 1]
           /\ left' = hash.table
           /\ insert' = [insert EXCEPT !.at = "moving"]
        \/ hash' = [hash EXCEPT !.table_size = size] /\ insert' = NoInsert /\ UNCHANGED left
  /\ UNCHANGED put

(* ngx_hash_table_enlarge() allocates the chains, or puts back what it has *)
(* set and the insertion fails.                                            *)
Enlarge ==
  /\ insert.at = "enlarge"
  /\ \/ LET size == TableSize(hash.prime_index + 1, hash.entries)
        IN /\ hash' = [hash EXCEPT !.table = EmptyChains(size), !.table_size = size, !.prime_index = @ + 1]
           /\ left' = hash.table
           /\ insert' = [insert EXCEPT !.at = "moving"]
     \/ insert' = NoInsert /\ UNCHANGED <<hash, left>>
  /\ UNCHANGED put

(* The first entry of the first chain that is left moves to its new chain. *)
Move ==
  /\ insert.at = "moving"
  /\ \E n \in DOMAIN left :
       /\ left[n] # <<>> /\ \A k \in DOMAIN left : k < n => left[k] = <<>>
       /\ hash' = Linked(hash, Head(left[n]))
       /\ left' = [left EXCEPT ![n] = Tail(@)]
  /\ UNCHANGED <<insert, put>>

(* None is left: the old chains are given back.                            *)
Moved ==
  /\ insert.at = "moving" /\ \A n \in DOMAIN left : left[n] = <<>>
  /\ left' = <<>> /\ insert' = [insert EXCEPT !.at = "place"]
  /\ UNCHANGED <<hash, put>>

(* The key is there and gets its new value.                                *)
Renew ==
  /\ insert.at = "place" /\ Found(hash, insert.key) # {}
  /\ hash' = [hash EXCEPT !.table[Index(hash, insert.key)][FirstFound(hash, insert.key)] = Pair(insert.key, insert.value)]
  /\ put' = [put EXCEPT ![insert.key] = insert.value]
  /\ insert' = NoInsert /\ UNCHANGED left

(* It is not: a new entry, if there is memory for it.                      *)
Add ==
  /\ insert.at = "place" /\ Found(hash, insert.key) = {}
  /\ \/ /\ hash' = [Linked(hash, Pair(insert.key, insert.value)) EXCEPT !.entries = @ + 1]
        /\ put' = [put EXCEPT ![insert.key] = insert.value]
     \/ UNCHANGED <<hash, put>>
  /\ insert' = NoInsert /\ UNCHANGED left

(* ngx_hash_table_lookup(): the first of the chain.                        *)
Lookup(H, key) == IF Found(H, key) = {} THEN NoQueue ELSE Chain(H, key)[FirstFound(H, key)].value

HashNext ==
  \/ NewTable \/ Enlarge \/ Move \/ Moved \/ Renew \/ Add
  \/ \E key \in Keys, value \in Queues : HashInsert(key, value)

HashSpec == HashInit /\ [][HashNext]_hashVars

(* Whatever was inserted, replaced and moved to a larger table, and        *)
(* wherever memory ran out, every channel is found with the queue last put *)
(* for it, and no other is: a client that joined cannot miss its messages. *)
(* Only while entries are moved can one not be found.                      *)
ChannelsAreFound ==
  hash # NoTable /\ insert.at # "moving" =>
    /\ DOMAIN hash.table = 0 .. hash.table_size - 1
    /\ \A key \in Keys : Lookup(hash, key) = put[key]
    /\ hash.entries = Cardinality({key \in Keys : put[key] # NoQueue})
===============================================================================
