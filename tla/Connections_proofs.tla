-------------------------- MODULE Connections_proofs --------------------------
(***************************************************************************)
(* Proofs about Connections for every number of slots, clients and         *)
(* messages: the pool and the queues; then what the clients are sent, in   *)
(* which order, and that bytes which wait in a socket are announced.       *)
(***************************************************************************)
EXTENDS Connections, TLAPS

-------------------------------------------------------------------------------
(* The sequences the pool and the queues are made of.                      *)

LEMMA PushedFront ==
  ASSUME NEW S, NEW q \in Seq(S), NEW x \in S
  PROVE  /\ <<x>> \o q \in Seq(S)
         /\ ToSet(<<x>> \o q) = ToSet(q) \cup {x}
         /\ IsInjective(q) /\ x \notin ToSet(q) => IsInjective(<<x>> \o q)
<1> DEFINE r == <<x>> \o q
<1>1. /\ r \in Seq(S) /\ Len(r) = Len(q) + 1 /\ r[1] = x
      /\ \A i \in 1 .. Len(q) : r[i + 1] = q[i]
  OBVIOUS
<1> HIDE DEF r
<1>2. \A j \in 1 .. Len(r) : j # 1 => j - 1 \in 1 .. Len(q) /\ r[j] = q[j - 1]
  <2> TAKE j \in 1 .. Len(r)
  <2> HAVE j # 1
  <2>1. j - 1 \in 1 .. Len(q) /\ (j - 1) + 1 = j
    BY <1>1
  <2> QED BY <2>1, <1>1
<1>3. ToSet(r) = ToSet(q) \cup {x}
  <2>1. ASSUME NEW y \in ToSet(r) PROVE y \in ToSet(q) \cup {x}
    BY <2>1, <1>1, <1>2 DEF ToSet
  <2>2. ASSUME NEW y \in ToSet(q) PROVE y \in ToSet(r)
    <3>1. PICK i \in 1 .. Len(q) : y = q[i]
      BY DEF ToSet
    <3>2. i + 1 \in 1 .. Len(r) /\ r[i + 1] = y
      BY <3>1, <1>1
    <3> QED BY <3>2, <1>1 DEF ToSet
  <2>3. x \in ToSet(r)
    <3>1. 1 \in 1 .. Len(r)
      BY <1>1
    <3> QED BY <3>1, <1>1 DEF ToSet
  <2> QED BY <2>1, <2>2, <2>3
<1>4. ASSUME IsInjective(q), x \notin ToSet(q) PROVE IsInjective(r)
  <2>1. \A i \in 1 .. Len(q) : q[i] # x
    BY <1>4 DEF ToSet
  <2> QED BY <2>1, <1>1, <1>2, <1>4, SMTT(30) DEF IsInjective
<1> QED BY <1>1, <1>3, <1>4 DEF r

LEMMA PushedBack ==
  ASSUME NEW S, NEW q \in Seq(S), NEW x \in S
  PROVE  /\ Append(q, x) \in Seq(S)
         /\ ToSet(Append(q, x)) = ToSet(q) \cup {x}
         /\ IsInjective(q) /\ x \notin ToSet(q) => IsInjective(Append(q, x))
<1> DEFINE r == Append(q, x)
<1>1. /\ r \in Seq(S) /\ Len(r) = Len(q) + 1 /\ r[Len(q) + 1] = x
      /\ \A i \in 1 .. Len(q) : r[i] = q[i]
  OBVIOUS
<1> HIDE DEF r
<1>2. 1 .. Len(r) = (1 .. Len(q)) \cup {Len(q) + 1}
  BY <1>1
<1>3. ToSet(r) = ToSet(q) \cup {x}
  BY <1>1, <1>2 DEF ToSet
<1>4. ASSUME IsInjective(q), x \notin ToSet(q) PROVE IsInjective(r)
  <2>1. \A i \in 1 .. Len(q) : q[i] # x
    BY <1>4 DEF ToSet
  <2> QED BY <2>1, <1>1, <1>2, <1>4 DEF IsInjective
<1> QED BY <1>1, <1>3, <1>4 DEF r

LEMMA PoppedFront ==
  ASSUME NEW S, NEW q \in Seq(S), q # <<>>
  PROVE  /\ Head(q) \in S /\ Tail(q) \in Seq(S)
         /\ ToSet(q) = ToSet(Tail(q)) \cup {Head(q)}
         /\ IsInjective(q) => IsInjective(Tail(q)) /\ Head(q) \notin ToSet(Tail(q))
<1> DEFINE r == Tail(q)
<1>1. /\ Len(q) \in Nat \ {0} /\ r \in Seq(S) /\ Len(r) = Len(q) - 1
      /\ Head(q) = q[1] /\ q[1] \in S
      /\ \A i \in 1 .. Len(r) : r[i] = q[i + 1]
  OBVIOUS
<1> HIDE DEF r
<1>2. \A j \in 1 .. Len(q) : j # 1 => j - 1 \in 1 .. Len(r) /\ r[j - 1] = q[j]
  <2> TAKE j \in 1 .. Len(q)
  <2> HAVE j # 1
  <2>1. j - 1 \in 1 .. Len(r) /\ (j - 1) + 1 = j
    BY <1>1
  <2> QED BY <2>1, <1>1
<1>3. ToSet(q) = ToSet(r) \cup {q[1]}
  <2>1. ASSUME NEW y \in ToSet(q) PROVE y \in ToSet(r) \cup {q[1]}
    <3>0. DOMAIN q = 1 .. Len(q) /\ DOMAIN r = 1 .. Len(r)
      BY <1>1
    <3>1. PICK j \in DOMAIN q : y = q[j]
      BY <2>1 DEF ToSet
    <3> QED BY <3>0, <3>1, <1>1, <1>2 DEF ToSet
  <2>2. ASSUME NEW y \in ToSet(r) PROVE y \in ToSet(q)
    <3>1. PICK i \in 1 .. Len(r) : y = r[i]
      BY DEF ToSet
    <3>2. i + 1 \in 1 .. Len(q) /\ q[i + 1] = y
      BY <3>1, <1>1
    <3> QED BY <3>2 DEF ToSet
  <2>3. q[1] \in ToSet(q)
    <3>1. 1 \in 1 .. Len(q)
      BY <1>1
    <3> QED BY <3>1 DEF ToSet
  <2> QED BY <2>1, <2>2, <2>3
<1>4. ASSUME IsInjective(q) PROVE IsInjective(r) /\ q[1] \notin ToSet(r)
  <2>1. \A i, j \in 1 .. Len(q) : q[i] = q[j] => i = j
    BY <1>4 DEF IsInjective
  <2>2. \A i \in 1 .. Len(r) : i + 1 \in 1 .. Len(q) /\ 1 \in 1 .. Len(q)
    BY <1>1
  <2>3. \A i \in 1 .. Len(r) : r[i] # q[1]
    BY <1>1, <2>1, <2>2
  <2>4. \A i, j \in 1 .. Len(r) : r[i] = r[j] => i = j
    BY <1>1, <2>1, <2>2
  <2> QED BY <2>3, <2>4, <1>1 DEF IsInjective, ToSet
<1> QED BY <1>1, <1>3, <1>4 DEF r

(* ngx_queue_remove: the others stay, each once.                           *)
LEMMA Unlinked ==
  ASSUME NEW S, NEW q \in Seq(S), IsInjective(q), NEW x \in ToSet(q)
  PROVE  /\ Unlink(q, x) \in Seq(S)
         /\ IsInjective(Unlink(q, x))
         /\ ToSet(Unlink(q, x)) = ToSet(q) \ {x}
<1> DEFINE n == CHOOSE i \in DOMAIN q : q[i] = x
           a == SubSeq(q, 1, n - 1)
           b == SubSeq(q, n + 1, Len(q))
           r == a \o b
<1>1. n \in 1 .. Len(q) /\ q[n] = x
  BY DEF ToSet
<1>2. Unlink(q, x) = r
  BY DEF Unlink, RemoveAt
<1> HIDE DEF n
<1>a. a \in Seq(S) /\ Len(a) = n - 1 /\ \A i \in 1 .. n - 1 : a[i] = q[i]
  BY <1>1
<1>b. b \in Seq(S) /\ Len(b) = Len(q) - n /\ \A i \in 1 .. Len(q) - n : b[i] = q[n + i]
  BY <1>1
<1> HIDE DEF a, b
<1>c. /\ r \in Seq(S) /\ Len(r) = Len(q) - 1
      /\ \A i \in 1 .. Len(q) - 1 : r[i] = IF i < n THEN a[i] ELSE b[i - (n - 1)]
  BY <1>1, <1>a, <1>b
<1> HIDE DEF r
<1>3. \A i \in 1 .. Len(q) - 1 : r[i] = IF i < n THEN q[i] ELSE q[i + 1]
  <2> TAKE i \in 1 .. Len(q) - 1
  <2>1. CASE i < n
    BY <2>1, <1>1, <1>a, <1>c
  <2>2. CASE i >= n
    <3>1. i - (n - 1) \in 1 .. Len(q) - n /\ n + (i - (n - 1)) = i + 1
      BY <2>2, <1>1
    <3>2. b[i - (n - 1)] = q[n + (i - (n - 1))]
      BY <3>1, <1>b
    <3> QED BY <3>1, <3>2, <2>2, <1>1, <1>c
  <2> QED BY <2>1, <2>2, <1>1
<1>4. \A i, j \in 1 .. Len(q) : q[i] = q[j] => i = j
  BY DEF IsInjective
<1>5. IsInjective(r)
  BY <1>1, <1>c, <1>3, <1>4 DEF IsInjective
<1>6. ASSUME NEW y \in ToSet(q) \ {x} PROVE y \in ToSet(r)
  <2>1. PICK i \in 1 .. Len(q) : y = q[i] /\ i # n
    BY <1>1 DEF ToSet
  <2>2. CASE i < n
    <3>1. i \in 1 .. Len(q) - 1 /\ r[i] = q[i]
      BY <1>1, <1>3, <2>2
    <3> QED BY <3>1, <2>1, <1>c DEF ToSet
  <2>3. CASE i > n
    <3>1. i - 1 \in 1 .. Len(q) - 1 /\ r[i - 1] = q[i]
      BY <1>1, <1>3, <2>3
    <3> QED BY <3>1, <2>1, <1>c DEF ToSet
  <2> QED BY <2>1, <2>2, <2>3, <1>1
<1>7. ASSUME NEW y \in ToSet(r) PROVE y \in ToSet(q) \ {x}
  <2>1. PICK j \in 1 .. Len(q) - 1 : y = r[j]
    BY <1>c DEF ToSet
  <2>2. CASE j < n
    <3>1. j \in 1 .. Len(q) /\ j # n /\ y = q[j]
      BY <1>1, <1>3, <2>1, <2>2
    <3> QED BY <3>1, <1>1, <1>4 DEF ToSet
  <2>3. CASE j >= n
    <3>1. j + 1 \in 1 .. Len(q) /\ j + 1 # n /\ y = q[j + 1]
      BY <1>1, <1>3, <2>1, <2>3
    <3> QED BY <3>1, <1>1, <1>4 DEF ToSet
  <2> QED BY <2>2, <2>3, <1>1
<1> QED BY <1>2, <1>c, <1>5, <1>6, <1>7
-------------------------------------------------------------------------------
(* The inductive invariant.                                                *)

(* Only open connections are in epoll.                                     *)
Announced == \A k \in Client : k \in ready_list \/ interest[k] # {} => peer[k].at = "open"

(* The queue of reusable connections.                                      *)
Linked ==
  /\ IsInjective(reusable_queue)
  /\ \A s \in Slot : /\ s \in ToSet(reusable_queue) <=> connections[s].reusable
                     /\ connections[s].reusable => connections[s].fd # None

(* The queue of the channel.                                               *)
Queued ==
  /\ IsInjective(channel_queue)
  /\ \A s \in Slot :
       LET c == connections[s]
       IN /\ s \in ToSet(channel_queue) <=> c.in_queue
          /\ c.in_queue => c.fd # None /\ c.data = "wc" /\ c.wh = "message" /\ c.rh = "frame"
          /\ c.rh \in Reading => c.wh = "empty"

(* What the worker is at exists and is of the kind it takes it for.        *)
InHand ==
  /\ pc \in {"read", "write"} => connections[cur].fd # None
  /\ pc = "read" => connections[cur].rh \in Reading
  /\ pc = "write" => connections[cur].wh \in {"empty", "request"}
  /\ pc = "write_half" \/ (pc \in {"read", "write"} /\ ret = "write_half") => event.slot = cur
  /\ pc \in {"drain", "take"} \/ (pc \in {"read", "write"} /\ ret = "drain")
       => newcomer \in Client /\ peer[newcomer].at = "accepted"
  /\ pc = "walk" => /\ IsInjective(walk) /\ ToSet(walk) \subseteq ToSet(channel_queue)
                    /\ message_id_sent < message_id

BaseInv == TypeOK /\ PoolIsAccounted /\ Announced /\ Linked /\ Queued /\ InHand

(* Nobody was sent a part of a frame but websockets out of the queue.      *)
Whole ==
  /\ \A k \in Client : peer[k].at \in {"new", "backlog", "accepted"} => peer[k].got = "whole"
  /\ \A s \in Slot : LET c == connections[s]
                     IN c.fd # None /\ (c.wh # "message" \/ c.in_queue) => peer[c.fd].got = "whole"

-------------------------------------------------------------------------------
(* What the helpers do to the invariant.                                   *)

LEMMA ClosedHasType == \A i \in {0, 1} : ClosedConnection(i) \in Connection
  BY DEF ClosedConnection, Connection

LEMMA DoneHasType == DonePeer \in Peer
  BY DEF DonePeer, NewPeer, Peer

(* The connection leaves the queue of reusable ones, or comes to its head. *)
LEMMA Relinked ==
  ASSUME TypeOK, Linked, NEW s \in Slot
  PROVE  /\ NotReusable(s) \in Seq(Slot) /\ IsInjective(NotReusable(s))
         /\ ToSet(NotReusable(s)) = ToSet(reusable_queue) \ {s}
         /\ Reusable(s) \in Seq(Slot) /\ IsInjective(Reusable(s))
         /\ ToSet(Reusable(s)) = ToSet(reusable_queue) \cup {s}
<1>1. /\ NotReusable(s) \in Seq(Slot) /\ IsInjective(NotReusable(s))
      /\ ToSet(NotReusable(s)) = ToSet(reusable_queue) \ {s}
  <2>0. reusable_queue \in Seq(Slot)
    BY DEF TypeOK
  <2>1. CASE connections[s].reusable
    <3>1. s \in ToSet(reusable_queue) /\ IsInjective(reusable_queue)
      BY <2>1 DEF Linked
    <3> QED BY <3>1, <2>0, <2>1, Unlinked DEF NotReusable
  <2>2. CASE ~connections[s].reusable
    <3>1. s \notin ToSet(reusable_queue) /\ IsInjective(reusable_queue)
      BY <2>2 DEF Linked
    <3> QED BY <3>1, <2>0, <2>2 DEF NotReusable
  <2> QED BY <2>1, <2>2
<1>2. /\ Reusable(s) \in Seq(Slot) /\ IsInjective(Reusable(s))
      /\ ToSet(Reusable(s)) = ToSet(NotReusable(s)) \cup {s}
  BY <1>1, PushedFront DEF Reusable
<1> QED BY <1>1, <1>2

(* A step that changes no socket of a slot, no free list and no place of a *)
(* client.                                                                 *)
LEMMA SameSockets ==
  ASSUME PoolIsAccounted, free_connections' = free_connections,
         \A s \in Slot : connections'[s].fd = connections[s].fd,
         \A k \in Client : (peer'[k].at = "open") <=> (peer[k].at = "open")
  PROVE  PoolIsAccounted'
BY DEF PoolIsAccounted

(* ngx_http_close_connection on an open connection.                        *)
LEMMA Closes ==
  ASSUME TypeOK, PoolIsAccounted, Announced, Linked,
         NEW s \in Slot, connections[s].fd # None, CloseConnection(s)
  PROVE  /\ connections' \in [Slot -> Connection]
         /\ peer' \in [Client -> Peer] /\ interest' \in [Client -> SUBSET {"IN", "OUT", "RDHUP"}]
         /\ ready_list' \subseteq Client
         /\ free_connections' \in Seq(Slot) /\ reusable_queue' \in Seq(Slot)
         /\ PoolIsAccounted' /\ Announced' /\ Linked'
         /\ \A t \in Slot : t # s => connections'[t] = connections[t]
         /\ connections'[s].fd = None /\ connections'[s].rh = "none"
         /\ ~connections'[s].in_queue
         /\ \A k \in Client : k # connections[s].fd => peer'[k] = peer[k]
         /\ \A k \in Client : peer'[k].got = peer[k].got \/ peer'[k].at = "done"
<1> DEFINE f == connections[s].fd
<1>1. connections[s] \in Connection /\ f \in Client /\ connections[s].instance \in {0, 1}
  BY DEF TypeOK, Connection
<1>2. connections' = [connections EXCEPT ![s] = ClosedConnection(connections[s].instance)]
  BY DEF CloseConnection
<1>3. connections' \in [Slot -> Connection]
  BY <1>1, <1>2, ClosedHasType DEF TypeOK
<1>4. /\ \A t \in Slot : t # s => connections'[t] = connections[t]
      /\ connections'[s] = ClosedConnection(connections[s].instance)
  BY <1>2 DEF TypeOK
<1>5. /\ connections'[s].fd = None /\ connections'[s].rh = "none"
      /\ connections'[s].in_queue = FALSE /\ connections'[s].reusable = FALSE
  BY <1>4 DEF ClosedConnection
<1>6. /\ peer' = [peer EXCEPT ![f] = DonePeer] /\ interest' = [interest EXCEPT ![f] = {}]
      /\ ready_list' = ready_list \ {f}
  BY DEF CloseConnection, CloseSocket
<1>7. DonePeer.at = "done"
  BY DEF DonePeer, NewPeer
<1>8. /\ peer' \in [Client -> Peer] /\ interest' \in [Client -> SUBSET {"IN", "OUT", "RDHUP"}]
      /\ ready_list' \subseteq Client
  BY <1>1, <1>6, DoneHasType DEF TypeOK
<1>9. /\ \A k \in Client : k # f => peer'[k] = peer[k]
      /\ peer'[f].at = "done"
  BY <1>1, <1>6, <1>7 DEF TypeOK
<1>10. reusable_queue' = NotReusable(s)
  BY DEF CloseConnection
<1>11. Linked'
  BY <1>4, <1>5, <1>10, Relinked DEF Linked
<1>12. free_connections' = <<s>> \o free_connections /\ s \notin ToSet(free_connections)
       /\ IsInjective(free_connections) /\ free_connections \in Seq(Slot)
  BY DEF CloseConnection, PoolIsAccounted, TypeOK
<1>13. free_connections' \in Seq(Slot) /\ IsInjective(free_connections')
       /\ ToSet(free_connections') = ToSet(free_connections) \cup {s}
  BY <1>12, PushedFront
<1>14. PoolIsAccounted'
  <2>1. \A t \in Slot : connections'[t].fd = None <=> t \in ToSet(free_connections')
    BY <1>4, <1>5, <1>13 DEF PoolIsAccounted
  <2>2. \A t, u \in Slot : t # u /\ connections'[t].fd # None => connections'[t].fd # connections'[u].fd
    <3>1. \A t, u \in Slot : t # u /\ connections[t].fd # None => connections[t].fd # connections[u].fd
      BY DEF PoolIsAccounted
    <3> QED BY <3>1, <1>4, <1>5
  <2>3. \A k \in Client : peer'[k].at = "open" <=> \E t \in Slot : connections'[t].fd = k
    <3>1. \A k \in Client : peer[k].at = "open" <=> \E t \in Slot : connections[t].fd = k
      BY DEF PoolIsAccounted
    <3>2. \A t \in Slot : t # s => connections[t].fd # f
      BY DEF PoolIsAccounted
    <3>3. \A k \in Client : k # f => ((\E t \in Slot : connections'[t].fd = k)
                                        <=> \E t \in Slot : connections[t].fd = k)
      BY <1>4, <1>5, ConnectionsAssumption
    <3>4. ~ \E t \in Slot : connections'[t].fd = f
      BY <3>2, <1>4, <1>5
    <3> QED BY <3>1, <3>3, <3>4, <1>9
  <2> QED BY <2>1, <2>2, <2>3, <1>13 DEF PoolIsAccounted
<1>15. Announced'
  <2>1. interest'[f] = {} /\ \A k \in Client : k # f => interest'[k] = interest[k]
    BY <1>1, <1>6 DEF TypeOK
  <2> QED BY <2>1, <1>6, <1>9 DEF Announced
<1>16. \A k \in Client : peer'[k].got = peer[k].got \/ peer'[k].at = "done"
  BY <1>9
<1> QED BY <1>3, <1>4, <1>5, <1>8, <1>9, <1>10, <1>11, <1>13, <1>14, <1>15, <1>16, Relinked

-------------------------------------------------------------------------------
(* Every action preserves the invariant.                                   *)

(* The queues and the worker's hand, where connections stay as they are.   *)
LEMMA SamePool ==
  ASSUME BaseInv, UNCHANGED poolVars,
         \A k \in Client : (peer'[k].at = "open") <=> (peer[k].at = "open")
  PROVE  PoolIsAccounted' /\ Linked' /\ Queued'
<1>1. PoolIsAccounted'
  BY SameSockets DEF BaseInv, poolVars
<1>2. Linked' /\ Queued'
  BY DEF BaseInv, poolVars, Linked, Queued
<1> QED BY <1>1, <1>2

LEMMA InitBase == Init => BaseInv /\ Whole /\ SubscribersInStep
<1> SUFFICES ASSUME Init PROVE BaseInv /\ Whole /\ SubscribersInStep
  OBVIOUS
<1>1. ClosedConnection(1) \in Connection /\ NewPeer \in Peer /\ NewPeer.at = "new"
      /\ NewPeer.got = "whole" /\ NoEvent \in Event
  BY ClosedHasType, ConnectionsAssumption DEF NewPeer, Peer, NoEvent, Event
<1>2. ClosedConnection(1).fd = None /\ ClosedConnection(1).reusable = FALSE
      /\ ClosedConnection(1).in_queue = FALSE /\ ClosedConnection(1).rh = "none"
  BY DEF ClosedConnection
<1>3. /\ free_connections \in Seq(Slot) /\ DOMAIN free_connections = Slot
      /\ \A s \in Slot : free_connections[s] = s
  BY ConnectionsAssumption DEF Init, Slot
<1>4. ToSet(free_connections) = Slot /\ IsInjective(free_connections)
  BY <1>3 DEF ToSet, IsInjective
<1>5. ToSet(<<>>) = {} /\ IsInjective(<<>>)
  BY DEF ToSet, IsInjective
<1>6. /\ \A s \in Slot : connections[s] = ClosedConnection(1)
      /\ \A k \in Client : peer[k] = NewPeer
  BY DEF Init
<1>7. TypeOK
  <2>1. 1 \in Slot /\ 0 \in 0 .. MaxMessages /\ 0 \in 0 .. MaxPressure
    BY ConnectionsAssumption DEF Slot
  <2>2. <<>> \in Seq(Slot)
    OBVIOUS
  <2> QED BY <1>1, <1>3, <2>1, <2>2 DEF Init, TypeOK
<1>8. PoolIsAccounted
  BY <1>1, <1>2, <1>4, <1>6, ConnectionsAssumption DEF PoolIsAccounted
<1>9. Announced
  BY DEF Init, Announced
<1>10. Linked
  BY <1>2, <1>5, <1>6 DEF Init, Linked
<1>11. Queued
  BY <1>2, <1>5, <1>6 DEF Init, Queued, Reading
<1>12. InHand
  BY DEF Init, InHand
<1>13. Whole
  BY <1>1, <1>2, <1>6 DEF Whole
<1>14. SubscribersInStep
  BY <1>2, <1>6 DEF SubscribersInStep
<1> QED BY <1>7, <1>8, <1>9, <1>10, <1>11, <1>12, <1>13, <1>14 DEF BaseInv

(* What a client does to its own socket.                                   *)
LEMMA ClientsBase == BaseInv /\ Clients => BaseInv'
<1> SUFFICES ASSUME BaseInv, Clients PROVE BaseInv'
  OBVIOUS
<1>1. CASE Publish
  <2>1. TypeOK'
    BY <1>1, ConnectionsAssumption DEF BaseInv, TypeOK, Publish, kernelVars, poolVars, eventVars
  <2>2. PoolIsAccounted' /\ Linked' /\ Queued' /\ Announced'
    BY <1>1, SamePool DEF BaseInv, Publish, kernelVars, Announced
  <2>3. InHand'
    BY <1>1 DEF BaseInv, TypeOK, Publish, kernelVars, poolVars, eventVars, InHand
  <2> QED BY <2>1, <2>2, <2>3 DEF BaseInv
<1>2. ASSUME NEW k \in Client,
             Connect(k) \/ Arrive(k) \/ Leave(k, "fin") \/ Leave(k, "rst") \/ Drained(k),
             UNCHANGED <<pressure, accepting, poolVars, pc, ret, eventVars, messageVars>>
      PROVE  BaseInv'
  <2>1. /\ peer' \in [Client -> Peer] /\ \A j \in Client : j # k => peer'[j] = peer[j]
        /\ peer'[k].at = peer[k].at \/ (peer[k].at = "new" /\ peer'[k].at = "backlog")
    <3>0. peer \in [Client -> Peer] /\ peer[k] \in Peer
      BY DEF BaseInv, TypeOK
    <3>1. CASE Connect(k)
      BY <3>0, <3>1 DEF Connect, Peer
    <3>2. CASE Arrive(k)
      BY <3>0, <3>2 DEF Arrive, Peer
    <3>3. CASE Leave(k, "fin") \/ Leave(k, "rst")
      BY <3>0, <3>3 DEF Leave, Peer
    <3>4. CASE Drained(k)
      BY <3>0, <3>4 DEF Drained, Peer
    <3> QED BY <1>2, <3>1, <3>2, <3>3, <3>4
  <2>2. /\ interest' = interest
        /\ ready_list' = ready_list \/ (ready_list' = ready_list \cup {k} /\ interest[k] # {})
    BY <1>2 DEF Connect, Arrive, Leave, Drained
  <2>3. TypeOK'
    BY <1>2, <2>1, <2>2 DEF BaseInv, TypeOK, poolVars, eventVars, messageVars
  <2>4. Announced'
    BY <2>1, <2>2 DEF BaseInv, Announced
  <2>5. \A j \in Client : (peer'[j].at = "open") <=> (peer[j].at = "open")
    BY <2>1
  <2>6. PoolIsAccounted' /\ Linked' /\ Queued'
    BY <1>2, <2>5, SamePool
  <2>7. InHand'
    BY <1>2, <2>1 DEF BaseInv, InHand, poolVars, eventVars, messageVars
  <2> QED BY <2>3, <2>4, <2>6, <2>7 DEF BaseInv
<1> QED BY <1>1, <1>2 DEF Clients

(* One connection keeps its socket and its place in the queue of the       *)
(* channel, and nobody's socket is closed.                                 *)
LEMMA OneChanges ==
  ASSUME BaseInv, NEW s \in Slot, NEW r \in Connection,
         connections' = [connections EXCEPT ![s] = r],
         r.fd = connections[s].fd, r.in_queue = connections[s].in_queue,
         r.in_queue => r.data = "wc" /\ r.wh = "message" /\ r.rh = "frame",
         r.rh \in Reading => r.wh = "empty",
         free_connections' = free_connections, channel_queue' = channel_queue,
         \/ reusable_queue' = reusable_queue /\ r.reusable = connections[s].reusable
         \/ reusable_queue' = NotReusable(s) /\ ~r.reusable
         \/ reusable_queue' = Reusable(s) /\ r.reusable /\ r.fd # None,
         \A k \in Client : (peer'[k].at = "open") <=> (peer[k].at = "open")
  PROVE  /\ connections' \in [Slot -> Connection] /\ reusable_queue' \in Seq(Slot)
         /\ PoolIsAccounted' /\ Linked' /\ Queued'
<1>1. connections' \in [Slot -> Connection]
  BY DEF BaseInv, TypeOK
<1>2. connections'[s] = r /\ \A t \in Slot : t # s => connections'[t] = connections[t]
  BY DEF BaseInv, TypeOK
<1>3. PoolIsAccounted'
  BY <1>2, SameSockets DEF BaseInv
<1>4. reusable_queue' \in Seq(Slot)
  BY Relinked DEF BaseInv, TypeOK
<1>5. Linked'
  <2>1. CASE reusable_queue' = reusable_queue /\ r.reusable = connections[s].reusable
    BY <2>1, <1>2 DEF BaseInv, Linked
  <2>2. CASE reusable_queue' = NotReusable(s) /\ ~r.reusable
    BY <2>2, <1>2, Relinked DEF BaseInv, Linked
  <2>3. CASE reusable_queue' = Reusable(s) /\ r.reusable /\ r.fd # None
    BY <2>3, <1>2, Relinked DEF BaseInv, Linked
  <2> QED BY <2>1, <2>2, <2>3
<1>6. Queued'
  BY <1>2 DEF BaseInv, Queued
<1> QED BY <1>1, <1>3, <1>4, <1>5, <1>6

LEMMA EpollWaitBase == BaseInv /\ EpollWait => BaseInv'
<1> SUFFICES ASSUME BaseInv, EpollWait PROVE BaseInv'
  OBVIOUS
<1>1. \A k \in ready_list : EventOf(k) \in Event
  <2> TAKE k \in ready_list
  <2>1. \E s \in Slot : connections[s].fd = k
    BY DEF BaseInv, TypeOK, Announced, PoolIsAccounted
  <2>2. SlotOf(k) \in Slot
    BY <2>1 DEF SlotOf
  <2>3. SlotOf(k) \in 0 .. N /\ connections[SlotOf(k)].instance \in {0, 1}
    BY <2>2 DEF BaseInv, TypeOK, Connection, Slot
  <2> QED BY <2>3 DEF EventOf, Event
<1>2. Reported \subseteq Event
  <2>0. 0 \in 0 .. N
    BY ConnectionsAssumption
  <2>1. LISTEN \in Event
    <3>1. NoEvent \in Event
      BY <2>0 DEF NoEvent, Event
    <3> QED BY <3>1 DEF LISTEN, Event
  <2> QED BY <1>1, <2>1 DEF Reported
<1>3. TypeOK'
  BY <1>2 DEF EpollWait, BaseInv, TypeOK, poolVars, messageVars
<1>4. PoolIsAccounted' /\ Linked' /\ Queued' /\ Announced'
  BY SamePool DEF EpollWait, BaseInv, Announced
<1>5. InHand'
  BY DEF EpollWait, BaseInv, InHand
<1> QED BY <1>3, <1>4, <1>5 DEF BaseInv

LEMMA TakeEventBase == BaseInv /\ TakeEvent => BaseInv'
<1> SUFFICES ASSUME BaseInv, TakeEvent PROVE BaseInv'
  OBVIOUS
<1>1. PICK e \in event_list :
        /\ event_list' = event_list \ {e}
        /\ IF Stale(e) THEN UNCHANGED <<connections, pc, ret, event, cur>>
           ELSE IF e.slot = 0 THEN pc' = "accept" /\ UNCHANGED <<connections, ret, event, cur>>
           ELSE /\ event' = e /\ cur' = e.slot
                /\ ret' = IF e.out THEN "write_half" ELSE "next"
                /\ IF e.in /\ connections[e.slot].rh \in Reading
                   THEN /\ connections' = [connections EXCEPT
                                             ![e.slot].ready = ~connections[e.slot].error,
                                             ![e.slot].eof = ~connections[e.slot].error /\ e.eof]
                        /\ pc' = "read"
                   ELSE pc' = ret' /\ UNCHANGED connections
  BY DEF TakeEvent
<1>2. UNCHANGED <<kernelVars, free_connections, reusable_queue, channel_queue,
                  newcomer, left, messageVars>>
  BY DEF TakeEvent
<1>3. e \in Event /\ event_list' \subseteq Event
  BY <1>1 DEF BaseInv, TypeOK
<1>4. CASE Stale(e) \/ e.slot = 0
  <2>1. UNCHANGED <<connections, ret, event, cur>> /\ (pc' = "accept" \/ pc' = pc)
    BY <1>1, <1>4
  <2>2. TypeOK'
    BY <2>1, <1>2, <1>3 DEF BaseInv, TypeOK, kernelVars, messageVars
  <2>3. PoolIsAccounted' /\ Linked' /\ Queued' /\ Announced'
    BY <2>1, <1>2, SamePool DEF BaseInv, Announced, kernelVars, poolVars
  <2>4. InHand'
    BY <2>1, <1>2 DEF TakeEvent, BaseInv, InHand, kernelVars, messageVars
  <2> QED BY <2>2, <2>3, <2>4 DEF BaseInv
<1>5. CASE ~Stale(e) /\ e.slot # 0
  <2>1. e.slot \in Slot /\ connections[e.slot].fd # None
    BY <1>3, <1>5, ConnectionsAssumption DEF Event, Slot, Stale
  <2>2. event' = e /\ cur' = e.slot /\ ret' \in {"write_half", "next"}
    BY <1>1, <1>5
  <2>3. CASE e.in /\ connections[e.slot].rh \in Reading
    <3> DEFINE r == [connections[e.slot] EXCEPT !.ready = ~connections[e.slot].error,
                                               !.eof = ~connections[e.slot].error /\ e.eof]
    <3>1. connections' = [connections EXCEPT ![e.slot] = r] /\ pc' = "read"
      BY <1>1, <1>5, <2>3, <2>1 DEF BaseInv, TypeOK
    <3>2. /\ r \in Connection /\ r.fd = connections[e.slot].fd
          /\ r.in_queue = connections[e.slot].in_queue /\ r.reusable = connections[e.slot].reusable
          /\ r.data = connections[e.slot].data /\ r.wh = connections[e.slot].wh
          /\ r.rh = connections[e.slot].rh
      <4>1. connections[e.slot] \in Connection /\ connections[e.slot].error \in BOOLEAN
        BY <2>1 DEF BaseInv, TypeOK, Connection
      <4>2. e.eof \in BOOLEAN
        BY <1>3 DEF Event
      <4> DEFINE a == ~connections[e.slot].error
                 b == ~connections[e.slot].error /\ e.eof
      <4>3. a \in BOOLEAN /\ b \in BOOLEAN
        BY <4>1, <4>2
      <4> HIDE DEF a, b
      <4>4. r = [connections[e.slot] EXCEPT !.ready = a, !.eof = b]
        BY DEF a, b
      <4> HIDE DEF r
      <4> QED BY <4>1, <4>3, <4>4 DEF Connection
    <3> HIDE DEF r
    <3>3. /\ connections' \in [Slot -> Connection] /\ PoolIsAccounted' /\ Linked' /\ Queued'
      BY <3>1, <3>2, <2>1, <1>2, OneChanges, ZenonT(60) DEF BaseInv, Queued, kernelVars
    <3>4. connections'[e.slot] = r
      BY <3>1, <2>1 DEF BaseInv, TypeOK
    <3>5. TypeOK'
      BY <3>1, <3>3, <2>1, <2>2, <1>2, <1>3 DEF BaseInv, TypeOK, kernelVars, messageVars
    <3>6. InHand'
      BY <3>1, <3>2, <3>4, <2>1, <2>2, <2>3 DEF InHand
    <3>7. Announced'
      BY <1>2 DEF BaseInv, Announced, kernelVars
    <3> QED BY <3>3, <3>5, <3>6, <3>7 DEF BaseInv
  <2>4. CASE ~(e.in /\ connections[e.slot].rh \in Reading)
    <3>1. pc' = ret' /\ UNCHANGED connections
      BY <1>1, <1>5, <2>4
    <3>2. TypeOK'
      BY <3>1, <2>1, <2>2, <1>2, <1>3 DEF BaseInv, TypeOK, kernelVars, messageVars
    <3>3. PoolIsAccounted' /\ Linked' /\ Queued' /\ Announced'
      BY <3>1, <1>2, SamePool DEF BaseInv, Announced, kernelVars, poolVars
    <3>4. InHand'
      BY <3>1, <2>2 DEF InHand
    <3> QED BY <3>2, <3>3, <3>4 DEF BaseInv
  <2> QED BY <2>3, <2>4
<1> QED BY <1>4, <1>5

LEMMA WriteHalfBase == BaseInv /\ WriteHalf => BaseInv'
<1> SUFFICES ASSUME BaseInv, WriteHalf PROVE BaseInv'
  OBVIOUS
<1> DEFINE c == connections[cur]
           r == [c EXCEPT !.data = "freed"]
<1>1. c \in Connection /\ cur \in Slot /\ pc = "write_half" /\ event.slot = cur
  BY DEF BaseInv, TypeOK, InHand, WriteHalf
<1>2. UNCHANGED <<kernelVars, free_connections, reusable_queue, channel_queue, eventVars, messageVars>>
  BY DEF WriteHalf
<1>3. CASE pc' = "next" /\ UNCHANGED <<connections, ret>>
  <2>1. TypeOK'
    BY <1>2, <1>3 DEF BaseInv, TypeOK, kernelVars, eventVars, messageVars
  <2>2. PoolIsAccounted' /\ Linked' /\ Queued' /\ Announced'
    BY <1>2, <1>3, SamePool DEF BaseInv, Announced, kernelVars, poolVars
  <2>3. InHand'
    BY <1>3 DEF InHand
  <2> QED BY <2>1, <2>2, <2>3 DEF BaseInv
<1>4. CASE ~Stale(event) /\ c.wh = "request" /\ pc' = "write" /\ ret' = "next" /\ UNCHANGED connections
  <2>1. c.fd # None
    BY <1>1, <1>4, ConnectionsAssumption DEF Stale, Slot
  <2>2. TypeOK'
    BY <1>2, <1>4 DEF BaseInv, TypeOK, kernelVars, eventVars, messageVars
  <2>3. PoolIsAccounted' /\ Linked' /\ Queued' /\ Announced'
    BY <1>2, <1>4, SamePool DEF BaseInv, Announced, kernelVars, poolVars
  <2>4. InHand'
    BY <1>2, <1>4, <2>1 DEF InHand, eventVars
  <2> QED BY <2>2, <2>3, <2>4 DEF BaseInv
<1>5. CASE /\ ~Stale(event) /\ c.wh = "request"
           /\ connections' = [connections EXCEPT ![cur].data = "freed"]
           /\ pc' \in {"next", "corrupt"} /\ UNCHANGED ret
  <2>1. connections' = [connections EXCEPT ![cur] = r]
    BY <1>5
  <2>2. /\ r \in Connection /\ r.fd = c.fd /\ r.in_queue = c.in_queue /\ r.reusable = c.reusable
        /\ r.wh = c.wh /\ r.rh = c.rh
    BY <1>1 DEF Connection
  <2>3. c.in_queue = FALSE /\ c.rh \notin Reading
    BY <1>1, <1>5 DEF BaseInv, Queued, Connection
  <2> HIDE DEF r
  <2>4. connections' \in [Slot -> Connection] /\ PoolIsAccounted' /\ Linked' /\ Queued'
    BY <2>1, <2>2, <2>3, <1>1, <1>2, OneChanges DEF kernelVars
  <2>5. TypeOK'
    BY <2>4, <1>2, <1>5 DEF BaseInv, TypeOK, kernelVars, eventVars, messageVars
  <2>6. Announced'
    BY <1>2 DEF BaseInv, Announced, kernelVars
  <2>7. InHand'
    BY <1>5 DEF InHand
  <2> QED BY <2>4, <2>5, <2>6, <2>7 DEF BaseInv
<1> QED BY <1>3, <1>4, <1>5 DEF WriteHalf

LEMMA ScanBase == BaseInv /\ Scan => BaseInv'
<1> SUFFICES ASSUME BaseInv, Scan PROVE BaseInv'
  OBVIOUS
<1>1. NoEvent \in Event /\ 1 \in Slot
  BY ConnectionsAssumption DEF NoEvent, Event, Slot
<1>2. TypeOK'
  BY <1>1 DEF Scan, BaseInv, TypeOK, kernelVars, poolVars
<1>3. PoolIsAccounted' /\ Linked' /\ Queued' /\ Announced'
  BY SamePool DEF Scan, BaseInv, Announced, kernelVars
<1>4. InHand'
  BY DEF Scan, BaseInv, TypeOK, InHand, Queued, Unsent, poolVars
<1> QED BY <1>2, <1>3, <1>4 DEF BaseInv

LEMMA AcceptBase == BaseInv /\ Accept => BaseInv'
<1> SUFFICES ASSUME BaseInv, Accept PROVE BaseInv'
  OBVIOUS
<1>1. UNCHANGED <<interest, ready_list, pressure, poolVars, ret, event_list, event, cur, messageVars>>
  BY DEF Accept
<1>2. \/ peer' = peer
      \/ \E k \in Client : peer[k].at = "backlog" /\ peer' = [peer EXCEPT ![k] = DonePeer]
      \/ \E k \in Client : peer[k].at = "backlog" /\ peer' = [peer EXCEPT ![k].at = "accepted"]
  BY DEF Accept, Backlog
<1>3. /\ peer' \in [Client -> Peer]
      /\ \A k \in Client : (peer'[k].at = "open") <=> (peer[k].at = "open")
  <2>0. peer \in [Client -> Peer]
    BY DEF BaseInv, TypeOK
  <2>1. CASE peer' = peer
    BY <2>0, <2>1
  <2>2. ASSUME NEW k \in Client, peer[k].at = "backlog", peer' = [peer EXCEPT ![k] = DonePeer]
        PROVE  <1>3!:
    <3>1. DonePeer.at = "done"
      BY DEF DonePeer, NewPeer
    <3> QED BY <2>0, <2>2, <3>1, DoneHasType
  <2>3. ASSUME NEW k \in Client, peer[k].at = "backlog", peer' = [peer EXCEPT ![k].at = "accepted"]
        PROVE  <1>3!:
    BY <2>0, <2>3 DEF Peer
  <2> QED BY <1>2, <2>1, <2>2, <2>3
<1>4. /\ accepting' \in BOOLEAN /\ left' \in 0 .. 32 /\ newcomer' \in Client \cup {None}
      /\ pc' \in {"next", "accept", "take", "drain"}
      /\ pc' \in {"take", "drain"} => newcomer' \in Client /\ peer'[newcomer'].at = "accepted"
  <2>1. CASE \E k \in Backlog :
               /\ peer' = [peer EXCEPT ![k].at = "accepted"] /\ newcomer' = k /\ UNCHANGED accepting
               /\ IF free_connections # <<>> THEN pc' = "take" /\ left' = 0
                  ELSE /\ pc' = "drain"
                       /\ left' = LET n == Len(reusable_queue) \div 8
                                  IN IF n > 32 THEN 32 ELSE IF n < 1 THEN 1 ELSE n
    <3>1. PICK k \in Client :
            peer' = [peer EXCEPT ![k].at = "accepted"] /\ newcomer' = k
      BY <2>1 DEF Backlog
    <3>2. peer'[k].at = "accepted"
      BY <3>1 DEF BaseInv, TypeOK, Peer
    <3>3. Len(reusable_queue) \in Nat
      BY DEF BaseInv, TypeOK
    <3>4. left' \in 0 .. 32 /\ pc' \in {"take", "drain"}
      <4>1. \A n \in Int : (IF n > 32 THEN 32 ELSE IF n < 1 THEN 1 ELSE n) \in 0 .. 32
        OBVIOUS
      <4>2. Len(reusable_queue) \div 8 \in Int
        BY <3>3
      <4> DEFINE m == Len(reusable_queue) \div 8
      <4>3. left' \in {0, IF m > 32 THEN 32 ELSE IF m < 1 THEN 1 ELSE m} /\ pc' \in {"take", "drain"}
        BY <2>1
      <4> HIDE DEF m
      <4> QED BY <4>1, <4>2, <4>3 DEF m
    <3> QED BY <2>1, <3>1, <3>2, <3>4 DEF BaseInv, TypeOK
  <2>2. CASE pc' \in {"next", pc} /\ accepting' \in {FALSE, accepting} /\ UNCHANGED <<newcomer, left>>
    BY <2>2 DEF BaseInv, TypeOK, Accept
  <2> QED BY <2>1, <2>2 DEF Accept
<1>5. TypeOK'
  BY <1>1, <1>3, <1>4 DEF BaseInv, TypeOK, poolVars, messageVars
<1>6. PoolIsAccounted' /\ Linked' /\ Queued' /\ Announced'
  BY <1>1, <1>3, SamePool DEF BaseInv, Announced
<1>7. InHand'
  BY <1>4 DEF InHand
<1> QED BY <1>5, <1>6, <1>7 DEF BaseInv

LEMMA LastIsIn ==
  ASSUME NEW S, NEW q \in Seq(S), q # <<>>
  PROVE  Last(q) \in S /\ Last(q) \in ToSet(q)
<1>1. Len(q) \in 1 .. Len(q)
  OBVIOUS
<1> QED BY <1>1 DEF Last, ToSet

(* A newcomer has no slot yet, so that a drain does not touch it.          *)
LEMMA NewcomerHasNoSlot ==
  ASSUME TypeOK, PoolIsAccounted, NEW k \in Client, peer[k].at = "accepted", NEW s \in Slot
  PROVE  connections[s].fd # k
BY DEF PoolIsAccounted

LEMMA DrainBase == BaseInv /\ Drain => BaseInv'
<1> SUFFICES ASSUME BaseInv, Drain PROVE BaseInv'
  OBVIOUS
<1> DEFINE s == Last(reusable_queue)
           c == connections[s]
           r == [c EXCEPT !.close = TRUE]
<1>1. UNCHANGED <<event_list, event, newcomer, messageVars>> /\ pc = "drain"
  BY DEF Drain
<1>2. newcomer \in Client /\ peer[newcomer].at = "accepted"
  BY <1>1 DEF BaseInv, InHand
<1>3. CASE left = 0 \/ reusable_queue = <<>>
  <2>1. pc' = "take" /\ left' = 0 /\ UNCHANGED <<kernelVars, poolVars, ret, cur>>
    BY <1>3 DEF Drain
  <2>2. TypeOK'
    BY <1>1, <2>1 DEF BaseInv, TypeOK, kernelVars, poolVars, messageVars
  <2>3. PoolIsAccounted' /\ Linked' /\ Queued' /\ Announced'
    BY <2>1, SamePool DEF BaseInv, Announced, kernelVars
  <2>4. InHand'
    BY <1>1, <1>2, <2>1 DEF InHand, kernelVars
  <2> QED BY <2>2, <2>3, <2>4 DEF BaseInv
<1>4. CASE ~(left = 0 \/ reusable_queue = <<>>)
  <2>1. s \in Slot /\ s \in ToSet(reusable_queue)
    BY <1>4, LastIsIn DEF BaseInv, TypeOK
  <2>2. c \in Connection /\ c.reusable /\ c.fd # None /\ c.fd # newcomer
    BY <2>1, <1>2, NewcomerHasNoSlot DEF BaseInv, TypeOK, Linked
  <2>3. left' = left - 1 /\ left' \in 0 .. 32
    BY <1>4 DEF Drain, BaseInv, TypeOK
  <2>4. CASE c.rh = "wait"
    <3>1. CloseConnection(s) /\ UNCHANGED <<channel_queue, pressure, accepting, pc, ret, cur>>
      BY <1>4, <2>4 DEF Drain
    <3>2. c.in_queue = FALSE
      BY <2>1, <2>2, <2>4 DEF BaseInv, Queued, Connection
    <3>3. /\ connections' \in [Slot -> Connection]
          /\ peer' \in [Client -> Peer] /\ interest' \in [Client -> SUBSET {"IN", "OUT", "RDHUP"}]
          /\ ready_list' \subseteq Client
          /\ free_connections' \in Seq(Slot) /\ reusable_queue' \in Seq(Slot)
          /\ PoolIsAccounted' /\ Announced' /\ Linked'
          /\ \A t \in Slot : t # s => connections'[t] = connections[t]
          /\ connections'[s].rh = "none" /\ ~connections'[s].in_queue
          /\ \A k \in Client : k # c.fd => peer'[k] = peer[k]
      BY <3>1, <2>1, <2>2, Closes DEF BaseInv
    <3>4. TypeOK'
      BY <3>1, <3>3, <2>3, <1>1 DEF BaseInv, TypeOK, messageVars
    <3>5. Queued'
      BY <3>1, <3>2, <3>3 DEF BaseInv, Queued, Reading
    <3>6. InHand'
      BY <1>1, <1>2, <2>2, <3>1, <3>3 DEF InHand
    <3> QED BY <3>3, <3>4, <3>5, <3>6 DEF BaseInv
  <2>5. CASE c.rh # "wait"
    <3>1. /\ connections' = [connections EXCEPT ![s] = r]
          /\ IF c.rh \in {"line", "headers"} THEN pc' = "read" /\ ret' = "drain" /\ cur' = s
             ELSE UNCHANGED <<pc, ret, cur>>
          /\ UNCHANGED <<kernelVars, free_connections, reusable_queue, channel_queue>>
      BY <1>4, <2>5 DEF Drain
    <3>2. /\ r \in Connection /\ r.fd = c.fd /\ r.in_queue = c.in_queue /\ r.reusable = c.reusable
          /\ r.wh = c.wh /\ r.rh = c.rh /\ r.data = c.data
      BY <2>2 DEF Connection
    <3> HIDE DEF r
    <3>3. connections' \in [Slot -> Connection] /\ PoolIsAccounted' /\ Linked' /\ Queued'
      BY <3>1, <3>2, <2>1, OneChanges DEF BaseInv, Queued, kernelVars
    <3>4. TypeOK'
      BY <3>1, <3>3, <2>1, <2>3, <1>1 DEF BaseInv, TypeOK, kernelVars, messageVars
    <3>5. Announced'
      BY <3>1 DEF BaseInv, Announced, kernelVars
    <3>6. InHand'
      <4>1. connections'[s] = r
        BY <3>1, <2>1 DEF BaseInv, TypeOK
      <4> QED BY <4>1, <3>1, <3>2, <2>2, <1>1, <1>2 DEF InHand, kernelVars, Reading
    <3> QED BY <3>3, <3>4, <3>5, <3>6 DEF BaseInv
  <2> QED BY <2>4, <2>5
<1> QED BY <1>3, <1>4

(* The newcomer's socket is closed: it has no slot, and is not in epoll.   *)
LEMMA NewcomerCloses ==
  ASSUME BaseInv, NEW k \in Client, peer[k].at = "accepted", CloseSocket(k)
  PROVE  /\ peer' \in [Client -> Peer] /\ interest' \in [Client -> SUBSET {"IN", "OUT", "RDHUP"}]
         /\ ready_list' \subseteq Client /\ Announced'
         /\ \A j \in Client : (peer'[j].at = "open") <=> (peer[j].at = "open")
<1>1. DonePeer.at = "done"
  BY DEF DonePeer, NewPeer
<1>2. /\ peer' \in [Client -> Peer] /\ interest' \in [Client -> SUBSET {"IN", "OUT", "RDHUP"}]
      /\ ready_list' = ready_list \ {k}
      /\ peer'[k].at = "done" /\ interest'[k] = {}
      /\ \A j \in Client : j # k => peer'[j] = peer[j] /\ interest'[j] = interest[j]
  BY <1>1, DoneHasType DEF CloseSocket, BaseInv, TypeOK
<1> QED BY <1>2 DEF BaseInv, TypeOK, Announced

LEMMA TakeBase == BaseInv /\ Take => BaseInv'
<1> SUFFICES ASSUME BaseInv, Take PROVE BaseInv'
  OBVIOUS
<1> DEFINE k == newcomer
           s == Head(free_connections)
           i == 1 - connections[s].instance
<1>1. /\ k \in Client /\ peer[k].at = "accepted" /\ newcomer' = None
      /\ UNCHANGED <<pressure, accepting, channel_queue, ret, event_list, event, cur, left, messageVars>>
      /\ pc' \in {"next", "accept"}
  BY DEF Take, BaseInv, InHand
<1>2. InHand'
  BY <1>1 DEF InHand
<1>3. CASE CloseSocket(k) /\ UNCHANGED <<connections, free_connections, reusable_queue>>
  <2>1. /\ peer' \in [Client -> Peer] /\ interest' \in [Client -> SUBSET {"IN", "OUT", "RDHUP"}]
        /\ ready_list' \subseteq Client /\ Announced'
        /\ \A j \in Client : (peer'[j].at = "open") <=> (peer[j].at = "open")
    BY <1>1, <1>3, NewcomerCloses
  <2>2. TypeOK'
    BY <1>1, <1>3, <2>1 DEF BaseInv, TypeOK, messageVars
  <2>3. PoolIsAccounted' /\ Linked' /\ Queued'
    BY <1>1, <1>3, <2>1, SamePool DEF poolVars
  <2> QED BY <1>2, <2>1, <2>2, <2>3 DEF BaseInv
<1>4. CASE free_connections # <<>>
  <2>1. /\ s \in Slot /\ Tail(free_connections) \in Seq(Slot)
        /\ ToSet(free_connections) = ToSet(Tail(free_connections)) \cup {s}
        /\ IsInjective(Tail(free_connections)) /\ s \notin ToSet(Tail(free_connections))
    BY <1>4, PoppedFront DEF BaseInv, TypeOK, PoolIsAccounted
  <2>2. connections[s] \in Connection /\ connections[s].fd = None
    BY <2>1 DEF BaseInv, TypeOK, PoolIsAccounted
  <2>3. i \in {0, 1}
    BY <2>2 DEF Connection
  <2>4. /\ connections[s].reusable = FALSE /\ connections[s].in_queue = FALSE
        /\ s \notin ToSet(reusable_queue)
    BY <2>1, <2>2 DEF BaseInv, Linked, Queued, Connection
  <2>5. CASE /\ connections' = [connections EXCEPT ![s] = ClosedConnection(i)]
             /\ CloseSocket(k) /\ UNCHANGED <<free_connections, reusable_queue>>
    <3>1. /\ peer' \in [Client -> Peer] /\ interest' \in [Client -> SUBSET {"IN", "OUT", "RDHUP"}]
          /\ ready_list' \subseteq Client /\ Announced'
          /\ \A j \in Client : (peer'[j].at = "open") <=> (peer[j].at = "open")
      BY <1>1, <2>5, NewcomerCloses
    <3>2. ClosedConnection(i) \in Connection
      BY <2>3, ClosedHasType
    <3>3. /\ ClosedConnection(i).fd = None /\ ClosedConnection(i).rh = "none"
          /\ ClosedConnection(i).reusable = FALSE /\ ClosedConnection(i).in_queue = FALSE
      BY DEF ClosedConnection
    <3>4. /\ connections' \in [Slot -> Connection] /\ PoolIsAccounted' /\ Linked' /\ Queued'
      BY <1>1, <2>1, <2>2, <2>4, <2>5, <3>1, <3>2, <3>3, OneChanges DEF Reading
    <3>5. TypeOK'
      BY <1>1, <2>5, <3>1, <3>4 DEF BaseInv, TypeOK, messageVars
    <3> QED BY <1>2, <3>1, <3>4, <3>5 DEF BaseInv
  <2>6. CASE /\ connections' = [connections EXCEPT ![s] =
                   [ClosedConnection(i) EXCEPT !.fd = k, !.rh = "wait", !.wh = "empty",
                                               !.data = "hc", !.reusable = TRUE]]
             /\ free_connections' = Tail(free_connections)
             /\ reusable_queue' = <<s>> \o reusable_queue
             /\ peer' = [peer EXCEPT ![k].at = "open"]
             /\ interest' = [interest EXCEPT ![k] = {"IN"}]
             /\ ready_list' = IF peer[k].data \/ Left(k) THEN ready_list \cup {k} ELSE ready_list
    <3> DEFINE r == [ClosedConnection(i) EXCEPT !.fd = k, !.rh = "wait", !.wh = "empty",
                                                !.data = "hc", !.reusable = TRUE]
    <3>1. /\ r \in Connection /\ r.fd = k /\ r.rh = "wait" /\ r.wh = "empty"
          /\ r.reusable = TRUE /\ r.in_queue = FALSE
      BY <1>1, <2>3 DEF ClosedConnection, Connection
    <3>2. connections' = [connections EXCEPT ![s] = r]
      BY <2>6
    <3> HIDE DEF r
    <3>3. /\ connections' \in [Slot -> Connection] /\ connections'[s] = r
          /\ \A t \in Slot : t # s => connections'[t] = connections[t]
      BY <2>1, <3>1, <3>2 DEF BaseInv, TypeOK
    <3>4. /\ peer' \in [Client -> Peer] /\ peer'[k].at = "open"
          /\ \A j \in Client : j # k => peer'[j] = peer[j]
      BY <1>1, <2>6 DEF BaseInv, TypeOK, Peer
    <3>5. /\ interest' \in [Client -> SUBSET {"IN", "OUT", "RDHUP"}] /\ ready_list' \subseteq Client
          /\ Announced'
      BY <1>1, <2>6, <3>4 DEF BaseInv, TypeOK, Announced
    <3>6. /\ reusable_queue' \in Seq(Slot) /\ IsInjective(reusable_queue')
          /\ ToSet(reusable_queue') = ToSet(reusable_queue) \cup {s}
      BY <2>1, <2>4, <2>6, PushedFront DEF BaseInv, TypeOK, Linked
    <3>7. Linked'
      BY <1>1, <3>1, <3>3, <3>6, ConnectionsAssumption DEF BaseInv, Linked
    <3>8. Queued'
      BY <1>1, <2>4, <3>1, <3>3 DEF BaseInv, Queued
    <3>9. PoolIsAccounted'
      <4>1. \A t \in Slot : connections[t].fd # k
        BY <1>1, NewcomerHasNoSlot DEF BaseInv
      <4>2. \A t \in Slot : connections'[t].fd = None <=> t \in ToSet(free_connections')
        BY <1>1, <2>1, <2>6, <3>1, <3>3, ConnectionsAssumption DEF BaseInv, PoolIsAccounted
      <4>3. \A t, u \in Slot : t # u /\ connections'[t].fd # None => connections'[t].fd # connections'[u].fd
        <5>1. \A t, u \in Slot : t # u /\ connections[t].fd # None => connections[t].fd # connections[u].fd
          BY DEF BaseInv, PoolIsAccounted
        <5> QED BY <5>1, <4>1, <3>1, <3>3
      <4>4. \A j \in Client : peer'[j].at = "open" <=> \E t \in Slot : connections'[t].fd = j
        <5>1. \A j \in Client : peer[j].at = "open" <=> \E t \in Slot : connections[t].fd = j
          BY DEF BaseInv, PoolIsAccounted
        <5>2. \A j \in Client : j # k => ((\E t \in Slot : connections'[t].fd = j)
                                           <=> \E t \in Slot : connections[t].fd = j)
          BY <2>2, <3>1, <3>3, ConnectionsAssumption
        <5> QED BY <5>1, <5>2, <2>1, <3>1, <3>3, <3>4
      <4> QED BY <4>2, <4>3, <4>4, <2>1, <2>6 DEF PoolIsAccounted
    <3>10. TypeOK'
      BY <1>1, <2>1, <2>6, <3>3, <3>4, <3>5, <3>6 DEF BaseInv, TypeOK, messageVars
    <3> QED BY <1>2, <3>5, <3>7, <3>8, <3>9, <3>10 DEF BaseInv
  <2> QED BY <1>4, <2>5, <2>6 DEF Take
<1> QED BY <1>3, <1>4 DEF Take

(* A handler at an open connection that is no websocket closes it.         *)
LEMMA HandlerCloses ==
  ASSUME BaseInv, pc \in {"read", "write"}, CloseConnection(cur), pc' = ret,
         UNCHANGED <<pressure, accepting, channel_queue, ret, eventVars, messageVars>>
  PROVE  BaseInv'
<1> DEFINE c == connections[cur]
<1>1. cur \in Slot /\ c.fd # None /\ c \in Connection /\ c.fd \in Client
  BY DEF BaseInv, TypeOK, InHand, Connection
<1>2. c.in_queue = FALSE
  BY <1>1 DEF BaseInv, InHand, Queued, Reading, Connection
<1>3. /\ connections' \in [Slot -> Connection]
      /\ peer' \in [Client -> Peer] /\ interest' \in [Client -> SUBSET {"IN", "OUT", "RDHUP"}]
      /\ ready_list' \subseteq Client
      /\ free_connections' \in Seq(Slot) /\ reusable_queue' \in Seq(Slot)
      /\ PoolIsAccounted' /\ Announced' /\ Linked'
      /\ \A t \in Slot : t # cur => connections'[t] = connections[t]
      /\ connections'[cur].rh = "none" /\ ~connections'[cur].in_queue
      /\ \A k \in Client : k # c.fd => peer'[k] = peer[k]
  BY <1>1, Closes DEF BaseInv
<1>4. TypeOK'
  BY <1>3 DEF BaseInv, TypeOK, eventVars, messageVars
<1>5. Queued'
  BY <1>2, <1>3 DEF BaseInv, Queued, Reading
<1>6. InHand'
  <2>1. ret = "drain" => /\ newcomer \in Client /\ peer[newcomer].at = "accepted"
                         /\ newcomer # c.fd
    BY <1>1, NewcomerHasNoSlot DEF BaseInv, InHand
  <2>2. ret \in {"next", "write_half", "drain"}
    BY DEF BaseInv, TypeOK
  <2> QED BY <2>1, <2>2, <1>3 DEF BaseInv, InHand, eventVars
<1> QED BY <1>3, <1>4, <1>5, <1>6 DEF BaseInv

(* A handler at a connection that is no websocket leaves it open, and      *)
(* returns or goes on.                                                     *)
LEMMA HandlerGoesOn ==
  ASSUME BaseInv, pc \in {"read", "write"}, NEW r \in Connection,
         connections' = [connections EXCEPT ![cur] = r],
         r.fd = connections[cur].fd, r.in_queue = FALSE,
         r.rh \in Reading => r.wh = "empty",
         \/ reusable_queue' = reusable_queue /\ r.reusable = connections[cur].reusable
         \/ reusable_queue' = NotReusable(cur) /\ ~r.reusable
         \/ reusable_queue' = Reusable(cur) /\ r.reusable,
         pressure' \in 0 .. MaxPressure,
         peer' \in [Client -> Peer], \A k \in Client : peer'[k].at = peer[k].at,
         interest' \in [Client -> SUBSET {"IN", "OUT", "RDHUP"}],
         ready_list' \subseteq Client, Announced',
         UNCHANGED <<accepting, free_connections, channel_queue, ret, eventVars, messageVars>>,
         \/ pc' = ret
         \/ pc' = "read" /\ r.rh \in Reading
         \/ pc' = "write" /\ r.wh \in {"empty", "request"}
  PROVE  BaseInv'
<1> DEFINE c == connections[cur]
<1>1. cur \in Slot /\ c.fd # None /\ c \in Connection
  BY DEF BaseInv, TypeOK, InHand
<1>2. c.in_queue = FALSE
  BY <1>1 DEF BaseInv, InHand, Queued, Reading, Connection
<1>3. connections' \in [Slot -> Connection] /\ reusable_queue' \in Seq(Slot)
      /\ PoolIsAccounted' /\ Linked' /\ Queued'
  BY <1>1, <1>2, OneChanges
<1>4. ret \in {"next", "write_half", "drain"}
  BY DEF BaseInv, TypeOK
<1>5. TypeOK'
  BY <1>3, <1>4 DEF BaseInv, TypeOK, eventVars, messageVars
<1>6. InHand'
  <2>1. connections'[cur] = r /\ r.fd # None
    BY <1>1 DEF BaseInv, TypeOK
  <2> QED BY <2>1, <1>4 DEF BaseInv, InHand, eventVars
<1> QED BY <1>3, <1>5, <1>6 DEF BaseInv

(* The bytes of one socket are taken or left.                              *)
LEMMA BytesTaken ==
  ASSUME TypeOK, NEW k \in Client, NEW b \in BOOLEAN, peer' = [peer EXCEPT ![k].data = b]
  PROVE  /\ peer' \in [Client -> Peer]
         /\ \A j \in Client : peer'[j].at = peer[j].at /\ peer'[j].got = peer[j].got
<1>1. peer[k] \in Peer
  BY DEF TypeOK
<1> QED BY <1>1 DEF TypeOK, Peer

LEMMA ReadRequestBase == BaseInv /\ ReadRequest => BaseInv'
<1> SUFFICES ASSUME BaseInv, ReadRequest PROVE BaseInv'
  OBVIOUS
<1> DEFINE c == connections[cur]
           k == c.fd
<1>1. /\ pc = "read" /\ cur \in Slot /\ c \in Connection /\ k \in Client /\ c.rh \in Reading
      /\ c.wh = "empty" /\ c.in_queue = FALSE
  BY DEF ReadRequest, BaseInv, TypeOK, InHand, Queued, Reading, Connection
<1>2. UNCHANGED <<pressure, accepting, channel_queue, ret, eventVars, messageVars>>
  BY DEF ReadRequest
<1>3. pressure' \in 0 .. MaxPressure
  BY <1>2 DEF BaseInv, TypeOK
<1>4. UNCHANGED peer => peer' \in [Client -> Peer] /\ \A j \in Client : peer'[j].at = peer[j].at
  BY DEF BaseInv, TypeOK
<1>5. UNCHANGED <<interest, ready_list>> =>
        /\ interest' \in [Client -> SUBSET {"IN", "OUT", "RDHUP"}] /\ ready_list' \subseteq Client
        /\ (\A j \in Client : peer'[j].at = peer[j].at) => Announced'
  BY DEF BaseInv, TypeOK, Announced
<1>6. CASE CloseConnection(cur) /\ pc' = ret
  BY <1>1, <1>2, <1>6, HandlerCloses
<1>7. ASSUME NEW d \in Connection, d.rh \in Reading, d.wh = "empty", NEW e \in Done(d)
      PROVE  /\ e \in Connection /\ e.fd = d.fd /\ e.in_queue = d.in_queue /\ e.reusable = d.reusable
             /\ e.rh \notin Reading /\ e.wh = "request"
  <2>1. PICK upgrade \in BOOLEAN :
          e = [d EXCEPT !.rh = "empty", !.wh = "request", !.ready = FALSE, !.eof = FALSE,
                        !.error = @ \/ ~upgrade]
    BY DEF Done
  <2> DEFINE b == d.error \/ ~upgrade
  <2>2. b \in BOOLEAN /\ e = [d EXCEPT !.rh = "empty", !.wh = "request", !.ready = FALSE,
                                       !.eof = FALSE, !.error = b]
    BY <2>1
  <2> HIDE DEF b
  <2> QED BY <1>7, <2>2 DEF Connection, Reading
<1>8. CASE /\ \E d \in {c} \cup (IF c.rh = "headers" THEN Done(c) ELSE {}) :
                connections' = [connections EXCEPT ![cur] = d]
           /\ pc' = "write"
           /\ UNCHANGED <<peer, interest, ready_list, free_connections, reusable_queue>>
  <2>1. PICK d \in {c} \cup Done(c) : connections' = [connections EXCEPT ![cur] = d]
    BY <1>8
  <2>2. /\ d \in Connection /\ d.fd = c.fd /\ d.in_queue = FALSE /\ d.reusable = c.reusable
        /\ d.rh \in Reading => d.wh = "empty"
        /\ d.wh \in {"empty", "request"}
    BY <1>1, <1>7
  <2> QED BY <1>1, <1>2, <1>3, <1>4, <1>5, <1>8, <2>1, <2>2, HandlerGoesOn
<1>9. CASE /\ connections' = [connections EXCEPT ![cur].ready = FALSE,
                                                 ![cur].reusable = @ \/ c.rh = "wait"]
           /\ reusable_queue' = IF c.rh = "wait" THEN Reusable(cur) ELSE reusable_queue
           /\ pc' = ret
           /\ UNCHANGED <<peer, interest, ready_list, free_connections>>
  <2> DEFINE b == c.reusable \/ c.rh = "wait"
             d == [c EXCEPT !.ready = FALSE, !.reusable = b]
  <2>1. b \in BOOLEAN /\ connections' = [connections EXCEPT ![cur] = d]
    BY <1>1, <1>9 DEF BaseInv, TypeOK, Connection
  <2>2. (c.rh = "wait" => b = TRUE) /\ (c.rh # "wait" => b = c.reusable)
    BY <1>1 DEF Connection
  <2> HIDE DEF b
  <2>3. /\ d \in Connection /\ d.fd = c.fd /\ d.in_queue = FALSE /\ d.reusable = b
        /\ d.rh = c.rh /\ d.wh = "empty"
    BY <1>1, <2>1 DEF Connection
  <2> HIDE DEF d
  <2> QED BY <1>1, <1>2, <1>3, <1>4, <1>5, <1>9, <2>1, <2>2, <2>3, HandlerGoesOn
<1>10. ASSUME NEW full \in BOOLEAN, Parse([c EXCEPT !.ready = c.eof \/ full], full)
       PROVE  BaseInv'
  <2> DEFINE b == c.eof \/ full
             d == [c EXCEPT !.ready = b]
  <2>1. b \in BOOLEAN
    BY <1>1 DEF Connection
  <2> HIDE DEF b
  <2>2. /\ d \in Connection /\ d.fd = k /\ d.in_queue = FALSE /\ d.reusable = c.reusable
        /\ d.rh = c.rh /\ d.wh = "empty"
    BY <1>1, <2>1 DEF Connection
  <2>3. Parse(d, full)
    BY <1>10 DEF b
  <2> HIDE DEF d
  <2>4. CASE CloseConnection(cur) /\ pc' = ret
    BY <2>4, <1>6
  <2>5. ASSUME NEW phase \in {"line", "headers"},
               LET r == [d EXCEPT !.rh = phase, !.data = "request", !.reusable = @ /\ d.rh # "wait"]
               IN \/ /\ connections' = [connections EXCEPT ![cur] = r]
                     /\ peer' = [peer EXCEPT ![d.fd].data = FALSE]
                     /\ pc' = IF r.ready THEN "read" ELSE ret
                  \/ /\ connections' = [connections EXCEPT ![cur] =
                          [r EXCEPT !.error = TRUE, !.ready = FALSE, !.eof = FALSE]]
                     /\ peer' = [peer EXCEPT ![d.fd].data = full]
                     /\ pc' = "write"
                  \/ /\ \E e \in Done(r) : connections' = [connections EXCEPT ![cur] = e]
                     /\ peer' = [peer EXCEPT ![d.fd].data = FALSE]
                     /\ pc' = "write",
               reusable_queue' = IF d.rh = "wait" THEN NotReusable(cur) ELSE reusable_queue,
               UNCHANGED <<interest, ready_list, free_connections>>
        PROVE  BaseInv'
    <3> DEFINE u == d.reusable /\ d.rh # "wait"
               r == [d EXCEPT !.rh = phase, !.data = "request", !.reusable = u]
               q == [r EXCEPT !.error = TRUE, !.ready = FALSE, !.eof = FALSE]
    <3>1. /\ u \in BOOLEAN
          /\ d.rh = "wait" => ~u
          /\ d.rh # "wait" => u = c.reusable
      BY <2>2 DEF Connection
    <3>2. /\ \/ connections' = [connections EXCEPT ![cur] = r] /\ pc' \in {"read", ret}
             \/ connections' = [connections EXCEPT ![cur] = q] /\ pc' = "write"
             \/ (\E e \in Done(r) : connections' = [connections EXCEPT ![cur] = e]) /\ pc' = "write"
          /\ \E x \in BOOLEAN : peer' = [peer EXCEPT ![k].data = x]
      BY <2>2, <2>5
    <3>3. /\ peer' \in [Client -> Peer] /\ \A j \in Client : peer'[j].at = peer[j].at
      BY <3>2, <1>1, BytesTaken DEF BaseInv
    <3> HIDE DEF u
    <3>4. /\ r \in Connection /\ r.fd = k /\ r.in_queue = FALSE /\ r.reusable = u
          /\ r.rh = phase /\ r.wh = "empty"
      BY <2>2, <2>5, <3>1 DEF Connection
    <3> HIDE DEF r
    <3>5. /\ q \in Connection /\ q.fd = k /\ q.in_queue = FALSE /\ q.reusable = u
          /\ q.rh = phase /\ q.wh = "empty"
      BY <3>4 DEF Connection
    <3> HIDE DEF q
    <3>6. phase \in Reading
      BY <2>5 DEF Reading
    <3>7. PICK e \in Connection :
            /\ connections' = [connections EXCEPT ![cur] = e]
            /\ e.fd = k /\ e.in_queue = FALSE /\ e.reusable = u
            /\ e.rh \in Reading => e.wh = "empty"
            /\ e.wh \in {"empty", "request"}
            /\ \/ pc' = ret
               \/ pc' = "read" /\ e.rh \in Reading
               \/ pc' = "write" /\ e.wh \in {"empty", "request"}
      <4>1. CASE connections' = [connections EXCEPT ![cur] = r] /\ pc' \in {"read", ret}
        BY <4>1, <3>4, <3>6
      <4>2. CASE connections' = [connections EXCEPT ![cur] = q] /\ pc' = "write"
        BY <4>2, <3>5
      <4>3. CASE (\E e \in Done(r) : connections' = [connections EXCEPT ![cur] = e]) /\ pc' = "write"
        BY <4>3, <3>4, <3>6, <1>7, ZenonT(60)
      <4> QED BY <3>2, <4>1, <4>2, <4>3
    <3>8. \/ reusable_queue' = reusable_queue /\ e.reusable = c.reusable
          \/ reusable_queue' = NotReusable(cur) /\ ~e.reusable
      BY <2>5, <3>1, <3>7
    <3>9. UNCHANGED <<interest, ready_list, free_connections>>
      BY <2>5
    <3> QED BY <1>1, <1>2, <1>3, <1>5, <3>3, <3>7, <3>8, <3>9, HandlerGoesOn
  <2> QED BY <2>3, <2>4, <2>5 DEF Parse
<1> QED BY <1>6, <1>8, <1>9, <1>10 DEF ReadRequest

(* ngx_handle_write_event.                                                 *)
LEMMA Rearmed ==
  ASSUME TypeOK, Announced, NEW s \in Slot, NEW k \in Client, peer[k].at = "open",
         Rearm(k, s), \A j \in Client : peer'[j].at = peer[j].at
  PROVE  /\ interest' \in [Client -> SUBSET {"IN", "OUT", "RDHUP"}] /\ ready_list' \subseteq Client
         /\ Announced'
<1>1. CASE UNCHANGED <<interest, ready_list>>
  BY <1>1 DEF TypeOK, Announced
<1>2. CASE /\ interest' = [interest EXCEPT ![k] = {"IN", "OUT", "RDHUP"}]
           /\ ready_list' \in {ready_list, ready_list \cup {k}}
  BY <1>2 DEF TypeOK, Announced
<1> QED BY <1>1, <1>2 DEF Rearm

(* A send takes the space of one socket.                                   *)
LEMMA SpaceTaken ==
  ASSUME TypeOK, NEW k \in Client, peer' = [peer EXCEPT ![k].room = FALSE]
  PROVE  /\ peer' \in [Client -> Peer]
         /\ \A j \in Client : peer'[j].at = peer[j].at /\ peer'[j].got = peer[j].got
<1>1. peer[k] \in Peer
  BY DEF TypeOK
<1> QED BY <1>1 DEF TypeOK, Peer

LEMMA WriteResponseBase == BaseInv /\ WriteResponse => BaseInv'
<1> SUFFICES ASSUME BaseInv, WriteResponse PROVE BaseInv'
  OBVIOUS
<1> DEFINE c == connections[cur]
           k == c.fd
<1>1. /\ pc = "write" /\ cur \in Slot /\ c \in Connection /\ k \in Client
      /\ c.wh \in {"empty", "request"}
      /\ c.in_queue = FALSE /\ peer[k].at = "open"
  BY DEF WriteResponse, BaseInv, TypeOK, InHand, Queued, Reading, Connection, PoolIsAccounted
<1>2. UNCHANGED <<accepting, ret, eventVars, walk, message_id, message_id_sent>>
  BY DEF WriteResponse
<1>3. CASE CloseConnection(cur) /\ pc' = ret /\ UNCHANGED <<pressure, channel_queue, seen>>
  BY <1>1, <1>2, <1>3, HandlerCloses DEF messageVars
<1>4. CASE /\ connections' = [connections EXCEPT ![cur] =
                [c EXCEPT !.rh = "frame", !.wh = "message", !.data = "wc", !.in_queue = TRUE]]
           /\ channel_queue' = Append(channel_queue, cur)
           /\ seen' = [seen EXCEPT ![cur] = message_id_sent]
           /\ pc' = ret
           /\ UNCHANGED <<peer, interest, ready_list, pressure, free_connections, reusable_queue>>
  <2> DEFINE r == [c EXCEPT !.rh = "frame", !.wh = "message", !.data = "wc", !.in_queue = TRUE]
  <2>1. /\ r \in Connection /\ r.fd = k /\ r.in_queue = TRUE /\ r.reusable = c.reusable
        /\ r.rh = "frame" /\ r.wh = "message" /\ r.data = "wc"
    BY <1>1 DEF Connection
  <2>2. connections' = [connections EXCEPT ![cur] = r]
    BY <1>4
  <2> HIDE DEF r
  <2>3. /\ connections' \in [Slot -> Connection] /\ connections'[cur] = r
        /\ \A t \in Slot : t # cur => connections'[t] = connections[t]
    BY <1>1, <2>1, <2>2 DEF BaseInv, TypeOK
  <2>4. PoolIsAccounted'
    BY <1>4, <2>1, <2>3, SameSockets DEF BaseInv
  <2>5. Linked'
    BY <1>4, <2>1, <2>3 DEF BaseInv, Linked
  <2>6. cur \notin ToSet(channel_queue)
    BY <1>1 DEF BaseInv, Queued
  <2>7. /\ channel_queue' \in Seq(Slot) /\ IsInjective(channel_queue')
        /\ ToSet(channel_queue') = ToSet(channel_queue) \cup {cur}
    BY <1>1, <1>4, <2>6, PushedBack DEF BaseInv, TypeOK, Queued
  <2>8. Queued'
    <3>1. \A t \in Slot : LET d == connections'[t]
                          IN /\ t \in ToSet(channel_queue') <=> d.in_queue
                             /\ d.in_queue => d.fd # None /\ d.data = "wc" /\ d.wh = "message" /\ d.rh = "frame"
                             /\ d.rh \in Reading => d.wh = "empty"
      <4> TAKE t \in Slot
      <4>1. CASE t = cur
        BY <4>1, <2>1, <2>3, <2>7, <1>1, ConnectionsAssumption DEF Reading
      <4>2. CASE t # cur
        BY <4>2, <2>3, <2>7 DEF BaseInv, Queued
      <4> QED BY <4>1, <4>2
    <3> QED BY <3>1, <2>7 DEF Queued
  <2>9. Announced'
    BY <1>4 DEF BaseInv, Announced
  <2>10. ret \in {"next", "write_half", "drain"}
    BY DEF BaseInv, TypeOK
  <2>11. seen' \in [Slot -> 0 .. MaxMessages]
    <3>1. message_id_sent \in 0 .. MaxMessages
      BY ConnectionsAssumption DEF BaseInv, TypeOK
    <3> QED BY <1>1, <1>4, <3>1 DEF BaseInv, TypeOK
  <2>12. TypeOK'
    BY <1>2, <1>4, <2>3, <2>7, <2>10, <2>11 DEF BaseInv, TypeOK, eventVars
  <2>13. InHand'
    BY <1>1, <1>2, <1>4, <2>10 DEF BaseInv, InHand, eventVars
  <2> QED BY <2>4, <2>5, <2>8, <2>9, <2>12, <2>13 DEF BaseInv
<1>5. CASE /\ (peer[k].room => pressure < MaxPressure)
           /\ pressure' = IF peer[k].room THEN pressure + 1 ELSE pressure
           /\ connections' = [connections EXCEPT ![cur].reusable = TRUE, ![cur].wactive = TRUE]
           /\ reusable_queue' = Reusable(cur)
           /\ peer' = [peer EXCEPT ![k].room = FALSE]
           /\ Rearm(k, cur)
           /\ pc' = ret
           /\ UNCHANGED <<free_connections, channel_queue, seen>>
  <2> DEFINE r == [c EXCEPT !.reusable = TRUE, !.wactive = TRUE]
  <2>1. /\ r \in Connection /\ r.fd = k /\ r.in_queue = FALSE /\ r.reusable = TRUE
        /\ r.rh = c.rh /\ r.wh = c.wh
    BY <1>1 DEF Connection
  <2>2. connections' = [connections EXCEPT ![cur] = r]
    BY <1>1, <1>5 DEF BaseInv, TypeOK
  <2>3. r.rh \in Reading => r.wh = "empty"
    BY <1>1, <2>1 DEF BaseInv, Queued
  <2> HIDE DEF r
  <2>4. peer' \in [Client -> Peer] /\ \A j \in Client : peer'[j].at = peer[j].at
    BY <1>1, <1>5, SpaceTaken DEF BaseInv
  <2>5. /\ interest' \in [Client -> SUBSET {"IN", "OUT", "RDHUP"}] /\ ready_list' \subseteq Client
        /\ Announced'
    BY <1>1, <1>5, <2>4, Rearmed DEF BaseInv
  <2>6. pressure' \in 0 .. MaxPressure
    BY <1>5, ConnectionsAssumption DEF BaseInv, TypeOK
  <2>7. UNCHANGED messageVars
    BY <1>2, <1>5 DEF messageVars
  <2> QED BY <1>1, <1>2, <1>5, <2>1, <2>2, <2>3, <2>4, <2>5, <2>6, <2>7, HandlerGoesOn
<1>6. CASE pc' = "overflow" /\ UNCHANGED <<peer, interest, ready_list, pressure, poolVars, seen>>
  <2>1. PoolIsAccounted' /\ Linked' /\ Queued'
    BY <1>6, SamePool
  <2>2. TypeOK'
    BY <1>2, <1>6 DEF BaseInv, TypeOK, poolVars, eventVars
  <2>3. Announced' /\ InHand'
    BY <1>2, <1>6 DEF BaseInv, Announced, InHand, eventVars
  <2> QED BY <2>1, <2>2, <2>3 DEF BaseInv
<1> QED BY <1>3, <1>4, <1>5, <1>6 DEF WriteResponse

(* A websocket leaves the queue of the channel and stays open.             *)
LEMMA LeavesQueue ==
  ASSUME BaseInv, NEW s \in Slot, connections[s].in_queue, NEW r \in Connection,
         connections' = [connections EXCEPT ![s] = r],
         r.fd = connections[s].fd, r.in_queue = FALSE, r.rh = "frame",
         channel_queue' = Unlink(channel_queue, s), free_connections' = free_connections,
         \/ reusable_queue' = reusable_queue /\ r.reusable = connections[s].reusable
         \/ reusable_queue' = Reusable(s) /\ r.reusable,
         \A k \in Client : peer'[k].at = peer[k].at
  PROVE  /\ connections' \in [Slot -> Connection] /\ reusable_queue' \in Seq(Slot)
         /\ channel_queue' \in Seq(Slot) /\ ToSet(channel_queue') = ToSet(channel_queue) \ {s}
         /\ PoolIsAccounted' /\ Linked' /\ Queued'
<1>1. /\ connections' \in [Slot -> Connection] /\ connections'[s] = r
      /\ \A t \in Slot : t # s => connections'[t] = connections[t]
  BY DEF BaseInv, TypeOK
<1>2. s \in ToSet(channel_queue) /\ connections[s].fd # None
  BY DEF BaseInv, Queued
<1>3. /\ channel_queue' \in Seq(Slot) /\ IsInjective(channel_queue')
      /\ ToSet(channel_queue') = ToSet(channel_queue) \ {s}
  BY <1>2, Unlinked DEF BaseInv, TypeOK, Queued
<1>4. PoolIsAccounted'
  BY <1>1, SameSockets DEF BaseInv
<1>5. reusable_queue' \in Seq(Slot)
  BY Relinked DEF BaseInv, TypeOK
<1>6. Linked'
  <2>1. CASE reusable_queue' = reusable_queue /\ r.reusable = connections[s].reusable
    BY <2>1, <1>1 DEF BaseInv, Linked
  <2>2. CASE reusable_queue' = Reusable(s) /\ r.reusable
    BY <2>2, <1>1, <1>2, Relinked DEF BaseInv, Linked
  <2> QED BY <2>1, <2>2
<1>7. Queued'
  BY <1>1, <1>3 DEF BaseInv, Queued, Reading
<1> QED BY <1>1, <1>3, <1>4, <1>5, <1>6, <1>7

(* What the delivery finds at the head of its walk.                        *)
LEMMA WalkedIsLive ==
  ASSUME BaseInv, pc = "walk", walk # <<>>
  PROVE  LET s == Head(walk)
             c == connections[s]
         IN /\ s \in Slot /\ c \in Connection /\ c.fd \in Client /\ c.in_queue = TRUE
            /\ c.rh = "frame" /\ c.wh = "message" /\ c.data = "wc" /\ peer[c.fd].at = "open"
            /\ Tail(walk) \in Seq(Slot) /\ IsInjective(Tail(walk))
            /\ ToSet(walk) = ToSet(Tail(walk)) \cup {s} /\ s \notin ToSet(Tail(walk))
            /\ ToSet(Tail(walk)) \subseteq ToSet(channel_queue) \ {s}
<1> DEFINE s == Head(walk)
<1>1. walk \in Seq(Slot) /\ IsInjective(walk) /\ ToSet(walk) \subseteq ToSet(channel_queue)
  BY DEF BaseInv, TypeOK, InHand
<1>2. /\ s \in Slot /\ Tail(walk) \in Seq(Slot) /\ IsInjective(Tail(walk))
      /\ ToSet(walk) = ToSet(Tail(walk)) \cup {s} /\ s \notin ToSet(Tail(walk))
  BY <1>1, PoppedFront
<1>3. s \in ToSet(channel_queue) /\ connections[s] \in Connection
  BY <1>1, <1>2 DEF BaseInv, TypeOK
<1>4. connections[s].in_queue = TRUE /\ connections[s].fd \in Client
  BY <1>2, <1>3 DEF BaseInv, Queued, Connection
<1> QED BY <1>1, <1>2, <1>3, <1>4 DEF BaseInv, Queued, PoolIsAccounted

LEMMA WalkBase == BaseInv /\ Walk => BaseInv'
<1> SUFFICES ASSUME BaseInv, Walk PROVE BaseInv'
  OBVIOUS
<1>1. pc = "walk" /\ UNCHANGED <<pressure, accepting, ret, eventVars, message_id>>
  BY DEF Walk
<1>2. CASE walk = <<>>
  <2>1. /\ message_id_sent' = message_id_sent + 1 /\ pc' = "next"
        /\ UNCHANGED <<peer, interest, ready_list, poolVars, walk, seen>>
    BY <1>2 DEF Walk
  <2>2. message_id_sent < message_id
    BY <1>1 DEF BaseInv, InHand
  <2>3. message_id_sent' \in 0 .. message_id'
    BY <1>1, <2>1, <2>2, ConnectionsAssumption DEF BaseInv, TypeOK
  <2>4. TypeOK'
    BY <1>1, <2>1, <2>3 DEF BaseInv, TypeOK, poolVars, eventVars
  <2>5. PoolIsAccounted' /\ Linked' /\ Queued'
    BY <2>1, SamePool
  <2>6. Announced' /\ InHand'
    BY <1>1, <2>1 DEF BaseInv, Announced, InHand
  <2> QED BY <2>4, <2>5, <2>6 DEF BaseInv
<1>3. CASE walk # <<>>
  <2> DEFINE s == Head(walk)
             c == connections[s]
             k == c.fd
  <2>1. /\ s \in Slot /\ c \in Connection /\ k \in Client /\ c.in_queue = TRUE
        /\ c.rh = "frame" /\ c.wh = "message" /\ c.data = "wc" /\ peer[k].at = "open"
        /\ Tail(walk) \in Seq(Slot) /\ IsInjective(Tail(walk))
        /\ ToSet(Tail(walk)) \subseteq ToSet(channel_queue) \ {s}
    BY <1>1, <1>3, WalkedIsLive
  <2> HIDE DEF s
  <2>2. walk' = Tail(walk) /\ UNCHANGED <<message_id_sent, pc>>
    BY <1>3 DEF Walk
  <2>3. ASSUME /\ connections' \in [Slot -> Connection]
               /\ peer' \in [Client -> Peer] /\ interest' \in [Client -> SUBSET {"IN", "OUT", "RDHUP"}]
               /\ ready_list' \subseteq Client
               /\ free_connections' \in Seq(Slot) /\ reusable_queue' \in Seq(Slot)
               /\ channel_queue' \in Seq(Slot) /\ ToSet(channel_queue) \ {s} \subseteq ToSet(channel_queue')
               /\ seen' \in [Slot -> 0 .. MaxMessages],
               PoolIsAccounted', Announced', Linked', Queued'
        PROVE  BaseInv'
    <3>1. TypeOK'
      BY <1>1, <2>1, <2>2, <2>3 DEF BaseInv, TypeOK, eventVars
    <3>2. InHand'
      BY <1>1, <2>1, <2>2, <2>3 DEF BaseInv, InHand, eventVars
    <3> QED BY <2>3, <3>1, <3>2 DEF BaseInv
  <2>4. CASE SendWhole(s, k)
    <3>1. UNCHANGED <<peer, interest, ready_list, poolVars>>
      BY <2>4 DEF SendWhole
    <3>2. PoolIsAccounted' /\ Linked' /\ Queued'
      BY <3>1, SamePool
    <3>3. message_id_sent + 1 \in 0 .. MaxMessages
      BY <1>1, ConnectionsAssumption DEF BaseInv, TypeOK, InHand
    <3>4. seen' \in [Slot -> 0 .. MaxMessages]
      BY <2>1, <2>4, <3>3 DEF SendWhole, BaseInv, TypeOK
    <3>5. Announced'
      BY <3>1 DEF BaseInv, Announced
    <3> QED BY <2>3, <3>1, <3>2, <3>4, <3>5 DEF BaseInv, TypeOK, poolVars
  <2>5. CASE SendPart(s, k)
    <3> DEFINE r == [c EXCEPT !.wactive = TRUE, !.in_queue = FALSE]
    <3>1. /\ r \in Connection /\ r.fd = k /\ r.in_queue = FALSE /\ r.reusable = c.reusable
          /\ r.rh = "frame"
      BY <2>1 DEF Connection
    <3>2. connections' = [connections EXCEPT ![s] = r]
      BY <2>1, <2>5 DEF SendPart, BaseInv, TypeOK
    <3> HIDE DEF r
    <3>3. peer' \in [Client -> Peer] /\ \A j \in Client : peer'[j].at = peer[j].at
      <4>1. peer[k] \in Peer /\ peer' = [peer EXCEPT ![k].room = FALSE, ![k].got = "cut"]
        BY <2>1, <2>5 DEF SendPart, BaseInv, TypeOK
      <4> QED BY <2>1, <4>1 DEF BaseInv, TypeOK, Peer
    <3>4. /\ channel_queue' = Unlink(channel_queue, s) /\ Rearm(k, s)
          /\ UNCHANGED <<free_connections, reusable_queue, seen>>
      BY <2>5 DEF SendPart
    <3>5. /\ interest' \in [Client -> SUBSET {"IN", "OUT", "RDHUP"}] /\ ready_list' \subseteq Client
          /\ Announced'
      BY <2>1, <3>3, <3>4, Rearmed DEF BaseInv
    <3>6. /\ connections' \in [Slot -> Connection] /\ reusable_queue' \in Seq(Slot)
          /\ channel_queue' \in Seq(Slot) /\ ToSet(channel_queue') = ToSet(channel_queue) \ {s}
          /\ PoolIsAccounted' /\ Linked' /\ Queued'
      BY <2>1, <3>1, <3>2, <3>3, <3>4, LeavesQueue
    <3> QED BY <2>3, <3>3, <3>4, <3>5, <3>6 DEF BaseInv, TypeOK
  <2>6. CASE SendNothing(s, k)
    <3> DEFINE r == [c EXCEPT !.wactive = TRUE, !.in_queue = FALSE, !.reusable = TRUE]
    <3>1. /\ r \in Connection /\ r.fd = k /\ r.in_queue = FALSE /\ r.reusable = TRUE
          /\ r.rh = "frame"
      BY <2>1 DEF Connection
    <3>2. connections' = [connections EXCEPT ![s] = r]
      BY <2>1, <2>6 DEF SendNothing, BaseInv, TypeOK
    <3> HIDE DEF r
    <3>3. peer' \in [Client -> Peer] /\ \A j \in Client : peer'[j].at = peer[j].at
      BY <2>1, <2>6, SpaceTaken DEF SendNothing, BaseInv
    <3>4. /\ channel_queue' = Unlink(channel_queue, s) /\ Rearm(k, s)
          /\ reusable_queue' = Reusable(s) /\ UNCHANGED <<free_connections, seen>>
      BY <2>6 DEF SendNothing
    <3>5. /\ interest' \in [Client -> SUBSET {"IN", "OUT", "RDHUP"}] /\ ready_list' \subseteq Client
          /\ Announced'
      BY <2>1, <3>3, <3>4, Rearmed DEF BaseInv
    <3>6. /\ connections' \in [Slot -> Connection] /\ reusable_queue' \in Seq(Slot)
          /\ channel_queue' \in Seq(Slot) /\ ToSet(channel_queue') = ToSet(channel_queue) \ {s}
          /\ PoolIsAccounted' /\ Linked' /\ Queued'
      BY <2>1, <3>1, <3>2, <3>3, <3>4, LeavesQueue
    <3> QED BY <2>3, <3>3, <3>4, <3>5, <3>6 DEF BaseInv, TypeOK
  <2>7. CASE SendError(s, k)
    <3>1. /\ CloseConnection(s) /\ channel_queue' = Unlink(channel_queue, s) /\ UNCHANGED seen
      BY <2>1, <2>7 DEF SendError
    <3>2. k # None
      BY <2>1, ConnectionsAssumption
    <3>3. /\ connections' \in [Slot -> Connection]
          /\ peer' \in [Client -> Peer] /\ interest' \in [Client -> SUBSET {"IN", "OUT", "RDHUP"}]
          /\ ready_list' \subseteq Client
          /\ free_connections' \in Seq(Slot) /\ reusable_queue' \in Seq(Slot)
          /\ PoolIsAccounted' /\ Announced' /\ Linked'
          /\ \A t \in Slot : t # s => connections'[t] = connections[t]
          /\ connections'[s].rh = "none" /\ ~connections'[s].in_queue
      BY <2>1, <3>1, <3>2, Closes DEF BaseInv
    <3>4. /\ channel_queue' \in Seq(Slot) /\ IsInjective(channel_queue')
          /\ ToSet(channel_queue') = ToSet(channel_queue) \ {s}
      BY <2>1, <3>1, Unlinked DEF BaseInv, TypeOK, Queued
    <3>5. Queued'
      BY <3>3, <3>4 DEF BaseInv, Queued, Reading
    <3> QED BY <2>3, <3>1, <3>3, <3>4, <3>5 DEF BaseInv, TypeOK
  <2> QED BY <1>3, <2>4, <2>5, <2>6, <2>7 DEF Walk, s
<1> QED BY <1>2, <1>3

LEMMA StepBase == BaseInv /\ [Next]_vars => BaseInv'
<1> SUFFICES ASSUME BaseInv, [Next]_vars PROVE BaseInv'
  OBVIOUS
<1>1. CASE Next
  BY <1>1, ClientsBase, EpollWaitBase, TakeEventBase, WriteHalfBase, AcceptBase, DrainBase,
     TakeBase, ReadRequestBase, WriteResponseBase, ScanBase, WalkBase DEF Next, Worker
<1>2. CASE UNCHANGED vars
  <2>1. UNCHANGED <<kernelVars, poolVars, pc, ret, eventVars, messageVars>>
    BY <1>2 DEF vars
  <2>2. PoolIsAccounted' /\ Linked' /\ Queued'
    BY <2>1, SamePool DEF kernelVars
  <2>3. TypeOK'
    BY <2>1 DEF BaseInv, TypeOK, kernelVars, poolVars, eventVars, messageVars
  <2>4. Announced' /\ InHand'
    BY <2>1 DEF BaseInv, Announced, InHand, kernelVars, poolVars, eventVars, messageVars
  <2> QED BY <2>2, <2>3, <2>4 DEF BaseInv
<1> QED BY <1>1, <1>2

(* The inductive invariant: the pool, its queues and what the worker is    *)
(* at agree between any two calls of the worker.                           *)
THEOREM InvariantHolds == Spec => []BaseInv
<1>1. Init => BaseInv
  BY InitBase
<1> QED BY <1>1, StepBase, PTL DEF Spec

(* Every variable has its type: no call of the worker leaves a connection, *)
(* a queue or the free list with something else in it.                     *)
THEOREM TypeCorrect == Spec => []TypeOK
<1>1. BaseInv => TypeOK
  BY DEF BaseInv
<1> QED BY <1>1, InvariantHolds, PTL

(* No slot is freed twice, forgotten, or given to two sockets              *)
(* (ngx_get_connection, ngx_free_connection, ngx_close_connection).        *)
THEOREM PoolStaysAccounted == Spec => []PoolIsAccounted
<1>1. BaseInv => PoolIsAccounted
  BY DEF BaseInv
<1> QED BY <1>1, InvariantHolds, PTL

(* The queues hold open connections of the right kind, each once           *)
(* (ngx_reusable_connection, ngx_websocket_close_connection).              *)
THEOREM QueuesStayLive == Spec => []QueuesHoldLiveConnections
<1>1. BaseInv => QueuesHoldLiveConnections
  BY DEF BaseInv, Linked, Queued, QueuesHoldLiveConnections
<1> QED BY <1>1, InvariantHolds, PTL

-------------------------------------------------------------------------------
(* Most steps neither send a message nor give a connection a place in the  *)
(* queue of the channel.                                                   *)

PeersQuiet ==
  \A k \in Client :
    /\ peer'[k].got = peer[k].got \/ peer'[k].at = "done"
    /\ peer'[k].at \in {"new", "backlog", "accepted"} => peer[k].at \in {"new", "backlog", "accepted"}

StaysQuiet(c, d) ==
  d.fd # None => d.fd = c.fd /\ (d.in_queue => c.in_queue) /\ (d.wh # "message" => c.wh # "message")

Quiet ==
  /\ PeersQuiet
  /\ \A s \in Slot : StaysQuiet(connections[s], connections'[s])
  /\ UNCHANGED <<walk, message_id_sent, seen>>
  /\ pc' = "walk" <=> pc = "walk"

(* A quiet step keeps both properties.                                     *)
LEMMA QuietStep ==
  ASSUME BaseInv, BaseInv', Whole, SubscribersInStep, Quiet
  PROVE  Whole' /\ SubscribersInStep'
<1>1. \A k \in Client : peer'[k].at \in {"new", "backlog", "accepted"} => peer'[k].got = "whole"
  BY DEF Whole, Quiet, PeersQuiet
<1>2. ASSUME NEW s \in Slot, connections'[s].fd # None,
             connections'[s].wh # "message" \/ connections'[s].in_queue
      PROVE  peer'[connections'[s].fd].got = "whole"
  <2>1. connections'[s].fd \in Client /\ peer'[connections'[s].fd].at = "open"
    BY <1>2, SMTT(30) DEF BaseInv, TypeOK, Connection, PoolIsAccounted
  <2>2. connections'[s].fd = connections[s].fd /\ (connections[s].wh # "message" \/ connections[s].in_queue)
    BY <1>2 DEF Quiet, StaysQuiet
  <2>3. peer[connections[s].fd].got = "whole"
    BY <1>2, <2>2 DEF Whole
  <2> QED BY <2>1, <2>2, <2>3 DEF Quiet, PeersQuiet
<1>3. SubscribersInStep'
  <2>1. \A s \in Slot : connections'[s].in_queue => connections[s].in_queue
    BY DEF Quiet, StaysQuiet, BaseInv, Queued
  <2> QED BY <2>1 DEF Quiet, SubscribersInStep
<1> QED BY <1>1, <1>2, <1>3 DEF Whole

LEMMA SamePeers ==
  ASSUME \A k \in Client : peer'[k].at = peer[k].at /\ peer'[k].got = peer[k].got
  PROVE  PeersQuiet
BY DEF PeersQuiet

LEMMA SameConnections ==
  ASSUME connections' = connections
  PROVE  \A s \in Slot : StaysQuiet(connections[s], connections'[s])
BY DEF StaysQuiet

LEMMA OneConnection ==
  ASSUME TypeOK, NEW s \in Slot, NEW r, StaysQuiet(connections[s], r),
         connections' = [connections EXCEPT ![s] = r]
  PROVE  \A t \in Slot : StaysQuiet(connections[t], connections'[t])
BY DEF TypeOK, StaysQuiet

(* A socket that is closed takes its connection out of the account.        *)
LEMMA ClosedSocket ==
  ASSUME TypeOK, NEW k \in Client, peer' = [peer EXCEPT ![k] = DonePeer]
  PROVE  PeersQuiet
<1>1. DonePeer.at = "done"
  BY DEF DonePeer, NewPeer
<1> QED BY <1>1 DEF TypeOK, PeersQuiet

LEMMA ClosedQuietly ==
  ASSUME TypeOK, NEW s \in Slot, connections[s].fd # None, CloseConnection(s)
  PROVE  PeersQuiet /\ \A t \in Slot : StaysQuiet(connections[t], connections'[t])
<1> DEFINE r == ClosedConnection(connections[s].instance)
<1>1. connections[s].fd \in Client
  BY DEF TypeOK, Connection
<1>2. r.fd = None
  BY DEF ClosedConnection
<1>3. StaysQuiet(connections[s], r)
  BY <1>2 DEF StaysQuiet
<1>4. connections' = [connections EXCEPT ![s] = r]
  BY DEF CloseConnection
<1> HIDE DEF r
<1>5. peer' = [peer EXCEPT ![connections[s].fd] = DonePeer]
  BY DEF CloseConnection, CloseSocket
<1> QED BY <1>1, <1>3, <1>4, <1>5, OneConnection, ClosedSocket

-------------------------------------------------------------------------------
(* The quiet actions.                                                      *)

LEMMA ClientsQuiet == BaseInv /\ Clients => Quiet
<1> SUFFICES ASSUME BaseInv, Clients PROVE Quiet
  OBVIOUS
<1>1. CASE Publish
  BY <1>1, SamePeers, SameConnections DEF Publish, Quiet, kernelVars, poolVars
<1>2. ASSUME NEW k \in Client,
             Connect(k) \/ Arrive(k) \/ Leave(k, "fin") \/ Leave(k, "rst") \/ Drained(k),
             UNCHANGED <<pressure, accepting, poolVars, pc, ret, eventVars, messageVars>>
      PROVE  Quiet
  <2>1. PeersQuiet
    <3>0. peer \in [Client -> Peer] /\ peer[k] \in Peer
      BY DEF BaseInv, TypeOK
    <3>1. CASE Connect(k)
      BY <3>0, <3>1 DEF Connect, Peer, PeersQuiet
    <3>2. CASE Arrive(k)
      BY <3>0, <3>2 DEF Arrive, Peer, PeersQuiet
    <3>3. CASE Leave(k, "fin") \/ Leave(k, "rst")
      BY <3>0, <3>3 DEF Leave, Peer, PeersQuiet
    <3>4. CASE Drained(k)
      BY <3>0, <3>4 DEF Drained, Peer, PeersQuiet
    <3> QED BY <1>2, <3>1, <3>2, <3>3, <3>4
  <2> QED BY <1>2, <2>1, SameConnections DEF Quiet, poolVars, messageVars
<1> QED BY <1>1, <1>2 DEF Clients

LEMMA EpollWaitQuiet == BaseInv /\ EpollWait => Quiet
  BY SamePeers, SameConnections DEF EpollWait, Quiet, poolVars, messageVars

LEMMA TakeEventQuiet == BaseInv /\ TakeEvent => Quiet
<1> SUFFICES ASSUME BaseInv, TakeEvent PROVE Quiet
  OBVIOUS
<1>1. PeersQuiet /\ UNCHANGED <<walk, message_id_sent, seen>>
  BY SamePeers DEF TakeEvent, kernelVars, messageVars
<1>2. pc' # "walk" /\ pc # "walk"
  BY DEF TakeEvent, BaseInv, TypeOK
<1>3. \A s \in Slot : StaysQuiet(connections[s], connections'[s])
  <2>1. CASE connections' = connections
    BY <2>1, SameConnections
  <2>2. ASSUME NEW e \in event_list, ~Stale(e), e.slot # 0,
               connections' = [connections EXCEPT ![e.slot].ready = ~connections[e.slot].error,
                                                  ![e.slot].eof = ~connections[e.slot].error /\ e.eof]
        PROVE  <1>3!:
    <3> DEFINE a == ~connections[e.slot].error
               b == ~connections[e.slot].error /\ e.eof
               r == [connections[e.slot] EXCEPT !.ready = a, !.eof = b]
    <3>1. e.slot \in Slot
      BY <2>2, ConnectionsAssumption DEF BaseInv, TypeOK, Event, Slot
    <3>2. connections' = [connections EXCEPT ![e.slot] = r]
      BY <2>2, <3>1 DEF BaseInv, TypeOK
    <3> HIDE DEF a, b
    <3>3. StaysQuiet(connections[e.slot], r)
      BY <3>1 DEF StaysQuiet, BaseInv, TypeOK, Connection
    <3> HIDE DEF r
    <3> QED BY <3>1, <3>2, <3>3, OneConnection DEF BaseInv
  <2> QED BY <2>1, <2>2 DEF TakeEvent
<1> QED BY <1>1, <1>2, <1>3 DEF Quiet

LEMMA WriteHalfQuiet == BaseInv /\ WriteHalf => Quiet
<1> SUFFICES ASSUME BaseInv, WriteHalf PROVE Quiet
  OBVIOUS
<1> DEFINE r == [connections[cur] EXCEPT !.data = "freed"]
<1>1. PeersQuiet /\ UNCHANGED <<walk, message_id_sent, seen>>
  BY SamePeers DEF WriteHalf, kernelVars, messageVars
<1>2. pc' # "walk" /\ pc # "walk"
  BY DEF WriteHalf
<1>3. cur \in Slot /\ StaysQuiet(connections[cur], r)
  BY DEF StaysQuiet, BaseInv, TypeOK, Connection
<1>4. connections' = connections \/ connections' = [connections EXCEPT ![cur] = r]
  BY DEF WriteHalf
<1> HIDE DEF r
<1>5. \A s \in Slot : StaysQuiet(connections[s], connections'[s])
  BY <1>3, <1>4, SameConnections, OneConnection DEF BaseInv
<1> QED BY <1>1, <1>2, <1>5 DEF Quiet

LEMMA AcceptQuiet == BaseInv /\ Accept => Quiet
<1> SUFFICES ASSUME BaseInv, Accept PROVE Quiet
  OBVIOUS
<1>1. \/ peer' = peer
      \/ \E k \in Client : peer' = [peer EXCEPT ![k] = DonePeer]
      \/ \E k \in Client : peer[k].at = "backlog" /\ peer' = [peer EXCEPT ![k].at = "accepted"]
  BY DEF Accept, Backlog
<1>2. ASSUME NEW k \in Client, peer[k].at = "backlog", peer' = [peer EXCEPT ![k].at = "accepted"]
      PROVE  PeersQuiet
  BY <1>2 DEF BaseInv, TypeOK, Peer, PeersQuiet
<1>3. PeersQuiet
  BY <1>1, <1>2, SamePeers, ClosedSocket DEF BaseInv
<1>4. UNCHANGED <<connections, walk, message_id_sent, seen>>
  BY DEF Accept, poolVars, messageVars
<1>5. pc' # "walk" /\ pc # "walk"
  BY DEF Accept
<1> QED BY <1>3, <1>4, <1>5, SameConnections DEF Quiet

LEMMA DrainQuiet == BaseInv /\ Drain => Quiet
<1> SUFFICES ASSUME BaseInv, Drain PROVE Quiet
  OBVIOUS
<1> DEFINE s == Last(reusable_queue)
           r == [connections[s] EXCEPT !.close = TRUE]
<1>1. UNCHANGED <<walk, message_id_sent, seen>> /\ pc = "drain" /\ pc' \in {"drain", "take", "read"}
  BY DEF Drain, messageVars
<1>2. CASE UNCHANGED <<kernelVars, poolVars>>
  BY <1>1, <1>2, SamePeers, SameConnections DEF Quiet, kernelVars, poolVars
<1>3. CASE ~(left = 0 \/ reusable_queue = <<>>)
  <2>1. s \in Slot /\ connections[s].fd # None /\ connections[s] \in Connection
    BY <1>3, LastIsIn DEF BaseInv, TypeOK, Linked
  <2>2. CASE CloseConnection(s)
    BY <1>1, <2>1, <2>2, ClosedQuietly DEF BaseInv, Quiet
  <2>3. CASE connections' = [connections EXCEPT ![s] = r] /\ UNCHANGED kernelVars
    <3>1. StaysQuiet(connections[s], r)
      BY <2>1 DEF StaysQuiet, Connection
    <3> HIDE DEF r
    <3> QED BY <1>1, <2>1, <2>3, <3>1, SamePeers, OneConnection DEF BaseInv, Quiet, kernelVars
  <2> QED BY <1>3, <2>2, <2>3 DEF Drain
<1> QED BY <1>2, <1>3 DEF Drain

LEMMA ReadRequestQuiet == BaseInv /\ ReadRequest => Quiet
<1> SUFFICES ASSUME BaseInv, ReadRequest PROVE Quiet
  OBVIOUS
<1> DEFINE c == connections[cur]
           k == c.fd
<1>1. cur \in Slot /\ c \in Connection /\ k \in Client /\ c.fd # None /\ c.wh = "empty"
  BY DEF ReadRequest, BaseInv, TypeOK, InHand, Queued, Connection
<1>2. UNCHANGED <<walk, message_id_sent, seen>>
  BY DEF ReadRequest, messageVars
<1>3. pc # "walk" /\ pc' # "walk"
  BY DEF ReadRequest, Parse, BaseInv, TypeOK
<1>4. CASE CloseConnection(cur)
  BY <1>1, <1>2, <1>3, <1>4, ClosedQuietly DEF BaseInv, Quiet
<1>5. ASSUME NEW r, r.fd = k, ~r.in_queue \/ r.in_queue = c.in_queue,
             connections' = [connections EXCEPT ![cur] = r],
             peer' = peer \/ \E x \in BOOLEAN : peer' = [peer EXCEPT ![k].data = x]
      PROVE  Quiet
  <2>1. StaysQuiet(c, r)
    BY <1>1, <1>5 DEF StaysQuiet
  <2>2. PeersQuiet
    BY <1>1, <1>5, BytesTaken, SamePeers DEF BaseInv
  <2> QED BY <1>1, <1>2, <1>3, <1>5, <2>1, <2>2, OneConnection DEF BaseInv, Quiet
<1>6. ASSUME NEW d, d.fd = k, d.in_queue = c.in_queue, NEW e \in Done(d), d \in Connection
      PROVE  e.fd = k /\ e.in_queue = c.in_queue
  <2>1. PICK upgrade \in BOOLEAN :
          e = [d EXCEPT !.rh = "empty", !.wh = "request", !.ready = FALSE, !.eof = FALSE,
                        !.error = @ \/ ~upgrade]
    BY <1>6 DEF Done
  <2> DEFINE b == d.error \/ ~upgrade
  <2>2. e = [d EXCEPT !.rh = "empty", !.wh = "request", !.ready = FALSE, !.eof = FALSE, !.error = b]
    BY <2>1
  <2> HIDE DEF b
  <2> QED BY <1>6, <2>2 DEF Connection
<1>7. CASE /\ \E d \in {c} \cup (IF c.rh = "headers" THEN Done(c) ELSE {}) :
                connections' = [connections EXCEPT ![cur] = d]
           /\ UNCHANGED peer
  <2>1. PICK d \in {c} \cup Done(c) : connections' = [connections EXCEPT ![cur] = d]
    BY <1>7
  <2> QED BY <1>1, <1>5, <1>6, <1>7, <2>1
<1>8. CASE connections' = [connections EXCEPT ![cur].ready = FALSE,
                                              ![cur].reusable = @ \/ c.rh = "wait"] /\ UNCHANGED peer
  <2> DEFINE b == c.reusable \/ c.rh = "wait"
             d == [c EXCEPT !.ready = FALSE, !.reusable = b]
  <2>1. connections' = [connections EXCEPT ![cur] = d]
    BY <1>1, <1>8 DEF BaseInv, TypeOK
  <2> HIDE DEF b
  <2>2. d.fd = k /\ d.in_queue = c.in_queue
    BY <1>1 DEF Connection
  <2> HIDE DEF d
  <2> QED BY <1>5, <1>8, <2>1, <2>2
<1>9. ASSUME NEW full \in BOOLEAN, Parse([c EXCEPT !.ready = c.eof \/ full], full)
      PROVE  Quiet
  <2> DEFINE b == c.eof \/ full
             d == [c EXCEPT !.ready = b]
  <2>1. b \in BOOLEAN
    BY <1>1 DEF Connection
  <2> HIDE DEF b
  <2>2. d \in Connection /\ d.fd = k /\ d.in_queue = c.in_queue
    BY <1>1, <2>1 DEF Connection
  <2>3. Parse(d, full)
    BY <1>9 DEF b
  <2> HIDE DEF d
  <2>4. ASSUME NEW phase \in {"line", "headers"},
               LET r == [d EXCEPT !.rh = phase, !.data = "request", !.reusable = @ /\ d.rh # "wait"]
               IN \/ /\ connections' = [connections EXCEPT ![cur] = r]
                     /\ peer' = [peer EXCEPT ![d.fd].data = FALSE]
                  \/ /\ connections' = [connections EXCEPT ![cur] =
                          [r EXCEPT !.error = TRUE, !.ready = FALSE, !.eof = FALSE]]
                     /\ peer' = [peer EXCEPT ![d.fd].data = full]
                  \/ /\ \E e \in Done(r) : connections' = [connections EXCEPT ![cur] = e]
                     /\ peer' = [peer EXCEPT ![d.fd].data = FALSE]
        PROVE  Quiet
    <3> DEFINE u == d.reusable /\ d.rh # "wait"
               r == [d EXCEPT !.rh = phase, !.data = "request", !.reusable = u]
               q == [r EXCEPT !.error = TRUE, !.ready = FALSE, !.eof = FALSE]
    <3>1. u \in BOOLEAN
      BY <2>2 DEF Connection
    <3>2. /\ \/ connections' = [connections EXCEPT ![cur] = r]
             \/ connections' = [connections EXCEPT ![cur] = q]
             \/ \E e \in Done(r) : connections' = [connections EXCEPT ![cur] = e]
          /\ \E x \in BOOLEAN : peer' = [peer EXCEPT ![k].data = x]
      BY <2>2, <2>4
    <3> HIDE DEF u
    <3>3. r \in Connection /\ r.fd = k /\ r.in_queue = c.in_queue
      BY <2>2, <2>4, <3>1 DEF Connection
    <3> HIDE DEF r
    <3>4. q.fd = k /\ q.in_queue = c.in_queue
      BY <3>3 DEF Connection
    <3> HIDE DEF q
    <3> QED BY <1>5, <1>6, <3>2, <3>3, <3>4
  <2> QED BY <1>4, <2>3, <2>4 DEF Parse
<1> QED BY <1>4, <1>7, <1>8, <1>9 DEF ReadRequest

-------------------------------------------------------------------------------
(* The actions that are not quiet: a newcomer, a 101, and the delivery.    *)

(* A newcomer has been sent nothing, and is in no queue.                   *)
LEMMA TakeDelivery ==
  ASSUME BaseInv, BaseInv', Whole, SubscribersInStep, Take
  PROVE  Whole' /\ SubscribersInStep'
<1> DEFINE k == newcomer
           s == Head(free_connections)
           i == 1 - connections[s].instance
<1>1. /\ k \in Client /\ peer[k].at = "accepted" /\ peer \in [Client -> Peer]
      /\ UNCHANGED <<walk, message_id_sent, seen>>
      /\ pc = "take" /\ pc' \in {"next", "accept"}
  BY DEF Take, BaseInv, InHand, TypeOK, messageVars
<1>2. CASE CloseSocket(k) /\ UNCHANGED connections
  <2>1. PeersQuiet
    BY <1>1, <1>2, ClosedSocket DEF CloseSocket, BaseInv
  <2>2. Quiet
    BY <1>1, <1>2, <2>1, SameConnections DEF Quiet
  <2> QED BY <2>2, QuietStep
<1>3. CASE free_connections # <<>>
  <2>0. free_connections \in Seq(Slot)
    BY DEF BaseInv, TypeOK
  <2>1. s \in Slot /\ connections[s].fd = None
    <3>1. s \in Slot /\ s \in ToSet(free_connections)
      BY <1>3, <2>0, PoppedFront
    <3> QED BY <3>1 DEF BaseInv, PoolIsAccounted
  <2>2. CASE connections' = [connections EXCEPT ![s] = ClosedConnection(i)] /\ CloseSocket(k)
    <3>1. ClosedConnection(i).fd = None
      BY DEF ClosedConnection
    <3>2. StaysQuiet(connections[s], ClosedConnection(i))
      BY <3>1 DEF StaysQuiet
    <3>3. \A t \in Slot : StaysQuiet(connections[t], connections'[t])
      BY <2>1, <2>2, <3>2, OneConnection DEF BaseInv
    <3>4. PeersQuiet
      BY <1>1, <2>2, ClosedSocket DEF CloseSocket, BaseInv
    <3>5. Quiet
      BY <1>1, <3>3, <3>4 DEF Quiet
    <3> QED BY <3>5, QuietStep
  <2>3. CASE /\ connections' = [connections EXCEPT ![s] =
                   [ClosedConnection(i) EXCEPT !.fd = k, !.rh = "wait", !.wh = "empty",
                                               !.data = "hc", !.reusable = TRUE]]
             /\ peer' = [peer EXCEPT ![k].at = "open"]
    <3> DEFINE r == [ClosedConnection(i) EXCEPT !.fd = k, !.rh = "wait", !.wh = "empty",
                                                !.data = "hc", !.reusable = TRUE]
    <3>1. r.fd = k /\ r.in_queue = FALSE
      BY DEF ClosedConnection
    <3>2. connections' = [connections EXCEPT ![s] = r]
      BY <2>3
    <3> HIDE DEF r
    <3>3. connections'[s] = r /\ \A t \in Slot : t # s => connections'[t] = connections[t]
      BY <2>1, <3>2 DEF BaseInv, TypeOK
    <3>4. /\ \A j \in Client : peer'[j].got = peer[j].got
          /\ peer'[k].at = "open" /\ \A j \in Client : j # k => peer'[j] = peer[j]
      BY <1>1, <2>3 DEF Peer
    <3>5. peer[k].got = "whole"
      BY <1>1 DEF Whole
    <3>6. SubscribersInStep'
      BY <1>1, <3>1, <3>3 DEF SubscribersInStep
    <3>7. \A j \in Client : peer'[j].at \in {"new", "backlog", "accepted"} => peer'[j].got = "whole"
      BY <3>4 DEF Whole
    <3>8. ASSUME NEW t \in Slot, connections'[t].fd # None,
                 connections'[t].wh # "message" \/ connections'[t].in_queue
          PROVE  peer'[connections'[t].fd].got = "whole"
      <4>1. CASE t = s
        BY <4>1, <1>1, <3>1, <3>3, <3>4, <3>5
      <4>2. CASE t # s
        <5>1. connections'[t] = connections[t] /\ connections[t].fd \in Client
          BY <3>3, <3>8, <4>2 DEF BaseInv, TypeOK, Connection
        <5> QED BY <5>1, <3>4, <3>8 DEF Whole
      <4> QED BY <4>1, <4>2
    <3> QED BY <3>6, <3>7, <3>8 DEF Whole
  <2> QED BY <1>3, <2>2, <2>3 DEF Take
<1> QED BY <1>2, <1>3 DEF Take

(* A 101 was whole before the frames, and the queue is joined at the       *)
(* message the worker is at.                                               *)
LEMMA WriteResponseDelivery ==
  ASSUME BaseInv, BaseInv', Whole, SubscribersInStep, WriteResponse
  PROVE  Whole' /\ SubscribersInStep'
<1> DEFINE c == connections[cur]
           k == c.fd
<1>1. /\ pc = "write" /\ cur \in Slot /\ c \in Connection /\ k \in Client /\ k # None
      /\ c.in_queue = FALSE /\ ret \in {"next", "write_half", "drain"}
  BY DEF WriteResponse, BaseInv, TypeOK, InHand, Queued, Connection
<1>2. UNCHANGED <<walk, message_id_sent>> /\ pc' # "walk"
  BY <1>1 DEF WriteResponse
<1>3. CASE CloseConnection(cur) /\ UNCHANGED seen
  <2>1. Quiet
    BY <1>1, <1>2, <1>3, ClosedQuietly DEF BaseInv, Quiet
  <2> QED BY <2>1, QuietStep
<1>4. CASE /\ connections' = [connections EXCEPT ![cur] =
                [c EXCEPT !.rh = "frame", !.wh = "message", !.data = "wc", !.in_queue = TRUE]]
           /\ seen' = [seen EXCEPT ![cur] = message_id_sent]
           /\ UNCHANGED peer
  <2> DEFINE r == [c EXCEPT !.rh = "frame", !.wh = "message", !.data = "wc", !.in_queue = TRUE]
  <2>1. r.fd = k /\ connections' = [connections EXCEPT ![cur] = r]
    BY <1>1, <1>4 DEF Connection
  <2> HIDE DEF r
  <2>2. /\ connections'[cur] = r /\ seen'[cur] = message_id_sent
        /\ \A t \in Slot : t # cur => connections'[t] = connections[t] /\ seen'[t] = seen[t]
    BY <1>1, <1>4, <2>1 DEF BaseInv, TypeOK
  <2>3. c.wh # "message"
    BY <1>1 DEF BaseInv, InHand
  <2>4. peer[k].got = "whole"
    BY <1>1, <2>3 DEF Whole
  <2>5. Whole'
    BY <1>4, <2>1, <2>2, <2>4 DEF Whole
  <2>6. SubscribersInStep'
    BY <1>1, <1>2, <2>2 DEF SubscribersInStep
  <2> QED BY <2>5, <2>6
<1>5. CASE /\ connections' = [connections EXCEPT ![cur].reusable = TRUE, ![cur].wactive = TRUE]
           /\ peer' = [peer EXCEPT ![k].room = FALSE] /\ UNCHANGED seen
  <2> DEFINE r == [c EXCEPT !.reusable = TRUE, !.wactive = TRUE]
  <2>1. /\ connections' = [connections EXCEPT ![cur] = r]
        /\ StaysQuiet(c, r)
    BY <1>1, <1>5, ZenonT(60) DEF StaysQuiet, BaseInv, TypeOK, Connection
  <2> HIDE DEF r
  <2>2. Quiet
    BY <1>1, <1>2, <1>5, <2>1, OneConnection, SpaceTaken, SamePeers DEF BaseInv, Quiet
  <2> QED BY <2>2, QuietStep
<1>6. CASE UNCHANGED <<peer, connections, seen>>
  <2>1. Quiet
    BY <1>1, <1>2, <1>6, SamePeers, SameConnections DEF Quiet
  <2> QED BY <2>1, QuietStep
<1> QED BY <1>3, <1>4, <1>5, <1>6 DEF WriteResponse, poolVars

(* Everybody in the queue is still to be walked to.                        *)
LEMMA ScanDelivery ==
  ASSUME BaseInv, BaseInv', Whole, SubscribersInStep, Scan
  PROVE  Whole' /\ SubscribersInStep'
<1>1. UNCHANGED <<peer, connections, message_id_sent, seen>> /\ pc = "next"
  BY DEF Scan, kernelVars, poolVars
<1>2. Whole'
  BY <1>1 DEF Whole
<1>3. pc' = "walk" => walk' = channel_queue
  BY DEF Scan
<1>4. \A s \in Slot : connections[s].in_queue => s \in ToSet(channel_queue)
  BY DEF BaseInv, Queued
<1>5. SubscribersInStep'
  BY <1>1, <1>3, <1>4 DEF SubscribersInStep
<1> QED BY <1>2, <1>5

(* The one walked to is sent the message whole, or is out of the queue.    *)
LEMMA WalkDelivery ==
  ASSUME BaseInv, BaseInv', Whole, SubscribersInStep, Walk
  PROVE  Whole' /\ SubscribersInStep'
<1>1. pc = "walk"
  BY DEF Walk
<1>2. CASE walk = <<>>
  <2>1. /\ message_id_sent' = message_id_sent + 1 /\ pc' = "next"
        /\ UNCHANGED <<peer, connections, walk, seen>>
    BY <1>2 DEF Walk, poolVars
  <2>2. ToSet(walk) = {}
    BY <1>2 DEF ToSet
  <2>3. Whole' /\ SubscribersInStep'
    BY <1>1, <2>1, <2>2 DEF Whole, SubscribersInStep
  <2> QED BY <2>3
<1>3. CASE walk # <<>>
  <2> DEFINE s == Head(walk)
             c == connections[s]
             k == c.fd
  <2>1. /\ s \in Slot /\ c \in Connection /\ k \in Client /\ k # None /\ c.in_queue = TRUE
        /\ c.wh = "message" /\ peer[k].at = "open" /\ ToSet(walk) = ToSet(Tail(walk)) \cup {s} /\ s \notin ToSet(Tail(walk))
    BY <1>1, <1>3, WalkedIsLive, ConnectionsAssumption
  <2> HIDE DEF s
  <2>2. walk' = Tail(walk) /\ UNCHANGED <<message_id_sent, pc>>
    BY <1>3 DEF Walk
  <2>3. ASSUME \A t \in Slot : t # s => connections'[t] = connections[t] /\ seen'[t] = seen[t],
               connections'[s].in_queue => seen'[s] = message_id_sent + 1
        PROVE  SubscribersInStep'
    BY <1>1, <2>1, <2>2, <2>3 DEF SubscribersInStep
  <2>4. ASSUME \A t \in Slot : t # s => connections'[t] = connections[t],
               connections'[s].fd = None \/ (connections'[s].wh = "message" /\ ~connections'[s].in_queue),
               \A j \in Client : j # k => peer'[j] = peer[j],
               peer'[k].at \in {"open", "done"}, peer'[k].at = "done" => peer'[k].got = "whole"
        PROVE  Whole'
    <3>1. \A j \in Client : peer'[j].at \in {"new", "backlog", "accepted"} => peer'[j].got = "whole"
      BY <2>4 DEF Whole
    <3>2. \A t \in Slot : t # s => connections[t].fd # k
      BY <2>1 DEF BaseInv, PoolIsAccounted
    <3>3. \A t \in Slot : connections[t].fd # None => connections[t].fd \in Client
      BY DEF BaseInv, TypeOK, Connection
    <3> QED BY <2>4, <3>1, <3>2, <3>3 DEF Whole
  <2>5. CASE SendWhole(s, k)
    <3>1. /\ UNCHANGED <<peer, connections>>
          /\ seen'[s] = message_id_sent + 1 /\ \A t \in Slot : t # s => seen'[t] = seen[t]
      BY <2>1, <2>5 DEF SendWhole, poolVars, BaseInv, TypeOK
    <3>2. Whole'
      BY <3>1 DEF Whole
    <3> QED BY <2>3, <3>1, <3>2
  <2>6. CASE SendPart(s, k)
    <3> DEFINE r == [c EXCEPT !.wactive = TRUE, !.in_queue = FALSE]
    <3>1. /\ connections' = [connections EXCEPT ![s] = r] /\ UNCHANGED seen
          /\ peer' = [peer EXCEPT ![k].room = FALSE, ![k].got = "cut"]
      BY <2>1, <2>6 DEF SendPart, BaseInv, TypeOK
    <3>2. r.wh = "message" /\ ~r.in_queue
      BY <2>1 DEF Connection
    <3> HIDE DEF r
    <3>3. connections'[s] = r /\ \A t \in Slot : t # s => connections'[t] = connections[t]
      BY <2>1, <3>1 DEF BaseInv, TypeOK
    <3>4. peer'[k].at = "open" /\ \A j \in Client : j # k => peer'[j] = peer[j]
      BY <2>1, <3>1, SMTT(30) DEF BaseInv, TypeOK, Peer
    <3> QED BY <2>3, <2>4, <3>1, <3>2, <3>3, <3>4
  <2>7. CASE SendNothing(s, k)
    <3> DEFINE r == [c EXCEPT !.wactive = TRUE, !.in_queue = FALSE, !.reusable = TRUE]
    <3>1. /\ connections' = [connections EXCEPT ![s] = r] /\ UNCHANGED seen
          /\ peer' = [peer EXCEPT ![k].room = FALSE]
      BY <2>1, <2>7 DEF SendNothing, BaseInv, TypeOK
    <3>2. r.wh = "message" /\ ~r.in_queue
      BY <2>1 DEF Connection
    <3> HIDE DEF r
    <3>3. connections'[s] = r /\ \A t \in Slot : t # s => connections'[t] = connections[t]
      BY <2>1, <3>1 DEF BaseInv, TypeOK
    <3>4. peer'[k].at = "open" /\ \A j \in Client : j # k => peer'[j] = peer[j]
      BY <2>1, <3>1 DEF BaseInv, TypeOK, Peer
    <3> QED BY <2>3, <2>4, <3>1, <3>2, <3>3, <3>4
  <2>8. CASE SendError(s, k)
    <3>1. /\ connections' = [connections EXCEPT ![s] = ClosedConnection(c.instance)]
          /\ peer' = [peer EXCEPT ![k] = DonePeer] /\ UNCHANGED seen
      BY <2>8 DEF SendError, CloseConnection, CloseSocket
    <3>2. ClosedConnection(c.instance).fd = None /\ ~ClosedConnection(c.instance).in_queue
          /\ DonePeer.at = "done" /\ DonePeer.got = "whole"
      BY DEF ClosedConnection, DonePeer, NewPeer
    <3>3. /\ connections'[s] = ClosedConnection(c.instance)
          /\ \A t \in Slot : t # s => connections'[t] = connections[t]
          /\ peer'[k] = DonePeer /\ \A j \in Client : j # k => peer'[j] = peer[j]
      BY <2>1, <3>1 DEF BaseInv, TypeOK
    <3> QED BY <2>3, <2>4, <3>1, <3>2, <3>3
  <2> QED BY <1>3, <2>5, <2>6, <2>7, <2>8 DEF Walk, s
<1> QED BY <1>2, <1>3

-------------------------------------------------------------------------------
(* The invariant of the delivery, on top of that of the pool.              *)
Delivery == BaseInv /\ Whole /\ SubscribersInStep

LEMMA StepDelivery == Delivery /\ [Next]_vars => Delivery'
<1> SUFFICES ASSUME Delivery, [Next]_vars PROVE Delivery'
  OBVIOUS
<1>1. BaseInv /\ Whole /\ SubscribersInStep /\ BaseInv'
  BY StepBase DEF Delivery
<1>2. ASSUME Quiet PROVE Delivery'
  BY <1>1, <1>2, QuietStep DEF Delivery
<1>3. CASE Clients \/ EpollWait \/ TakeEvent \/ WriteHalf \/ Accept \/ Drain \/ ReadRequest
  BY <1>1, <1>2, <1>3, ClientsQuiet, EpollWaitQuiet, TakeEventQuiet, WriteHalfQuiet, AcceptQuiet,
     DrainQuiet, ReadRequestQuiet
<1>4. CASE Take \/ WriteResponse \/ Scan \/ Walk
  BY <1>1, <1>4, TakeDelivery, WriteResponseDelivery, ScanDelivery, WalkDelivery DEF Delivery
<1>5. CASE UNCHANGED vars
  <2>1. Quiet
    BY <1>5, SamePeers, SameConnections DEF vars, kernelVars, poolVars, messageVars, Quiet
  <2> QED BY <2>1, <1>2
<1> QED BY <1>3, <1>4, <1>5 DEF Next, Worker

(* No send, join or leave, in whatever order, breaks it.                   *)
THEOREM DeliveryHolds == Spec => []Delivery
<1>1. Init => Delivery
  BY InitBase DEF Delivery
<1> QED BY <1>1, StepDelivery, PTL DEF Spec

(* A client whose frame was cut is sent no other: no failed or partial     *)
(* send, however clients come and go, leaves the connection in the queue   *)
(* (ngx_websocket_process_messages).                                       *)
THEOREM CutFrameStaysLast == Spec => []CutFrameIsLast
<1>1. Delivery => CutFrameIsLast
  BY DEF Delivery, BaseInv, Queued, Whole, CutFrameIsLast
<1> QED BY <1>1, DeliveryHolds, PTL

(* Whoever is in the queue has been sent every message since it joined     *)
(* (ngx_websocket_process_messages, ngx_websocket_writer).                 *)
THEOREM SubscribersStayInStep == Spec => []SubscribersInStep
<1>1. Delivery => SubscribersInStep
  BY DEF Delivery
<1> QED BY <1>1, DeliveryHolds, PTL

-------------------------------------------------------------------------------
(* What the clients send.  The invariant.                                  *)

(* The handler of the connection s runs and is going to read.              *)
AtHand(s) == pc = "read" /\ cur = s /\ connections[s].ready

(* An event of this batch will make it run: one for the connection as it   *)
(* is, not for an earlier owner of the slot.                               *)
IsFor(e, s) == e.slot = s /\ e.instance = connections[s].instance /\ e.in
Pending(s) == \E e \in event_list : IsFor(e, s)

Hungry(c) == c.rh \in Reading /\ ~c.error

Heeded(s) ==
  LET c == connections[s]
  IN /\ c.fd = None => c.rh = "none"
     /\ c.fd # None => "IN" \in interest[c.fd]
     /\ Hungry(c) /\ peer[c.fd].data => c.fd \in ready_list \/ AtHand(s) \/ Pending(s)

Attentive ==
  /\ pc = "wait" => event_list = {}
  /\ \A s \in Slot : Heeded(s)

-------------------------------------------------------------------------------
(* What most steps leave as it was.                                        *)

KernelKept(k) ==
  /\ "IN" \in interest[k] => "IN" \in interest'[k]
  /\ k \in ready_list => k \in ready_list'
  /\ peer'[k].data => peer[k].data \/ k \in ready_list'

OpenKept == \A k \in Client : peer[k].at = "open" => KernelKept(k)

LEMMA SlotIsOpen ==
  ASSUME BaseInv, NEW s \in Slot, connections[s].fd # None
  PROVE  connections[s].fd \in Client /\ peer[connections[s].fd].at = "open"
BY DEF BaseInv, TypeOK, Connection, PoolIsAccounted

(* A connection keeps its socket, starts no request, and loses no event.   *)
LEMMA SlotKept ==
  ASSUME NEW s \in Slot, Heeded(s), NEW d, connections'[s] = d,
         d.fd = connections[s].fd, d.instance = connections[s].instance,
         Hungry(d) => Hungry(connections[s]), d.fd = None => d.rh = "none",
         d.fd # None => KernelKept(d.fd),
         AtHand(s) => AtHand(s)' \/ ~(Hungry(d) /\ peer'[d.fd].data),
         Hungry(d) => \A e \in event_list : IsFor(e, s) => e \in event_list'
  PROVE  Heeded(s)'
<1>1. Hungry(d) => d.fd # None
  BY DEF Hungry, Reading
<1>2. d.fd # None => "IN" \in interest'[d.fd]
  BY DEF Heeded, KernelKept
<1>3. ASSUME Hungry(d), peer'[d.fd].data
      PROVE  d.fd \in ready_list' \/ AtHand(s)' \/ Pending(s)'
  <2>1. CASE d.fd \in ready_list'
    BY <2>1
  <2>2. CASE d.fd \notin ready_list'
    <3>1. Hungry(connections[s]) /\ peer[d.fd].data /\ d.fd \notin ready_list
      BY <1>1, <1>3, <2>2 DEF KernelKept
    <3>2. AtHand(s) \/ Pending(s)
      BY <3>1 DEF Heeded
    <3>3. Pending(s) => Pending(s)'
      BY <1>3 DEF Pending, IsFor
    <3> QED BY <1>3, <3>2, <3>3
  <2> QED BY <2>1, <2>2
<1> QED BY <1>2, <1>3 DEF Heeded

(* No connection changes.                                                  *)
LEMMA AllKept ==
  ASSUME BaseInv, Attentive, connections' = connections, event_list' = event_list, OpenKept,
         pc = "read" => pc' = "read" /\ cur' = cur
  PROVE  \A s \in Slot : Heeded(s)'
<1> TAKE s \in Slot
<1>1. Heeded(s)
  BY DEF Attentive
<1>2. connections[s].fd # None => KernelKept(connections[s].fd)
  BY SlotIsOpen DEF OpenKept
<1>3. AtHand(s) => AtHand(s)'
  BY DEF AtHand
<1>4. connections[s].fd = None => connections[s].rh = "none"
  BY <1>1 DEF Heeded
<1> QED BY <1>1, <1>2, <1>3, <1>4, SlotKept

(* One connection changes; if it is hungry afterwards it was before, and   *)
(* its handler was not going to read, or has read all there is.            *)
LEMMA OneKept ==
  ASSUME BaseInv, Attentive, NEW s \in Slot, NEW r,
         connections' = [connections EXCEPT ![s] = r],
         connections[s].fd # None, r.fd = connections[s].fd, r.instance = connections[s].instance,
         Hungry(r) /\ peer'[r.fd].data => Hungry(connections[s]) /\ ~AtHand(s),
         event_list' = event_list, OpenKept, pc = "read" => cur = s
  PROVE  \A t \in Slot : Heeded(t)'
<1>1. connections'[s] = r /\ \A t \in Slot : t # s => connections'[t] = connections[t]
  BY DEF BaseInv, TypeOK
<1> TAKE t \in Slot
<1>2. Heeded(t) /\ Heeded(s)
  BY DEF Attentive
<1>3. connections[t].fd # None => KernelKept(connections[t].fd)
  BY SlotIsOpen DEF OpenKept
<1>4. CASE t # s
  <2>1. ~AtHand(t)
    BY <1>4 DEF AtHand
  <2>2. connections[t].fd = None => connections[t].rh = "none"
    BY <1>2 DEF Heeded
  <2> QED BY <1>1, <1>2, <1>3, <1>4, <2>1, <2>2, SlotKept
<1>5. CASE t = s
  <2>1. "IN" \in interest'[r.fd]
    BY <1>2, <1>3, <1>5 DEF Heeded, KernelKept
  <2>2. ASSUME Hungry(r), peer'[r.fd].data
        PROVE  r.fd \in ready_list' \/ Pending(s)'
    <3>1. CASE r.fd \in ready_list'
      BY <3>1
    <3>2. CASE r.fd \notin ready_list'
      <4>1. Hungry(connections[s]) /\ peer[r.fd].data /\ r.fd \notin ready_list
        BY <1>3, <1>5, <2>2, <3>2 DEF KernelKept
      <4>2. Pending(s)
        BY <2>2, <4>1, <1>2 DEF Heeded
      <4> QED BY <4>2, <1>1 DEF Pending, IsFor
    <3> QED BY <3>1, <3>2
  <2> QED BY <1>1, <1>5, <2>1, <2>2 DEF Heeded
<1> QED BY <1>4, <1>5

(* A connection is closed: nobody else's socket is.                        *)
LEMMA CloseKept ==
  ASSUME BaseInv, Attentive, NEW s \in Slot, connections[s].fd # None, CloseConnection(s),
         event_list' = event_list, pc = "read" => cur = s
  PROVE  \A t \in Slot : Heeded(t)'
<1> DEFINE k == connections[s].fd
           r == ClosedConnection(connections[s].instance)
<1>1. k \in Client /\ peer \in [Client -> Peer]
  BY SlotIsOpen DEF BaseInv, TypeOK
<1>2. r.fd = None /\ r.rh = "none"
  BY DEF ClosedConnection
<1>3. connections' = [connections EXCEPT ![s] = r]
  BY DEF CloseConnection
<1> HIDE DEF r
<1>4. connections'[s] = r /\ \A t \in Slot : t # s => connections'[t] = connections[t]
  BY <1>3 DEF BaseInv, TypeOK
<1>5. \A j \in Client : j # k => KernelKept(j)
  BY <1>1 DEF CloseConnection, CloseSocket, KernelKept, BaseInv, TypeOK
<1> TAKE t \in Slot
<1>6. CASE t = s
  BY <1>2, <1>4, <1>6 DEF Heeded, Hungry, Reading
<1>7. CASE t # s
  <2>1. Heeded(t) /\ ~AtHand(t)
    BY <1>7 DEF Attentive, AtHand
  <2>2. connections[t].fd # None => connections[t].fd # k /\ connections[t].fd \in Client
    BY <1>7, SlotIsOpen DEF BaseInv, PoolIsAccounted
  <2>3. connections[t].fd = None => connections[t].rh = "none"
    BY <2>1 DEF Heeded
  <2> QED BY <1>4, <1>5, <1>7, <2>1, <2>2, <2>3, SlotKept
<1> QED BY <1>6, <1>7

-------------------------------------------------------------------------------
(* The actions.                                                            *)

LEMMA InitAttentive == Init => Attentive
<1> SUFFICES ASSUME Init PROVE Attentive
  OBVIOUS
<1>1. ClosedConnection(1).fd = None /\ ClosedConnection(1).rh = "none"
  BY DEF ClosedConnection
<1>2. \A s \in Slot : connections[s] = ClosedConnection(1)
  BY DEF Init
<1> QED BY <1>1, <1>2 DEF Init, Attentive, Heeded, Hungry, Reading

(* Bytes that arrive for a socket in epoll have their edge.                *)
LEMMA ClientsAttentive == BaseInv /\ Attentive /\ Clients => Attentive'
<1> SUFFICES ASSUME BaseInv, Attentive, Clients PROVE Attentive'
  OBVIOUS
<1>1. UNCHANGED <<poolVars, pc, eventVars>>
  BY DEF Clients, Publish
<1>2. OpenKept
  <2> SUFFICES ASSUME NEW j \in Client, peer[j].at = "open" PROVE KernelKept(j)
    BY DEF OpenKept
  <2>1. "IN" \in interest[j]
    <3>1. PICK s \in Slot : connections[s].fd = j
      BY DEF BaseInv, PoolIsAccounted
    <3> QED BY <3>1, ConnectionsAssumption DEF Attentive, Heeded
  <2>2. CASE Publish
    BY <2>2 DEF Publish, kernelVars, KernelKept
  <2>3. ASSUME NEW k \in Client,
               Connect(k) \/ Arrive(k) \/ Leave(k, "fin") \/ Leave(k, "rst") \/ Drained(k)
        PROVE  KernelKept(j)
    <3>0. peer \in [Client -> Peer] /\ peer[k] \in Peer
      BY DEF BaseInv, TypeOK
    <3>1. CASE Connect(k)
      BY <3>0, <3>1 DEF Connect, KernelKept, Peer
    <3>2. CASE Arrive(k)
      BY <3>0, <3>2, <2>1 DEF Arrive, KernelKept, Peer
    <3>3. CASE Leave(k, "fin") \/ Leave(k, "rst")
      BY <3>0, <3>3 DEF Leave, KernelKept, Peer
    <3>4. CASE Drained(k)
      BY <3>0, <3>4 DEF Drained, KernelKept, Peer
    <3> QED BY <2>3, <3>1, <3>2, <3>3, <3>4
  <2> QED BY <2>2, <2>3 DEF Clients
<1> QED BY <1>1, <1>2, AllKept DEF Attentive, poolVars, eventVars

(* What had an edge has an event now: its connection and its instance.     *)
LEMMA EpollWaitAttentive == BaseInv /\ Attentive /\ EpollWait => Attentive'
<1> SUFFICES ASSUME BaseInv, Attentive, EpollWait PROVE Attentive'
  OBVIOUS
<1>1. /\ pc = "wait" /\ pc' = "next" /\ event_list = {} /\ event_list' = Reported
      /\ UNCHANGED <<connections, peer, interest>>
  BY DEF EpollWait, Attentive, poolVars
<1>2. ASSUME NEW s \in Slot PROVE Heeded(s)'
  <2> DEFINE c == connections[s]
             e == EventOf(c.fd)
  <2>1. Heeded(s) /\ ~AtHand(s) /\ ~Pending(s)
    BY <1>1 DEF Attentive, AtHand, Pending
  <2>2. ASSUME Hungry(c), peer[c.fd].data PROVE Pending(s)'
    <3>1. c.fd \in ready_list /\ c.fd # None /\ "IN" \in interest[c.fd]
      BY <2>1, <2>2 DEF Heeded, Hungry, Reading
    <3>2. \A t \in Slot : connections[t].fd = c.fd => t = s
      BY <3>1 DEF BaseInv, PoolIsAccounted
    <3>3. SlotOf(c.fd) = s
      BY <3>2 DEF SlotOf
    <3>4. e.slot = s /\ e.instance = c.instance /\ e.in
      BY <2>2, <3>1, <3>3 DEF EventOf
    <3>5. e \in event_list'
      BY <1>1, <3>1, <3>4 DEF Reported
    <3> HIDE DEF e
    <3> QED BY <1>1, <3>4, <3>5 DEF Pending, IsFor
  <2> QED BY <1>1, <2>1, <2>2 DEF Heeded
<1> QED BY <1>1, <1>2 DEF Attentive

(* The event that is taken makes its connection read, if it is one that    *)
(* wants to; a stale one is nobody's.                                      *)
LEMMA TakeEventAttentive == BaseInv /\ Attentive /\ TakeEvent => Attentive'
<1> SUFFICES ASSUME BaseInv, Attentive, TakeEvent PROVE Attentive'
  OBVIOUS
<1>1. PICK e \in event_list :
        /\ event_list' = event_list \ {e}
        /\ IF Stale(e) THEN UNCHANGED <<connections, pc, ret, event, cur>>
           ELSE IF e.slot = 0 THEN pc' = "accept" /\ UNCHANGED <<connections, ret, event, cur>>
           ELSE /\ event' = e /\ cur' = e.slot
                /\ ret' = IF e.out THEN "write_half" ELSE "next"
                /\ IF e.in /\ connections[e.slot].rh \in Reading
                   THEN /\ connections' = [connections EXCEPT
                                             ![e.slot].ready = ~connections[e.slot].error,
                                             ![e.slot].eof = ~connections[e.slot].error /\ e.eof]
                        /\ pc' = "read"
                   ELSE pc' = ret' /\ UNCHANGED connections
  BY DEF TakeEvent
<1>2. pc = "next" /\ pc' # "wait" /\ UNCHANGED <<peer, interest, ready_list>>
  BY <1>1 DEF TakeEvent, kernelVars
<1>3. e \in Event /\ \A k \in Client : KernelKept(k)
  BY <1>2 DEF BaseInv, TypeOK, KernelKept
<1>4. ASSUME NEW s \in Slot PROVE Heeded(s)'
  <2> DEFINE c == connections[s]
  <2>1. Heeded(s) /\ ~AtHand(s) /\ (c.fd = None => c.rh = "none")
    BY <1>2 DEF Attentive, AtHand, Heeded
  <2>2. c.fd # None => KernelKept(c.fd)
    BY <1>3, SlotIsOpen
  <2>3. CASE connections' = connections /\ ~(IsFor(e, s) /\ Hungry(c))
    <3>1. \A f \in event_list : f # e => f \in event_list'
      BY <1>1
    <3>2. Hungry(c) => \A f \in event_list : IsFor(f, s) => f \in event_list'
      BY <2>3, <3>1
    <3> QED BY <2>1, <2>2, <2>3, <3>2, SlotKept
  <2>4. CASE connections' = connections /\ IsFor(e, s) /\ Hungry(c)
    <3>1. c.fd # None /\ ~Stale(e) /\ e.slot # 0 /\ e.slot = s /\ e.in
      BY <2>1, <2>4, ConnectionsAssumption DEF Hungry, Reading, IsFor, Stale, Slot
    <3>2. c.rh \in Reading
      BY <2>4 DEF Hungry
    <3>3. c.ready' /\ pc' = "read" /\ cur' = s
      <4>1. /\ cur' = s /\ pc' = "read"
            /\ connections' = [connections EXCEPT ![s].ready = ~c.error, ![s].eof = ~c.error /\ e.eof]
        BY <1>1, <3>1, <3>2
      <4>2. c \in Connection /\ ~c.error
        BY <2>4 DEF BaseInv, TypeOK, Hungry
      <4>3. connections'[s].ready = ~c.error
        BY <4>1, <4>2 DEF BaseInv, TypeOK, Connection
      <4> QED BY <4>1, <4>2, <4>3
    <3> QED BY <1>2, <2>1, <2>4, <3>3 DEF Heeded, AtHand
  <2>5. CASE /\ ~Stale(e) /\ e.slot # 0 /\ e.in /\ connections[e.slot].rh \in Reading
             /\ cur' = e.slot /\ pc' = "read"
             /\ connections' = [connections EXCEPT
                                  ![e.slot].ready = ~connections[e.slot].error,
                                  ![e.slot].eof = ~connections[e.slot].error /\ e.eof]
    <3>1. e.slot \in Slot
      BY <1>3, <2>5, ConnectionsAssumption DEF Event, Slot
    <3> DEFINE a == ~connections[e.slot].error
               b == ~connections[e.slot].error /\ e.eof
               r == [connections[e.slot] EXCEPT !.ready = a, !.eof = b]
    <3>2. connections' = [connections EXCEPT ![e.slot] = r]
      BY <2>5, <3>1 DEF BaseInv, TypeOK
    <3>3. connections[e.slot] \in Connection
      BY <3>1 DEF BaseInv, TypeOK
    <3>4. a <=> ~connections[e.slot].error
      OBVIOUS
    <3> HIDE DEF a, b
    <3>5. /\ r.fd = connections[e.slot].fd /\ r.instance = connections[e.slot].instance
          /\ r.rh = connections[e.slot].rh /\ r.error = connections[e.slot].error /\ r.ready = a
      BY <3>3 DEF Connection
    <3> HIDE DEF r
    <3>6. connections'[e.slot] = r /\ \A t \in Slot : t # e.slot => connections'[t] = connections[t]
      BY <3>1, <3>2 DEF BaseInv, TypeOK
    <3>7. CASE s = e.slot
      <4>1. Hungry(r) => AtHand(s)'
        BY <2>5, <3>4, <3>5, <3>6, <3>7 DEF AtHand, Hungry
      <4> QED BY <1>2, <2>1, <3>5, <3>6, <3>7, <4>1 DEF Heeded
    <3>8. CASE s # e.slot
      <4>1. \A f \in event_list : IsFor(f, s) => f \in event_list'
        BY <1>1, <3>8 DEF IsFor
      <4> QED BY <2>1, <2>2, <3>6, <3>8, <4>1, SlotKept
    <3> QED BY <3>7, <3>8
  <2> QED BY <1>1, <2>3, <2>4, <2>5
<1> QED BY <1>2, <1>4 DEF Attentive

LEMMA WriteHalfAttentive == BaseInv /\ Attentive /\ WriteHalf => Attentive'
<1> SUFFICES ASSUME BaseInv, Attentive, WriteHalf PROVE Attentive'
  OBVIOUS
<1> DEFINE c == connections[cur]
           r == [c EXCEPT !.data = "freed"]
<1>1. /\ cur \in Slot /\ pc = "write_half" /\ pc' # "wait" /\ c \in Connection
      /\ event_list' = event_list /\ UNCHANGED <<peer, interest, ready_list>>
  BY DEF WriteHalf, BaseInv, TypeOK, kernelVars, eventVars
<1>2. OpenKept /\ pc # "read"
  BY <1>1 DEF OpenKept, KernelKept
<1>3. CASE connections' = connections
  BY <1>1, <1>2, <1>3, AllKept DEF Attentive
<1>4. CASE c.wh = "request" /\ ~Stale(event) /\ connections' = [connections EXCEPT ![cur] = r]
  <2>1. event.slot = cur
    BY <1>1 DEF BaseInv, InHand
  <2>2. c.fd # None
    BY <1>1, <1>4, <2>1, ConnectionsAssumption DEF Stale, Slot
  <2>3. r.fd = c.fd /\ r.instance = c.instance /\ r.rh = c.rh /\ r.error = c.error
    BY <1>1 DEF Connection
  <2>4. Hungry(r) => Hungry(c) /\ ~AtHand(cur)
    BY <1>1, <2>3 DEF Hungry, AtHand
  <2> HIDE DEF r
  <2>5. \A t \in Slot : Heeded(t)'
    BY <1>1, <1>2, <1>4, <2>2, <2>3, <2>4, OneKept
  <2> QED BY <1>1, <2>5 DEF Attentive
<1> QED BY <1>3, <1>4 DEF WriteHalf

LEMMA AcceptAttentive == BaseInv /\ Attentive /\ Accept => Attentive'
<1> SUFFICES ASSUME BaseInv, Attentive, Accept PROVE Attentive'
  OBVIOUS
<1>1. /\ pc = "accept" /\ pc' # "wait" /\ UNCHANGED <<connections, event_list, interest, ready_list>>
  BY DEF Accept, poolVars
<1>2. \/ peer' = peer
      \/ \E k \in Client : peer[k].at = "backlog" /\ peer' = [peer EXCEPT ![k] = DonePeer]
      \/ \E k \in Client : peer[k].at = "backlog" /\ peer' = [peer EXCEPT ![k].at = "accepted"]
  BY DEF Accept, Backlog
<1>3. \A j \in Client : peer[j].at = "open" => peer'[j] = peer[j]
  BY <1>2 DEF BaseInv, TypeOK
<1>4. OpenKept
  BY <1>1, <1>3 DEF OpenKept, KernelKept
<1> QED BY <1>1, <1>4, AllKept DEF Attentive

LEMMA DrainAttentive == BaseInv /\ Attentive /\ Drain => Attentive'
<1> SUFFICES ASSUME BaseInv, Attentive, Drain PROVE Attentive'
  OBVIOUS
<1> DEFINE s == Last(reusable_queue)
           c == connections[s]
           r == [c EXCEPT !.close = TRUE]
<1>1. event_list' = event_list /\ pc = "drain" /\ pc' # "wait"
  BY DEF Drain
<1>2. CASE UNCHANGED <<kernelVars, poolVars>>
  <2>1. OpenKept
    BY <1>2 DEF OpenKept, KernelKept, kernelVars
  <2> QED BY <1>1, <1>2, <2>1, AllKept DEF Attentive, poolVars
<1>3. CASE ~(left = 0 \/ reusable_queue = <<>>)
  <2>1. s \in Slot /\ c.fd # None /\ c \in Connection
    BY <1>3, LastIsIn DEF BaseInv, TypeOK, Linked
  <2>2. CASE CloseConnection(s)
    BY <1>1, <2>1, <2>2, CloseKept DEF Attentive
  <2>3. CASE connections' = [connections EXCEPT ![s] = r] /\ UNCHANGED kernelVars
    <3>1. OpenKept
      BY <2>3 DEF OpenKept, KernelKept, kernelVars
    <3>2. r.fd = c.fd /\ r.instance = c.instance /\ r.rh = c.rh /\ r.error = c.error
      BY <2>1 DEF Connection
    <3>3. Hungry(r) => Hungry(c) /\ ~AtHand(s)
      BY <1>1, <3>2 DEF Hungry, AtHand
    <3> HIDE DEF r
    <3>4. \A t \in Slot : Heeded(t)'
      BY <1>1, <2>1, <2>3, <3>1, <3>2, <3>3, OneKept
    <3> QED BY <1>1, <3>4 DEF Attentive
  <2> QED BY <1>3, <2>2, <2>3 DEF Drain
<1> QED BY <1>2, <1>3 DEF Drain

(* epoll looks at a socket when it is added: what the newcomer has sent    *)
(* before has its edge.                                                    *)
LEMMA TakeAttentive == BaseInv /\ Attentive /\ Take => Attentive'
<1> SUFFICES ASSUME BaseInv, Attentive, Take PROVE Attentive'
  OBVIOUS
<1> DEFINE k == newcomer
           i == 1 - connections[Head(free_connections)].instance
<1>1. /\ k \in Client /\ peer[k].at = "accepted" /\ event_list' = event_list
      /\ pc = "take" /\ pc' # "wait"
  BY DEF Take, BaseInv, InHand
<1>2. ASSUME NEW t \in Slot, connections'[t] = connections[t],
             \A j \in Client : peer[j].at = "open" => KernelKept(j)
      PROVE  Heeded(t)'
  <2>1. Heeded(t) /\ ~AtHand(t) /\ (connections[t].fd = None => connections[t].rh = "none")
    BY <1>1 DEF Attentive, AtHand, Heeded
  <2> QED BY <1>1, <1>2, <2>1, SlotIsOpen, SlotKept
<1>3. CloseSocket(k) => \A j \in Client : peer[j].at = "open" => KernelKept(j)
  BY <1>1 DEF CloseSocket, KernelKept, BaseInv, TypeOK
<1>4. CASE CloseSocket(k) /\ UNCHANGED connections
  BY <1>1, <1>2, <1>3, <1>4 DEF Attentive
<1>5. CASE free_connections # <<>>
  <2>1. PICK s \in Slot : s = Head(free_connections)
    BY <1>5, PoppedFront DEF BaseInv, TypeOK
  <2>2. CASE connections' = [connections EXCEPT ![s] = ClosedConnection(i)] /\ CloseSocket(k)
    <3>1. ClosedConnection(i).fd = None /\ ClosedConnection(i).rh = "none"
      BY DEF ClosedConnection
    <3>2. /\ connections'[s] = ClosedConnection(i)
          /\ \A t \in Slot : t # s => connections'[t] = connections[t]
      BY <2>1, <2>2 DEF BaseInv, TypeOK
    <3>3. Heeded(s)'
      BY <3>1, <3>2 DEF Heeded, Hungry, Reading
    <3>4. \A t \in Slot : t # s => Heeded(t)'
      BY <1>2, <1>3, <2>2, <3>2
    <3> QED BY <1>1, <3>3, <3>4 DEF Attentive
  <2>3. CASE /\ connections' = [connections EXCEPT ![s] =
                   [ClosedConnection(i) EXCEPT !.fd = k, !.rh = "wait", !.wh = "empty",
                                               !.data = "hc", !.reusable = TRUE]]
             /\ peer' = [peer EXCEPT ![k].at = "open"]
             /\ interest' = [interest EXCEPT ![k] = {"IN"}]
             /\ ready_list' = IF peer[k].data \/ Left(k) THEN ready_list \cup {k} ELSE ready_list
    <3> DEFINE r == [ClosedConnection(i) EXCEPT !.fd = k, !.rh = "wait", !.wh = "empty",
                                                !.data = "hc", !.reusable = TRUE]
    <3>1. r.fd = k
      BY DEF ClosedConnection
    <3>2. connections' = [connections EXCEPT ![s] = r]
      BY <2>3
    <3> HIDE DEF r
    <3>3. connections'[s] = r /\ \A t \in Slot : t # s => connections'[t] = connections[t]
      BY <2>1, <3>2 DEF BaseInv, TypeOK
    <3>4. peer'[k].data = peer[k].data /\ "IN" \in interest'[k]
      BY <1>1, <2>3 DEF BaseInv, TypeOK, Peer
    <3>5. Heeded(s)'
      BY <1>1, <2>3, <3>1, <3>3, <3>4, ConnectionsAssumption DEF Heeded
    <3>6. \A j \in Client : peer[j].at = "open" => KernelKept(j)
      BY <1>1, <2>3 DEF KernelKept, BaseInv, TypeOK
    <3>7. \A t \in Slot : t # s => Heeded(t)'
      BY <1>2, <3>3, <3>6
    <3> QED BY <1>1, <3>5, <3>7 DEF Attentive
  <2> QED BY <1>5, <2>1, <2>2, <2>3 DEF Take
<1> QED BY <1>4, <1>5 DEF Take

LEMMA DoneIsSated ==
  ASSUME NEW c \in Connection, NEW d \in Done(c)
  PROVE  d.fd = c.fd /\ d.instance = c.instance /\ ~Hungry(d)
<1>1. PICK upgrade \in BOOLEAN :
        d = [c EXCEPT !.rh = "empty", !.wh = "request", !.ready = FALSE, !.eof = FALSE,
                      !.error = @ \/ ~upgrade]
  BY DEF Done
<1> DEFINE b == c.error \/ ~upgrade
<1>2. d = [c EXCEPT !.rh = "empty", !.wh = "request", !.ready = FALSE, !.eof = FALSE, !.error = b]
  BY <1>1
<1> HIDE DEF b
<1> QED BY <1>2 DEF Connection, Hungry, Reading

(* A handler stops reading a request that goes on when it has read what    *)
(* there was, or was not ready.                                            *)
LEMMA ReadRequestAttentive == BaseInv /\ Attentive /\ ReadRequest => Attentive'
<1> SUFFICES ASSUME BaseInv, Attentive, ReadRequest PROVE Attentive'
  OBVIOUS
<1> DEFINE c == connections[cur]
           k == c.fd
<1>1. /\ pc = "read" /\ cur \in Slot /\ c \in Connection /\ k \in Client /\ k # None
      /\ event_list' = event_list /\ ret \in {"next", "write_half", "drain"}
      /\ peer[k] \in Peer
  BY SlotIsOpen DEF ReadRequest, BaseInv, TypeOK, InHand, eventVars
<1>2. pc' # "wait"
  BY <1>1 DEF ReadRequest, Parse
<1>3. ASSUME CloseConnection(cur) PROVE Attentive'
  BY <1>1, <1>2, <1>3, CloseKept DEF Attentive
<1>4. ASSUME NEW r, connections' = [connections EXCEPT ![cur] = r],
             r.fd = k, r.instance = c.instance, UNCHANGED <<interest, ready_list>>,
             peer' = peer \/ \E x \in BOOLEAN : peer' = [peer EXCEPT ![k].data = x] /\ (x => peer[k].data),
             Hungry(r) /\ peer'[k].data => Hungry(c) /\ ~c.ready
      PROVE  Attentive'
  <2>0. \A j \in Client : peer'[j].data => peer[j].data
    <3>1. ASSUME NEW x \in BOOLEAN, peer' = [peer EXCEPT ![k].data = x], x => peer[k].data
          PROVE  \A j \in Client : peer'[j].data => peer[j].data
      BY <1>1, <3>1 DEF BaseInv, TypeOK, Peer
    <3> QED BY <1>4, <3>1
  <2>1. OpenKept
    BY <1>4, <2>0 DEF OpenKept, KernelKept
  <2>2. Hungry(r) /\ peer'[r.fd].data => Hungry(c) /\ ~AtHand(cur)
    BY <1>4 DEF AtHand
  <2>3. \A t \in Slot : Heeded(t)'
    BY <1>1, <1>4, <2>1, <2>2, OneKept
  <2> QED BY <1>1, <1>2, <2>3 DEF Attentive
<1>5. CASE /\ c.error
           /\ \E d \in {c} \cup (IF c.rh = "headers" THEN Done(c) ELSE {}) :
                connections' = [connections EXCEPT ![cur] = d]
           /\ UNCHANGED <<peer, interest, ready_list>>
  <2>1. PICK d \in {c} \cup Done(c) : connections' = [connections EXCEPT ![cur] = d]
    BY <1>5
  <2>2. d.fd = k /\ d.instance = c.instance /\ ~Hungry(d)
    BY <1>1, <1>5, <2>1, DoneIsSated DEF Hungry
  <2> QED BY <1>4, <1>5, <2>1, <2>2
<1>6. CASE /\ ~c.error /\ (~c.ready \/ (~peer[k].data /\ ~Left(k)))
           /\ connections' = [connections EXCEPT ![cur].ready = FALSE,
                                                 ![cur].reusable = @ \/ c.rh = "wait"]
           /\ UNCHANGED <<peer, interest, ready_list>>
  <2> DEFINE b == c.reusable \/ c.rh = "wait"
             d == [c EXCEPT !.ready = FALSE, !.reusable = b]
  <2>1. connections' = [connections EXCEPT ![cur] = d]
    BY <1>1, <1>6 DEF BaseInv, TypeOK
  <2> HIDE DEF b
  <2>2. d.fd = k /\ d.instance = c.instance /\ d.rh = c.rh /\ d.error = c.error
    BY <1>1 DEF Connection
  <2> HIDE DEF d
  <2>3. Hungry(d) /\ peer'[k].data => Hungry(c) /\ ~c.ready
    BY <1>6, <2>2 DEF Hungry
  <2> QED BY <1>4, <1>6, <2>1, <2>2, <2>3
<1>7. ASSUME peer[k].data, NEW full \in BOOLEAN, Parse([c EXCEPT !.ready = c.eof \/ full], full)
      PROVE  Attentive'
  <2> DEFINE b == c.eof \/ full
             d == [c EXCEPT !.ready = b]
  <2>1. b \in BOOLEAN
    BY <1>1 DEF Connection
  <2> HIDE DEF b
  <2>2. d \in Connection /\ d.fd = k /\ d.instance = c.instance
    BY <1>1, <2>1 DEF Connection
  <2>3. Parse(d, full)
    BY <1>7 DEF b
  <2> HIDE DEF d
  <2>4. ASSUME NEW phase \in {"line", "headers"},
               LET r == [d EXCEPT !.rh = phase, !.data = "request", !.reusable = @ /\ d.rh # "wait"]
               IN \/ /\ connections' = [connections EXCEPT ![cur] = r]
                     /\ peer' = [peer EXCEPT ![d.fd].data = FALSE]
                  \/ /\ connections' = [connections EXCEPT ![cur] =
                          [r EXCEPT !.error = TRUE, !.ready = FALSE, !.eof = FALSE]]
                     /\ peer' = [peer EXCEPT ![d.fd].data = full]
                  \/ /\ \E e \in Done(r) : connections' = [connections EXCEPT ![cur] = e]
                     /\ peer' = [peer EXCEPT ![d.fd].data = FALSE],
               UNCHANGED <<interest, ready_list>>
        PROVE  Attentive'
    <3> DEFINE u == d.reusable /\ d.rh # "wait"
               r == [d EXCEPT !.rh = phase, !.data = "request", !.reusable = u]
               q == [r EXCEPT !.error = TRUE, !.ready = FALSE, !.eof = FALSE]
    <3>1. u \in BOOLEAN
      BY <2>2 DEF Connection
    <3>2. \/ connections' = [connections EXCEPT ![cur] = r] /\ peer' = [peer EXCEPT ![k].data = FALSE]
          \/ connections' = [connections EXCEPT ![cur] = q] /\ peer' = [peer EXCEPT ![k].data = full]
          \/ /\ \E e \in Done(r) : connections' = [connections EXCEPT ![cur] = e]
             /\ peer' = [peer EXCEPT ![k].data = FALSE]
      BY <2>2, <2>4
    <3> HIDE DEF u
    <3>3. r \in Connection /\ r.fd = k /\ r.instance = c.instance
      BY <2>2, <2>4, <3>1 DEF Connection
    <3> HIDE DEF r
    <3>4. q.fd = k /\ q.instance = c.instance /\ ~Hungry(q)
      BY <3>3 DEF Connection, Hungry
    <3> HIDE DEF q
    <3>5. CASE connections' = [connections EXCEPT ![cur] = r] /\ peer' = [peer EXCEPT ![k].data = FALSE]
      <4>1. ~peer'[k].data
        BY <1>1, <3>5 DEF BaseInv, TypeOK, Peer
      <4> QED BY <1>4, <2>4, <3>3, <3>5, <4>1
    <3>6. CASE connections' = [connections EXCEPT ![cur] = q] /\ peer' = [peer EXCEPT ![k].data = full]
      BY <1>4, <1>7, <2>4, <3>4, <3>6
    <3>7. CASE /\ \E e \in Done(r) : connections' = [connections EXCEPT ![cur] = e]
               /\ peer' = [peer EXCEPT ![k].data = FALSE]
      <4>1. PICK e \in Done(r) : connections' = [connections EXCEPT ![cur] = e]
        BY <3>7
      <4>2. e.fd = k /\ e.instance = c.instance /\ ~Hungry(e)
        BY <3>3, DoneIsSated
      <4> QED BY <1>4, <2>4, <3>7, <4>1, <4>2
    <3> QED BY <3>2, <3>5, <3>6, <3>7
  <2> QED BY <1>3, <2>3, <2>4 DEF Parse
<1> QED BY <1>3, <1>5, <1>6, <1>7 DEF ReadRequest

(* EPOLL_CTL_MOD keeps the interest in reading and the edges.              *)
LEMMA RearmKept ==
  ASSUME BaseInv, NEW k \in Client, NEW s \in Slot, Rearm(k, s),
         \A j \in Client : peer'[j].data = peer[j].data
  PROVE  OpenKept
<1>1. CASE UNCHANGED <<interest, ready_list>>
  BY <1>1 DEF OpenKept, KernelKept
<1>2. CASE /\ interest' = [interest EXCEPT ![k] = {"IN", "OUT", "RDHUP"}]
           /\ ready_list' \in {ready_list, ready_list \cup {k}}
  BY <1>2 DEF OpenKept, KernelKept, BaseInv, TypeOK
<1> QED BY <1>1, <1>2 DEF Rearm

LEMMA WriteResponseAttentive == BaseInv /\ Attentive /\ WriteResponse => Attentive'
<1> SUFFICES ASSUME BaseInv, Attentive, WriteResponse PROVE Attentive'
  OBVIOUS
<1> DEFINE c == connections[cur]
           k == c.fd
<1>1. /\ pc = "write" /\ cur \in Slot /\ c \in Connection /\ k \in Client /\ k # None
      /\ event_list' = event_list /\ ret \in {"next", "write_half", "drain"}
      /\ peer[k] \in Peer
  BY SlotIsOpen DEF WriteResponse, BaseInv, TypeOK, InHand, eventVars
<1>2. pc' # "wait"
  BY <1>1 DEF WriteResponse
<1>3. CASE CloseConnection(cur)
  BY <1>1, <1>2, <1>3, CloseKept DEF Attentive
<1>4. CASE /\ connections' = [connections EXCEPT ![cur] =
                [c EXCEPT !.rh = "frame", !.wh = "message", !.data = "wc", !.in_queue = TRUE]]
           /\ UNCHANGED <<peer, interest, ready_list>>
  <2> DEFINE r == [c EXCEPT !.rh = "frame", !.wh = "message", !.data = "wc", !.in_queue = TRUE]
  <2>1. r.fd = k /\ r.instance = c.instance /\ ~Hungry(r) /\ connections' = [connections EXCEPT ![cur] = r]
    BY <1>1, <1>4 DEF Connection, Hungry, Reading
  <2> HIDE DEF r
  <2>2. OpenKept
    BY <1>4 DEF OpenKept, KernelKept
  <2> QED BY <1>1, <1>2, <2>1, <2>2, OneKept DEF Attentive
<1>5. CASE /\ connections' = [connections EXCEPT ![cur].reusable = TRUE, ![cur].wactive = TRUE]
           /\ peer' = [peer EXCEPT ![k].room = FALSE] /\ Rearm(k, cur)
  <2> DEFINE r == [c EXCEPT !.reusable = TRUE, !.wactive = TRUE]
  <2>1. /\ connections' = [connections EXCEPT ![cur] = r]
        /\ r.fd = k /\ r.instance = c.instance /\ r.rh = c.rh /\ r.error = c.error
    BY <1>1, <1>5 DEF BaseInv, TypeOK, Connection
  <2>2. Hungry(r) => Hungry(c) /\ ~AtHand(cur)
    BY <1>1, <2>1 DEF Hungry, AtHand
  <2> HIDE DEF r
  <2>3. \A j \in Client : peer'[j].data = peer[j].data
    BY <1>1, <1>5 DEF BaseInv, TypeOK, Peer
  <2>4. OpenKept
    BY <1>1, <1>5, <2>3, RearmKept
  <2> QED BY <1>1, <1>2, <2>1, <2>2, <2>4, OneKept DEF Attentive
<1>6. CASE UNCHANGED <<peer, interest, ready_list, connections>>
  <2>1. OpenKept
    BY <1>6 DEF OpenKept, KernelKept
  <2> QED BY <1>1, <1>2, <1>6, <2>1, AllKept DEF Attentive
<1> QED BY <1>3, <1>4, <1>5, <1>6 DEF WriteResponse, poolVars

(* The worker sleeps after it has looked at every event of the batch.      *)
LEMMA ScanAttentive == BaseInv /\ Attentive /\ Scan => Attentive'
<1> SUFFICES ASSUME BaseInv, Attentive, Scan PROVE Attentive'
  OBVIOUS
<1>1. /\ pc = "next" /\ event_list = {} /\ event_list' = event_list
      /\ UNCHANGED <<peer, interest, ready_list, connections>>
  BY DEF Scan, kernelVars, poolVars
<1>2. OpenKept
  BY <1>1 DEF OpenKept, KernelKept
<1> QED BY <1>1, <1>2, AllKept DEF Attentive

LEMMA WalkAttentive == BaseInv /\ Attentive /\ Walk => Attentive'
<1> SUFFICES ASSUME BaseInv, Attentive, Walk PROVE Attentive'
  OBVIOUS
<1>1. pc = "walk" /\ pc' # "wait" /\ event_list' = event_list
  BY DEF Walk, eventVars
<1>2. ASSUME UNCHANGED <<peer, interest, ready_list, connections>> PROVE Attentive'
  <2>1. OpenKept
    BY <1>2 DEF OpenKept, KernelKept
  <2> QED BY <1>1, <1>2, <2>1, AllKept DEF Attentive
<1>3. CASE walk = <<>>
  BY <1>2, <1>3 DEF Walk, poolVars
<1>4. CASE walk # <<>>
  <2> DEFINE s == Head(walk)
             c == connections[s]
             k == c.fd
  <2>1. s \in Slot /\ c \in Connection /\ k \in Client /\ k # None /\ c.rh = "frame" /\ peer[k] \in Peer
    BY <1>1, <1>4, WalkedIsLive, ConnectionsAssumption DEF BaseInv, TypeOK
  <2> HIDE DEF s
  <2>2. ASSUME NEW r \in Connection, connections' = [connections EXCEPT ![s] = r],
               r.fd = k, r.instance = c.instance, r.rh = "frame", Rearm(k, s),
               \A j \in Client : peer'[j].data = peer[j].data
        PROVE  Attentive'
    <3>1. ~Hungry(r)
      BY <2>2 DEF Hungry, Reading
    <3> QED BY <1>1, <2>1, <2>2, <3>1, RearmKept, OneKept DEF Attentive
  <2>3. CASE SendWhole(s, k)
    BY <1>2, <2>3 DEF SendWhole, poolVars
  <2>4. CASE SendPart(s, k)
    <3> DEFINE r == [c EXCEPT !.wactive = TRUE, !.in_queue = FALSE]
    <3>1. /\ r \in Connection /\ r.fd = k /\ r.instance = c.instance /\ r.rh = "frame"
          /\ connections' = [connections EXCEPT ![s] = r] /\ Rearm(k, s)
          /\ peer' = [peer EXCEPT ![k].room = FALSE, ![k].got = "cut"]
      BY <2>1, <2>4 DEF SendPart, Connection, BaseInv, TypeOK
    <3> HIDE DEF r
    <3>2. \A j \in Client : peer'[j].data = peer[j].data
      BY <2>1, <3>1 DEF BaseInv, TypeOK, Peer
    <3> QED BY <2>2, <3>1, <3>2
  <2>5. CASE SendNothing(s, k)
    <3> DEFINE r == [c EXCEPT !.wactive = TRUE, !.in_queue = FALSE, !.reusable = TRUE]
    <3>1. /\ r \in Connection /\ r.fd = k /\ r.instance = c.instance /\ r.rh = "frame"
          /\ connections' = [connections EXCEPT ![s] = r] /\ Rearm(k, s)
          /\ peer' = [peer EXCEPT ![k].room = FALSE]
      BY <2>1, <2>5 DEF SendNothing, Connection, BaseInv, TypeOK
    <3> HIDE DEF r
    <3>2. \A j \in Client : peer'[j].data = peer[j].data
      BY <2>1, <3>1 DEF BaseInv, TypeOK, Peer
    <3> QED BY <2>2, <3>1, <3>2
  <2>6. CASE SendError(s, k)
    <3>1. CloseConnection(s)
      BY <2>6 DEF SendError
    <3> QED BY <1>1, <2>1, <3>1, CloseKept DEF Attentive
  <2> QED BY <1>4, <2>3, <2>4, <2>5, <2>6 DEF Walk, s
<1> QED BY <1>3, <1>4

-------------------------------------------------------------------------------
LEMMA StepAttentive == BaseInv /\ Attentive /\ [Next]_vars => Attentive'
<1> SUFFICES ASSUME BaseInv, Attentive, [Next]_vars PROVE Attentive'
  OBVIOUS
<1>1. CASE Next
  BY <1>1, ClientsAttentive, EpollWaitAttentive, TakeEventAttentive, WriteHalfAttentive,
     AcceptAttentive, DrainAttentive, TakeAttentive, ReadRequestAttentive,
     WriteResponseAttentive, ScanAttentive, WalkAttentive DEF Next, Worker
<1>2. CASE UNCHANGED vars
  <2>1. UNCHANGED <<kernelVars, poolVars, pc, eventVars>>
    BY <1>2 DEF vars
  <2>2. OpenKept
    BY <2>1 DEF OpenKept, KernelKept, kernelVars
  <2> QED BY <2>1, <2>2, AllKept DEF Attentive, poolVars, eventVars
<1> QED BY <1>1, <1>2

(* The inductive invariant: bytes a request has not read are with epoll,   *)
(* in an event of this batch, or with the handler that runs.               *)
THEOREM AttentionHolds == Spec => [](BaseInv /\ Attentive)
<1>1. Init => BaseInv /\ Attentive
  BY InitBase, InitAttentive
<1>2. (BaseInv /\ Attentive) /\ [Next]_vars => (BaseInv /\ Attentive)'
  BY StepBase, StepAttentive
<1> QED BY <1>1, <1>2, PTL DEF Spec

(* A worker that sleeps hears of every byte a request has not read: no     *)
(* reuse of a slot, stale event, drain, short read or re-registration      *)
(* loses an edge (ngx_epoll_process_events, ngx_unix_recv).                *)
THEOREM UnreadDataStaysAnnounced == Spec => []UnreadDataIsAnnounced
<1>1. Attentive => UnreadDataIsAnnounced
  BY DEF Attentive, Heeded, AtHand, Pending, Hungry, UnreadDataIsAnnounced
<1> QED BY <1>1, AttentionHolds, PTL
==============================================================================
