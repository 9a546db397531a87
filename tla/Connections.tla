------------------------------ MODULE Connections ------------------------------
(***************************************************************************)
(* One worker and its clients: the pool of connections with its free list  *)
(* and its queue of reusable ones (core/ngx_connection.c), the             *)
(* edge-triggered event loop with the instance bit (event/ngx_epoll.c),    *)
(* accept (event/ngx_event_accept.c), the HTTP request that upgrades to a  *)
(* websocket (http/ngx_http_request.c) and the delivery of messages to the *)
(* queue of channel 1 (http/ngx_websocket.c).                              *)
(*                                                                         *)
(* A step of the worker is what it does up to and including one accept4(), *)
(* recv(), send() or handler return; clients act between any two steps.    *)
(* A request is the verdict of the parser on what has been read of it, any *)
(* verdict the state of the request allows.  Timers are never set, and the *)
(* slots of the listening socket and of the channel are not counted in N.  *)
(* A message is whole and not empty here: what a worker takes from the     *)
(* ring is the business of MessageRing.                                    *)
(***************************************************************************)
EXTENDS Integers, Sequences, SequencesExt

CONSTANTS N,            \* connection_n, less the listening and channel slots
          Client,       \* the sockets of the clients
          None,         \* the fd -1
          MaxPressure,  \* bound: responses the kernel has no memory for in a run
          MaxMessages   \* bound: messages published in a run

ASSUME ConnectionsAssumption ==
  /\ N \in Nat \ {0}
  /\ None \notin Client
  /\ MaxPressure \in Nat /\ MaxMessages \in Nat

VARIABLES
  peer,             \* peer[k]: kernel and client side of the socket k
  interest,         \* interest[k]: what k is registered for in epoll
  ready_list,       \* sockets with an edge epoll_wait() has not reported
  pressure,         \* responses the kernel had no memory for
  accepting,        \* the listening socket is in epoll
  connections,      \* cycle->connections[], with read and write events
  free_connections,
  reusable_queue,   \* reusable_connections_queue, head first
  channel_queue,    \* the queue of channel 1 in ngx_websocket_hash_table
  pc, ret,          \* what the worker does next, and after the handler
  event_list,       \* events of this epoll_wait() not looked at yet
  event,            \* the event being handled
  cur,              \* the connection whose handler runs
  newcomer,         \* the socket accept4() returned
  left,             \* connections ngx_drain_connections still looks at
  walk,             \* connections this message is still to be sent to
  message_id,       \* messages in the ring
  message_id_sent,  \* ngx_websocket_message_id_sent
  seen              \* history: last message the connection was sent whole

kernelVars  == <<peer, interest, ready_list, pressure, accepting>>
poolVars    == <<connections, free_connections, reusable_queue, channel_queue>>
eventVars   == <<event_list, event, cur, newcomer, left>>
messageVars == <<walk, message_id, message_id_sent, seen>>
vars == <<kernelVars, poolVars, pc, ret, eventVars, messageVars>>

Slot == 1 .. N

(* A socket: where it is, unread bytes, how its client left, space to send,*)
(* and whether the frames the client was sent are whole or the last one is *)
(* cut.                                                                    *)
NewPeer  == [at |-> "new", data |-> FALSE, gone |-> "no", room |-> TRUE, got |-> "whole"]
DonePeer == [NewPeer EXCEPT !.at = "done"]

(* A connection: handlers of its events, what its data points to, the      *)
(* request's error and unsent response, and the flags of the events.  The  *)
(* read event is active while the connection is open.                      *)
ClosedConnection(i) ==
  [fd |-> None, instance |-> i, rh |-> "none", wh |-> "none", data |-> "none",
   error |-> FALSE, ready |-> FALSE, eof |-> FALSE,
   wactive |-> FALSE, close |-> FALSE, reusable |-> FALSE, in_queue |-> FALSE]

Backlog == {k \in Client : peer[k].at = "backlog"}
Left(k) == peer[k].gone # "no"
Reading == {"wait", "line", "headers"}     \* the handlers that do read
SlotOf(k) == CHOOSE s \in Slot : connections[s].fd = k

(* An event: the pointer with its instance bit, and the flags.             *)
NoEvent == [slot |-> 0, instance |-> 0, in |-> FALSE, out |-> FALSE, eof |-> FALSE]
LISTEN  == [NoEvent EXCEPT !.in = TRUE]

Init ==
  /\ peer = [k \in Client |-> NewPeer]
  /\ interest = [k \in Client |-> {}]
  /\ ready_list = {} /\ pressure = 0 /\ accepting = TRUE
  /\ connections = [s \in Slot |-> ClosedConnection(1)]
  /\ free_connections = [s \in Slot |-> s]
  /\ reusable_queue = <<>> /\ channel_queue = <<>>
  /\ pc = "wait" /\ ret = "next"
  /\ event_list = {} /\ event = NoEvent
  /\ cur = 1 /\ newcomer = None /\ left = 0
  /\ walk = <<>> /\ message_id = 0 /\ message_id_sent = 0
  /\ seen = [s \in Slot |-> 0]

-------------------------------------------------------------------------------
(* The pool.                                                               *)

Unlink(q, s) == RemoveAt(q, CHOOSE i \in DOMAIN q : q[i] = s)

(* ngx_reusable_connection(c, 0) and (c, 1), the queue they leave.         *)
NotReusable(s) == IF connections[s].reusable THEN Unlink(reusable_queue, s) ELSE reusable_queue
Reusable(s)    == <<s>> \o NotReusable(s)

(* Mutant: the socket is left open, and in epoll.                          *)
CloseSocket_Leaked(k) == UNCHANGED <<peer, interest, ready_list>>

CloseSocket(k) ==
  /\ peer' = [peer EXCEPT ![k] = DonePeer]
  /\ interest' = [interest EXCEPT ![k] = {}]
  /\ ready_list' = ready_list \ {k}

(* ngx_http_close_connection.                                              *)
CloseConnection(s) ==
  /\ connections' = [connections EXCEPT ![s] = ClosedConnection(@.instance)]
  /\ free_connections' = <<s>> \o free_connections
  /\ reusable_queue' = NotReusable(s)
  /\ CloseSocket(connections[s].fd)

(* Mutant: the event counts as active already, and epoll is not told.      *)
Rearm_Skipped(k, s) == UNCHANGED <<interest, ready_list>>

(* ngx_handle_write_event after a send() that met a full socket: unless    *)
(* the write event is active, EPOLL_CTL_MOD, which looks at the socket.    *)
Rearm(k, s) ==
  IF connections[s].wactive THEN UNCHANGED <<interest, ready_list>>
  ELSE /\ interest' = [interest EXCEPT ![k] = {"IN", "OUT", "RDHUP"}]
       /\ ready_list' = IF peer[k].data \/ Left(k) THEN ready_list \cup {k} ELSE ready_list

-------------------------------------------------------------------------------
(* The clients and the kernel.                                             *)

Connect(k) ==
  /\ peer[k].at = "new"
  /\ peer' = [peer EXCEPT ![k].at = "backlog"]
  /\ UNCHANGED <<interest, ready_list>>

(* Bytes arrive: an edge, for a socket in epoll.  A connection past its    *)
(* request never reads, so its bytes would only wake the worker for        *)
(* nothing, and are left out.                                              *)
Arrive(k) ==
  /\ \/ peer[k].at \in {"backlog", "accepted"}
     \/ peer[k].at = "open" /\ connections[SlotOf(k)].rh \in Reading
  /\ ~Left(k)
  /\ peer' = [peer EXCEPT ![k].data = TRUE]
  /\ ready_list' = IF "IN" \in interest[k] THEN ready_list \cup {k} ELSE ready_list
  /\ UNCHANGED interest

(* The client shuts its side down, or resets the connection; EPOLLERR and  *)
(* EPOLLHUP are reported whatever the interest.                            *)
Leave(k, how) ==
  /\ peer[k].at \in {"backlog", "accepted", "open"}
  /\ peer[k].gone \in IF how = "fin" THEN {"no"} ELSE {"no", "fin"}
  /\ peer' = [peer EXCEPT ![k].gone = how]
  /\ ready_list' = IF interest[k] # {} /\ (how = "rst" \/ "IN" \in interest[k])
                   THEN ready_list \cup {k} ELSE ready_list
  /\ UNCHANGED interest

(* The client reads, and there is space to send again.                     *)
Drained(k) ==
  /\ peer[k].at = "open" /\ ~peer[k].room
  /\ peer' = [peer EXCEPT ![k].room = TRUE]
  /\ ready_list' = IF "OUT" \in interest[k] THEN ready_list \cup {k} ELSE ready_list
  /\ UNCHANGED interest

Publish ==
  /\ message_id < MaxMessages
  /\ message_id' = message_id + 1
  /\ UNCHANGED <<kernelVars, poolVars, pc, ret, eventVars, walk, message_id_sent, seen>>

Clients ==
  \/ /\ \E k \in Client : Connect(k) \/ Arrive(k) \/ Leave(k, "fin") \/ Leave(k, "rst") \/ Drained(k)
     /\ UNCHANGED <<pressure, accepting, poolVars, pc, ret, eventVars, messageVars>>
  \/ Publish

-------------------------------------------------------------------------------
(* The event loop.                                                         *)

EventOf(k) ==
  [slot |-> SlotOf(k), instance |-> connections[SlotOf(k)].instance,
   in  |-> peer[k].gone = "rst" \/ ("IN" \in interest[k] /\ (peer[k].data \/ Left(k))),
   out |-> peer[k].gone = "rst" \/ ("OUT" \in interest[k] /\ peer[k].room),
   eof |-> "RDHUP" \in interest[k] /\ Left(k)]

Reported == {e \in {EventOf(k) : k \in ready_list} : e.in \/ e.out}
            \cup (IF accepting /\ Backlog # {} THEN {LISTEN} ELSE {})

(* Mutant: the message the worker sent last counts as unsent.              *)
Unsent_OffByOne == message_id >= message_id_sent

Unsent == message_id > message_id_sent

(* epoll_wait(), with no timer; the channel wakes it for a message.        *)
EpollWait ==
  /\ pc = "wait"
  /\ Reported # {} \/ Unsent
  /\ event_list' = Reported
  /\ ready_list' = {}
  /\ pc' = "next"
  /\ UNCHANGED <<peer, interest, pressure, accepting, poolVars, ret, event, cur, newcomer, left, messageVars>>

(* Mutant: the instance bit is compared with the wrong sense.              *)
Stale_Reversed(e) ==
  e.slot # 0 /\ (connections[e.slot].fd = None \/ connections[e.slot].instance = e.instance)

Stale(e) ==
  e.slot # 0 /\ (connections[e.slot].fd = None \/ connections[e.slot].instance # e.instance)

(* The read half of one event: a stale one is skipped, the listening       *)
(* socket accepts, a handler that reads goes on to recv(); the flags are   *)
(* left alone where no handler looks at them.                              *)
TakeEvent ==
  /\ pc = "next"
  /\ \E e \in event_list :
       /\ event_list' = event_list \ {e}
       /\ IF Stale(e) THEN UNCHANGED <<connections, pc, ret, event, cur>>
          ELSE IF e.slot = 0 THEN pc' = "accept" /\ UNCHANGED <<connections, ret, event, cur>>
          ELSE /\ event' = e /\ cur' = e.slot
               /\ ret' = IF e.out THEN "write_half" ELSE "next"
               /\ IF e.in /\ connections[e.slot].rh \in Reading
                  THEN /\ connections' = [connections EXCEPT
                                            ![e.slot].ready = ~connections[e.slot].error,
                                            ![e.slot].eof = ~connections[e.slot].error /\ e.eof]
                       /\ pc' = "read"
                  ELSE pc' = ret' /\ UNCHANGED connections
  /\ UNCHANGED <<kernelVars, free_connections, reusable_queue, channel_queue,
                 newcomer, left, messageVars>>

(* The write half.  ngx_http_empty_handler does nothing, nor does          *)
(* ngx_websocket_send_message_handler, whose message_size is never set;    *)
(* ngx_websocket_request_handler sends, or, after a drain, frees the       *)
(* request and leaves the connection open.  The second time it does so it  *)
(* reads freed memory: nothing happens, or the worker is lost.             *)
WriteHalf ==
  /\ pc = "write_half"
  /\ LET c == connections[cur]
         writable == event.out /\ c.wactive /\ ~Stale(event)
     IN \/ /\ ~writable \/ c.wh # "request"
           /\ pc' = "next" /\ UNCHANGED <<connections, ret>>
        \/ /\ writable /\ c.wh = "request" /\ ~c.close
           /\ pc' = "write" /\ ret' = "next" /\ UNCHANGED connections
        \/ /\ writable /\ c.wh = "request" /\ c.close
           /\ connections' = [connections EXCEPT ![cur].data = "freed"]
           /\ pc' \in {"next"} \cup (IF c.data = "freed" THEN {"corrupt"} ELSE {})
           /\ UNCHANGED ret
  /\ UNCHANGED <<kernelVars, free_connections, reusable_queue, channel_queue, eventVars, messageVars>>

-------------------------------------------------------------------------------
(* Accepting.                                                              *)

(* accept4(): EAGAIN; EMFILE or ENFILE, after which the listening socket   *)
(* is never put back; ECONNABORTED; or a socket.                           *)
Accept ==
  /\ pc = "accept"
  /\ \/ /\ Backlog = {} /\ pc' = "next"
        /\ UNCHANGED <<peer, accepting, newcomer, left>>
     \/ /\ accepting' = FALSE /\ pc' = "next"
        /\ UNCHANGED <<peer, newcomer, left>>
     \/ \E k \in Backlog :
          /\ peer[k].gone = "rst"
          /\ peer' = [peer EXCEPT ![k] = DonePeer]
          /\ UNCHANGED <<accepting, newcomer, left, pc>>
     \/ \E k \in Backlog :
          /\ peer' = [peer EXCEPT ![k].at = "accepted"]
          /\ newcomer' = k
          /\ IF free_connections # <<>> THEN pc' = "take" /\ left' = 0
             ELSE /\ pc' = "drain"
                  /\ left' = LET n == Len(reusable_queue) \div 8
                             IN IF n > 32 THEN 32 ELSE IF n < 1 THEN 1 ELSE n
          /\ UNCHANGED accepting
  /\ UNCHANGED <<interest, ready_list, pressure, poolVars, ret, event_list, event, cur, messageVars>>

(* ngx_drain_connections: the read handler of the connection that has been *)
(* reusable for longest is told to close.  Only the one that waits for a   *)
(* request does; one whose 403 is unsent goes on with its request.         *)
Drain ==
  /\ pc = "drain"
  /\ IF left = 0 \/ reusable_queue = <<>>
     THEN pc' = "take" /\ left' = 0 /\ UNCHANGED <<kernelVars, poolVars, ret, cur>>
     ELSE LET s == Last(reusable_queue)
          IN /\ left' = left - 1
             /\ IF connections[s].rh = "wait"
                THEN CloseConnection(s) /\ UNCHANGED <<channel_queue, pressure, accepting, pc, ret, cur>>
                ELSE /\ connections' = [connections EXCEPT ![s].close = TRUE]
                     /\ IF connections[s].rh \in {"line", "headers"}
                        THEN pc' = "read" /\ ret' = "drain" /\ cur' = s
                        ELSE UNCHANGED <<pc, ret, cur>>
                     /\ UNCHANGED <<kernelVars, free_connections, reusable_queue, channel_queue>>
  /\ UNCHANGED <<event_list, event, newcomer, messageVars>>

(* ngx_get_connection and ngx_http_init_connection; or epoll_ctl() fails;  *)
(* or no connection could be had, and accepting ends for this event.       *)
Take ==
  /\ pc = "take"
  /\ newcomer' = None
  /\ \/ /\ free_connections = <<>>
        /\ CloseSocket(newcomer)
        /\ pc' = "next"
        /\ UNCHANGED <<connections, free_connections, reusable_queue>>
     \/ /\ free_connections # <<>>
        /\ LET s == Head(free_connections)
               i == 1 - connections[s].instance
           IN \/ /\ connections' = [connections EXCEPT ![s] =
                      [ClosedConnection(i) EXCEPT !.fd = newcomer, !.rh = "wait", !.wh = "empty",
                                                  !.data = "hc", !.reusable = TRUE]]
                 /\ free_connections' = Tail(free_connections)
                 /\ reusable_queue' = <<s>> \o reusable_queue
                 /\ peer' = [peer EXCEPT ![newcomer].at = "open"]
                 /\ interest' = [interest EXCEPT ![newcomer] = {"IN"}]
                 /\ ready_list' = IF peer[newcomer].data \/ Left(newcomer)
                                  THEN ready_list \cup {newcomer} ELSE ready_list
              \/ /\ connections' = [connections EXCEPT ![s] = ClosedConnection(i)]
                 /\ CloseSocket(newcomer)
                 /\ UNCHANGED <<free_connections, reusable_queue>>
        /\ pc' = "accept"
  /\ UNCHANGED <<pressure, accepting, channel_queue, ret, event_list, event, cur, left, messageVars>>

-------------------------------------------------------------------------------
(* The request.                                                            *)

(* The headers are complete: they ask for a websocket, or are answered     *)
(* with a 403.                                                             *)
Done(c) == {[c EXCEPT !.rh = "empty", !.wh = "request", !.ready = FALSE, !.eof = FALSE,
                      !.error = @ \/ ~upgrade] : upgrade \in BOOLEAN}

(* What the parser makes of the bytes it has, the request being c: more is *)
(* needed; the request is refused with a 403; the headers are complete; or *)
(* the buffer is full of request line.  The flags of the read event are    *)
(* not looked at after the last two, and bytes not read then never are.    *)
Parse(c, full) ==
  \/ /\ \E phase \in {"line", "headers"} :
          LET r == [c EXCEPT !.rh = phase, !.data = "request",
                             !.reusable = @ /\ c.rh # "wait"]
          IN /\ c.rh = "headers" => phase = "headers"
             /\ \/ /\ ~full
                   /\ connections' = [connections EXCEPT ![cur] = r]
                   /\ peer' = [peer EXCEPT ![c.fd].data = FALSE]
                   /\ pc' = IF r.ready THEN "read" ELSE ret
                \/ /\ connections' = [connections EXCEPT ![cur] =
                        [r EXCEPT !.error = TRUE, !.ready = FALSE, !.eof = FALSE]]
                   /\ peer' = [peer EXCEPT ![c.fd].data = full]
                   /\ pc' = "write"
                \/ /\ phase = "headers"
                   /\ \E d \in Done(r) : connections' = [connections EXCEPT ![cur] = d]
                   /\ peer' = [peer EXCEPT ![c.fd].data = FALSE]
                   /\ pc' = "write"
     /\ reusable_queue' = IF c.rh = "wait" THEN NotReusable(cur) ELSE reusable_queue
     /\ UNCHANGED <<interest, ready_list, free_connections>>
  \/ /\ full /\ c.rh # "headers"
     /\ CloseConnection(cur)
     /\ pc' = ret

(* Mutant: EAGAIN is reported without looking at the socket.               *)
ReadRequest_Lazy ==
  /\ pc = "read"
  /\ connections' = [connections EXCEPT ![cur].ready = FALSE]
  /\ pc' = ret
  /\ UNCHANGED <<kernelVars, free_connections, reusable_queue, channel_queue, ret, eventVars, messageVars>>

(* The handler of the read event, one recv() and what is made of it.  A    *)
(* request is read on only while the event is ready, which a short read    *)
(* ends unless the event told of the end.  The response of a refused       *)
(* request is in the buffer the parser reads from: the parser never takes  *)
(* it for a request line, but may for the end of the headers.              *)
ReadRequest ==
  /\ pc = "read"
  /\ LET c == connections[cur]
         k == c.fd
     IN \/ /\ c.error
           /\ \E d \in {c} \cup (IF c.rh = "headers" THEN Done(c) ELSE {}) :
                connections' = [connections EXCEPT ![cur] = d]
           /\ pc' = "write"
           /\ UNCHANGED <<peer, interest, ready_list, free_connections, reusable_queue>>
        \/ /\ ~c.error /\ c.ready /\ peer[k].data
           /\ \E full \in BOOLEAN : Parse([c EXCEPT !.ready = c.eof \/ full], full)
        \/ /\ ~c.error /\ c.ready /\ ~peer[k].data /\ Left(k)
           /\ CloseConnection(cur)
           /\ pc' = ret
        \/ /\ ~c.error
           /\ ~c.ready \/ (~peer[k].data /\ ~Left(k))
           /\ connections' = [connections EXCEPT ![cur].ready = FALSE,
                                                 ![cur].reusable = @ \/ c.rh = "wait"]
           /\ reusable_queue' = IF c.rh = "wait" THEN Reusable(cur) ELSE reusable_queue
           /\ pc' = ret
           /\ UNCHANGED <<peer, interest, ready_list, free_connections>>
  /\ UNCHANGED <<pressure, accepting, channel_queue, ret, eventVars, messageVars>>

(* ngx_websocket_writer.  A whole 101 makes a websocket of the connection, *)
(* a whole 403 ends it; what the socket does not take waits for EPOLLOUT:  *)
(* a fresh socket takes all of it unless the kernel is short of memory.    *)
(* After an error ngx_http_finalize_request calls the writer again, which  *)
(* fails again, until the stack is used up.                                *)
WriteResponse ==
  /\ pc = "write"
  /\ LET c == connections[cur]
         k == c.fd
     IN \/ /\ peer[k].gone # "rst" /\ peer[k].room /\ c.error
           /\ CloseConnection(cur)
           /\ pc' = ret
           /\ UNCHANGED <<pressure, channel_queue, seen>>
        \/ /\ peer[k].gone # "rst" /\ peer[k].room /\ ~c.error
           /\ connections' = [connections EXCEPT ![cur] =
                [c EXCEPT !.rh = "frame", !.wh = "message", !.data = "wc", !.in_queue = TRUE]]
           /\ channel_queue' = Append(channel_queue, cur)
           /\ seen' = [seen EXCEPT ![cur] = message_id_sent]
           /\ pc' = ret
           /\ UNCHANGED <<peer, interest, ready_list, pressure, free_connections, reusable_queue>>
        \/ /\ peer[k].gone # "rst" /\ (peer[k].room => pressure < MaxPressure)
           /\ pressure' = IF peer[k].room THEN pressure + 1 ELSE pressure
           /\ connections' = [connections EXCEPT ![cur].reusable = TRUE, ![cur].wactive = TRUE]
           /\ reusable_queue' = Reusable(cur)
           /\ peer' = [peer EXCEPT ![k].room = FALSE]
           /\ Rearm(k, cur)
           /\ pc' = ret
           /\ UNCHANGED <<free_connections, channel_queue, seen>>
        \/ /\ peer[k].gone = "rst"
           /\ pc' = "overflow"
           /\ UNCHANGED <<peer, interest, ready_list, pressure, poolVars, seen>>
  /\ UNCHANGED <<accepting, ret, eventVars, walk, message_id, message_id_sent>>

-------------------------------------------------------------------------------
(* The messages.                                                           *)

(* Between events and between messages: is there another message?          *)
Scan ==
  /\ pc = "next" /\ event_list = {}
  /\ IF Unsent THEN pc' = "walk" /\ walk' = channel_queue
     ELSE pc' = "wait" /\ UNCHANGED walk
  /\ ret' = "next" /\ event' = NoEvent /\ cur' = 1
  /\ UNCHANGED <<kernelVars, poolVars, event_list, newcomer, left, message_id, message_id_sent, seen>>

(* Mutant: a frame that was cut leaves the connection in the queue.        *)
SendPart_Stays(s, k) ==
  /\ peer[k].gone # "rst" /\ peer[k].room
  /\ peer' = [peer EXCEPT ![k].room = FALSE, ![k].got = "cut"]
  /\ connections' = [connections EXCEPT ![s].wactive = TRUE]
  /\ Rearm(k, s)
  /\ UNCHANGED <<free_connections, reusable_queue, channel_queue, seen>>

(* send() takes a part of the frame: the connection leaves the queue, and  *)
(* nothing brings it back.                                                 *)
SendPart(s, k) ==
  /\ peer[k].gone # "rst" /\ peer[k].room
  /\ peer' = [peer EXCEPT ![k].room = FALSE, ![k].got = "cut"]
  /\ connections' = [connections EXCEPT ![s].wactive = TRUE, ![s].in_queue = FALSE]
  /\ channel_queue' = Unlink(channel_queue, s)
  /\ Rearm(k, s)
  /\ UNCHANGED <<free_connections, reusable_queue, seen>>

SendWhole(s, k) ==
  /\ peer[k].gone # "rst" /\ peer[k].room
  /\ seen' = [seen EXCEPT ![s] = message_id_sent + 1]
  /\ UNCHANGED <<peer, interest, ready_list, poolVars>>

(* Mutant: EAGAIN is taken for a frame that was sent.                      *)
SendNothing_Stays(s, k) ==
  /\ peer[k].gone # "rst"
  /\ peer' = [peer EXCEPT ![k].room = FALSE]
  /\ connections' = [connections EXCEPT ![s].wactive = TRUE, ![s].reusable = TRUE]
  /\ reusable_queue' = Reusable(s)
  /\ Rearm(k, s)
  /\ UNCHANGED <<free_connections, channel_queue, seen>>

(* EAGAIN: as for a part, and the connection is marked reusable.           *)
SendNothing(s, k) ==
  /\ peer[k].gone # "rst"
  /\ peer' = [peer EXCEPT ![k].room = FALSE]
  /\ connections' = [connections EXCEPT ![s].wactive = TRUE, ![s].in_queue = FALSE,
                                        ![s].reusable = TRUE]
  /\ channel_queue' = Unlink(channel_queue, s)
  /\ reusable_queue' = Reusable(s)
  /\ Rearm(k, s)
  /\ UNCHANGED <<free_connections, seen>>

(* Mutant: the connection is closed as if it were no websocket.            *)
SendError_Http(s, k) ==
  /\ peer[k].gone = "rst"
  /\ CloseConnection(s)
  /\ UNCHANGED <<channel_queue, seen>>

(* ngx_websocket_close_connection.                                         *)
SendError(s, k) ==
  /\ peer[k].gone = "rst"
  /\ channel_queue' = IF connections[s].in_queue THEN Unlink(channel_queue, s) ELSE channel_queue
  /\ CloseConnection(s)
  /\ UNCHANGED seen

(* ngx_websocket_process_messages: one client, or on to the next message.  *)
Walk ==
  /\ pc = "walk"
  /\ IF walk = <<>>
     THEN /\ message_id_sent' = message_id_sent + 1
          /\ pc' = "next"
          /\ UNCHANGED <<peer, interest, ready_list, poolVars, walk, seen>>
     ELSE /\ LET s == Head(walk)
                 k == connections[s].fd
             IN SendWhole(s, k) \/ SendPart(s, k) \/ SendNothing(s, k) \/ SendError(s, k)
          /\ walk' = Tail(walk)
          /\ UNCHANGED <<message_id_sent, pc>>
  /\ UNCHANGED <<pressure, accepting, ret, eventVars, message_id>>

-------------------------------------------------------------------------------
Worker == \/ EpollWait \/ TakeEvent \/ WriteHalf
          \/ Accept \/ Drain \/ Take
          \/ ReadRequest \/ WriteResponse
          \/ Scan \/ Walk

Next == Clients \/ Worker

(* The worker is never descheduled for good; clients may do nothing.       *)
Spec == Init /\ [][Next]_vars /\ WF_vars(Worker)

-------------------------------------------------------------------------------
(* Properties.                                                             *)

Lost == pc \in {"overflow", "corrupt"}

Peer == [at : {"new", "backlog", "accepted", "open", "done"}, data : BOOLEAN,
         gone : {"no", "fin", "rst"}, room : BOOLEAN, got : {"whole", "cut"}]

Connection ==
  [fd : Client \cup {None}, instance : {0, 1},
   rh : {"none", "wait", "line", "headers", "empty", "frame"},
   wh : {"none", "empty", "request", "message"},
   data : {"none", "hc", "request", "freed", "wc"},
   error : BOOLEAN, ready : BOOLEAN, eof : BOOLEAN,
   wactive : BOOLEAN, close : BOOLEAN, reusable : BOOLEAN, in_queue : BOOLEAN]

Event == [slot : 0 .. N, instance : {0, 1}, in : BOOLEAN, out : BOOLEAN, eof : BOOLEAN]

(* Every variable has its type.                                            *)
TypeOK ==
  /\ peer \in [Client -> Peer]
  /\ interest \in [Client -> SUBSET {"IN", "OUT", "RDHUP"}]
  /\ ready_list \subseteq Client
  /\ pressure \in 0 .. MaxPressure /\ accepting \in BOOLEAN
  /\ connections \in [Slot -> Connection]
  /\ free_connections \in Seq(Slot) /\ reusable_queue \in Seq(Slot)
  /\ channel_queue \in Seq(Slot) /\ walk \in Seq(Slot)
  /\ pc \in {"wait", "next", "read", "write_half", "write", "accept", "drain", "take",
             "walk", "overflow", "corrupt"}
  /\ ret \in {"next", "write_half", "drain"}
  /\ event_list \subseteq Event /\ event \in Event
  /\ cur \in Slot /\ newcomer \in Client \cup {None} /\ left \in 0 .. 32
  /\ message_id \in 0 .. MaxMessages /\ message_id_sent \in 0 .. message_id
  /\ seen \in [Slot -> 0 .. MaxMessages]

(* Every slot is either on the free list, once, or holds an open socket    *)
(* that no other slot holds: no handler, drain or failed send, in whatever *)
(* order, frees a connection twice or forgets one                          *)
(* (ngx_free_connection, ngx_close_connection).                            *)
PoolIsAccounted ==
  /\ \A s \in Slot : connections[s].fd = None <=> s \in ToSet(free_connections)
  /\ IsInjective(free_connections)
  /\ \A k \in Client : peer[k].at = "open" <=> \E s \in Slot : connections[s].fd = k
  /\ \A s, t \in Slot : s # t /\ connections[s].fd # None => connections[s].fd # connections[t].fd

(* What is linked into a queue is an open connection, once, of the kind    *)
(* the queue's user takes it for: the delivery finds live websockets, the  *)
(* drain finds a read handler to call.                                     *)
QueuesHoldLiveConnections ==
  /\ IsInjective(reusable_queue) /\ IsInjective(channel_queue)
  /\ \A s \in Slot :
       /\ s \in ToSet(reusable_queue) <=> connections[s].reusable
       /\ s \in ToSet(channel_queue) <=> connections[s].in_queue
       /\ connections[s].reusable => connections[s].fd # None
       /\ connections[s].in_queue => /\ connections[s].fd # None /\ connections[s].data = "wc"
                                     /\ connections[s].wh = "message"

(* Edge-triggered: when the worker sleeps, bytes that a request in the     *)
(* making has not read have an edge that epoll_wait() is still to report.  *)
UnreadDataIsAnnounced ==
  pc = "wait" =>
    \A s \in Slot : LET c == connections[s]
                    IN c.rh \in Reading /\ ~c.error /\ peer[c.fd].data
                         => c.fd \in ready_list

(* A websocket client whose last frame was cut short is not sent another:  *)
(* it never takes the head of one frame for the rest of the one before.    *)
CutFrameIsLast ==
  \A s \in Slot : LET c == connections[s]
                  IN c.in_queue => peer[c.fd].got = "whole"

(* Whoever is in the queue of the channel has been sent every message the  *)
(* worker has passed since it joined, whole, whatever left the queue while *)
(* it was walked.                                                          *)
SubscribersInStep ==
  \A s \in Slot : connections[s].in_queue =>
    seen[s] = IF pc = "walk" /\ s \notin ToSet(walk) THEN message_id_sent + 1 ELSE message_id_sent

(* A client that leaves before it has sent anything that is unread is      *)
(* closed, unless the worker is lost to another one.                       *)
LeaversAreClosed ==
  \A k \in Client :
    (peer[k].at = "open" /\ connections[SlotOf(k)].rh = "wait" /\ Left(k) /\ ~peer[k].data)
      ~> (peer[k].at = "done" \/ Lost)

(* A 101 or 403 that met a full socket, its write handler in place, is     *)
(* finished or given up once there is space again, unless the connection   *)
(* was drained meanwhile: no edge for writing is lost                      *)
(* (ngx_handle_write_event, ngx_websocket_request_handler).                *)
ResponsesAreFinished ==
  \A s \in Slot :
    LET c == connections[s]
        pending == c.wh = "request" /\ c.wactive /\ ~c.close
    IN (pending /\ peer[c.fd].room) ~> (~pending \/ Lost)

(* ngx_epoll.c:359 means a read event to be told of EPOLLRDHUP, and recv() *)
(* relies on it: the end of a request's input has an edge to come as well. *)
UnreadEndIsAnnounced ==
  pc = "wait" =>
    \A s \in Slot : LET c == connections[s]
                    IN c.rh \in Reading /\ ~c.error /\ Left(c.fd)
                         => c.fd \in ready_list

(* SIGPIPE is ignored (ngx_process.c:68), so that a write to a connection  *)
(* its client has reset is an error the worker survives.                   *)
ResetsAreSurvived == pc # "overflow"
===============================================================================
