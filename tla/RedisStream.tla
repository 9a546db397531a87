------------------------------ MODULE RedisStream ------------------------------
(***************************************************************************)
(* The redis client of the message process (os/unix/ngx_redis_message.c    *)
(* and ngx_process_websocket_messages in os/unix/ngx_process_cycle.c): it  *)
(* subscribes to one channel, and turns the bytes of the connection, cut   *)
(* by the network anywhere, into messages.  What becomes of a message then *)
(* is in MessageRing.                                                      *)
(*                                                                         *)
(* The buffer holds cells instead of bytes: a cell is a stretch of bytes   *)
(* the parser takes one by one without looking at what it has kept, or     *)
(* compares at once.  Memory past the end of the buffer matches nothing.   *)
(***************************************************************************)
EXTENDS Integers, Sequences

CONSTANTS
  End,          \* NGX_REDIS_BUFFER_SIZE, in cells
  Slack,        \* NGX_WEBSOCKET_MAX_MESSAGE_LENGTH less the prefix, in cells
  MaxPayload,   \* the longest message the parser lets pass
  MaxMessages,  \* bound: messages published in a run
  MaxFailures   \* bound: times redis closes or a signal interrupts recv()

ASSUME RedisAssumption ==
  /\ End \in Nat /\ Slack \in Nat /\ End >= 2 * Slack
  /\ MaxPayload \in Nat /\ MaxMessages \in Nat /\ MaxFailures \in Nat

VARIABLES
  stream,          \* what redis has sent on this connection, not received
  answer,          \* what redis says to the subscription
  gone,            \* redis has closed this connection
  failures,
  size,            \* payload sizes of the messages published
  buffer,          \* rc->buffer, cells 1 .. End
  pos, last,       \* b->pos, b->last: 1 is b->start, End + 1 is b->end
  state,           \* rc->state
  after_cr,        \* rc->after_cr
  number,          \* rc->number, as atoi() reads it
  message_length,  \* rc->message_length
  message_start,   \* rc->message_start
  parse_done,      \* rc->parse_done
  p,               \* the parser's own pointer
  pc,              \* where the process is
  broadcast,       \* the messages handed to the workers
  cut,             \* history: a comparison went past b->last
  moved,           \* history: the start of the buffer was copied over a tail
  reconnected,     \* history: there has been another connection before
  mistaken         \* history: "gone away" was logged of a redis that was not

redisVars   == <<stream, answer, gone, failures, size>>
bufferVars  == <<buffer, pos, last>>
parserVars  == <<state, after_cr, number, message_length, message_start, parse_done>>
historyVars == <<cut, moved, reconnected, mistaken>>
vars == <<redisVars, bufferVars, parserVars, p, pc, broadcast, historyVars>>

(* A cell, with a number where it stands for a length or for a message.    *)
Cell(c) == [c |-> c, n |-> 0]
Digits(n) == [c |-> "digits", n |-> n]
Value(m) == [c |-> "value", n |-> m]
CRLF == <<Cell("cr"), Cell("lf")>>

Payload(m, n) == [i \in 1 .. n |-> Value(m)]

(* "*3", what the parser compares after it, and what it takes one by one.  *)
Literal == CRLF \o <<Cell("subscribe")>>
Reply == <<Cell("*")>> \o Literal \o <<Cell("channel")>>
Refusal == <<Cell("-")>> \o CRLF
Answer(a) == IF a = "yes" THEN Reply ELSE Refusal

Prefix == <<Cell("*"), Cell("message")>>
Frame(m, n) == Prefix \o <<Digits(n)>> \o CRLF \o Payload(m, n) \o CRLF

Init ==
  /\ answer \in {"yes", "no"} /\ stream = Answer(answer)
  /\ gone = FALSE /\ failures = 0 /\ size = <<>>
  /\ buffer = [i \in 1 .. End |-> Cell("unset")] /\ pos = 1 /\ last = 1
  /\ state = "start" /\ after_cr = FALSE /\ number = 0
  /\ message_length = 0 /\ message_start = 1 /\ parse_done = FALSE
  /\ p = 1 /\ pc = "recv" /\ broadcast = <<>>
  /\ cut = FALSE /\ moved = FALSE /\ reconnected = FALSE /\ mistaken = FALSE

-------------------------------------------------------------------------------
(* Redis.                                                                  *)

Publish ==
  /\ Len(size) < MaxMessages
  /\ answer = "yes" /\ ~gone
  /\ \E n \in 0 .. MaxPayload + 1 :
       /\ size' = Append(size, n)
       /\ stream' = stream \o Frame(Len(size) + 1, n)
  /\ UNCHANGED <<answer, gone, failures, bufferVars, parserVars, p, pc, broadcast, historyVars>>

(* Redis closes the connection: what it has sent can still be received.    *)
Close ==
  /\ failures < MaxFailures /\ ~gone
  /\ failures' = failures + 1
  /\ gone' = TRUE
  /\ UNCHANGED <<stream, answer, size, bufferVars, parserVars, p, pc, broadcast, historyVars>>

Redis == Publish \/ Close

-------------------------------------------------------------------------------
(* The connection.                                                         *)

(* The socket is closed; redis is connected to and subscribed to again, or *)
(* the process exits.  Buffer and parser stay as they are.                 *)
Reconnect ==
  /\ reconnected' = TRUE
  /\ \/ /\ answer' \in {"yes", "no"} /\ stream' = Answer(answer')
        /\ gone' = FALSE /\ pc' = "loop"
     \/ pc' = "exit" /\ UNCHANGED <<stream, answer, gone>>
  /\ UNCHANGED <<size, bufferVars, parserVars, p, broadcast, cut, moved>>

Space == End + 1 - last

(* Mutant: recv() is given the whole buffer.                               *)
Received_NoLimit(n) ==
  /\ buffer' = [i \in 1 .. End |-> IF i \in last .. last + n - 1 THEN stream[i - last + 1] ELSE buffer[i]]
  /\ last' = last + n + 1
  /\ stream' = SubSeq(stream, n + 1, Len(stream))

Received(n) ==
  /\ buffer' = [i \in 1 .. End |-> IF i \in last .. last + n - 1 THEN stream[i - last + 1] ELSE buffer[i]]
  /\ last' = last + n
  /\ stream' = SubSeq(stream, n + 1, Len(stream))

(* recv() into what is left of the buffer: some of what is there; 0 at the *)
(* end of the stream, and 0 if nothing is left of the buffer.              *)
Receive ==
  /\ pc = "recv"
  /\ \/ /\ \E n \in 1 .. Len(stream) : n <= Space /\ Received(n)
        /\ pc' = "loop"
        /\ UNCHANGED <<answer, gone, failures, size, pos, parserVars, p, broadcast, historyVars>>
     \/ /\ Space = 0 \/ (stream = <<>> /\ gone)
        /\ mistaken' = (mistaken \/ ~gone)
        /\ Reconnect /\ UNCHANGED failures

(* A signal ends recv() with EINTR, as any other error would.              *)
Interrupted ==
  /\ pc = "recv" /\ Space > 0 /\ stream = <<>> /\ ~gone
  /\ failures < MaxFailures /\ failures' = failures + 1
  /\ Reconnect /\ UNCHANGED mistaken

-------------------------------------------------------------------------------
(* The parser, one cell a step.                                            *)

(* Mutant: the carriage return is not remembered from call to call.        *)
Call_Forgets ==
  /\ pc = "loop"
  /\ p' = pos /\ pc' = "parse" /\ after_cr' = FALSE
  /\ UNCHANGED <<redisVars, bufferVars, state, number, message_length, message_start, parse_done,
                 broadcast, historyVars>>

(* The parser is called; before, if a message has just been parsed and the *)
(* room for another is short, the start of the buffer is copied to pos,    *)
(* which parse_start is then equal to.                                     *)
Call ==
  /\ pc = "loop"
  /\ p' = pos /\ pc' = "parse"
  /\ IF parse_done /\ End + 1 - pos < Slack
     THEN /\ buffer' = [i \in 1 .. End |-> IF i \in pos .. last - 1 THEN buffer[i - pos + 1] ELSE buffer[i]]
          /\ moved' = (moved \/ pos < last)
     ELSE UNCHANGED <<buffer, moved>>
  /\ UNCHANGED <<redisVars, pos, last, parserVars, broadcast, cut, reconnected, mistaken>>

(* strncmp() with what the buffer holds, received or not.                  *)
Matches(literal) == \A i \in 1 .. Len(literal) : p + i - 1 <= End /\ buffer[p + i - 1] = literal[i]

(* A state that compares at once: on to the next, or exit.                 *)
Compare(literal, next) ==
  /\ cut' = (cut \/ p + Len(literal) > last)
  /\ IF Matches(literal) THEN state' = next /\ p' = p + Len(literal) /\ number' = 0 /\ UNCHANGED pc
     ELSE pc' = "exit" /\ UNCHANGED <<state, p, number>>
  /\ UNCHANGED <<bufferVars, after_cr, message_length, message_start, broadcast>>

Skip == p' = p + 1 /\ UNCHANGED <<bufferVars, pc, broadcast, cut>>
Exit == pc' = "exit" /\ UNCHANGED <<bufferVars, state, number, message_length, message_start, p,
                                    broadcast, cut>>

Start(ch) ==
  /\ state = "start"
  /\ \/ ch = Cell("-") /\ state' = "error" /\ Skip /\ UNCHANGED <<number, message_length, message_start>>
     \/ ch = Cell("*") /\ state' = "subscribe" /\ Skip /\ UNCHANGED <<number, message_length, message_start>>
     \/ ch.c \notin {"-", "*"} /\ Exit
  /\ UNCHANGED after_cr

(* A line with an error, at whose end the process exits.                   *)
ErrorLine(ch) ==
  /\ state = "error"
  /\ after_cr' = (ch.c = "cr")
  /\ IF ch.c = "lf" /\ after_cr THEN Exit
     ELSE Skip /\ UNCHANGED <<state, number, message_length, message_start>>

Channel(ch) ==
  /\ state = "channel"
  /\ IF ch.c = "channel" THEN state' = "message" /\ Skip /\ UNCHANGED <<number, message_length, message_start>>
     ELSE Exit
  /\ after_cr' = FALSE

Length(ch) ==
  /\ state = "length"
  /\ \/ /\ ch.c = "cr"
        /\ after_cr' = TRUE
        /\ Skip /\ UNCHANGED <<state, number, message_length, message_start>>
     \/ /\ ch.c = "lf" /\ after_cr
        /\ IF number > MaxPayload THEN Exit
           ELSE /\ message_length' = number /\ message_start' = p + 1 /\ state' = "value"
                /\ Skip /\ UNCHANGED number
        /\ UNCHANGED after_cr
     \/ /\ ch.c = "digits"
        /\ number' = 10 * number + ch.n
        /\ after_cr' = FALSE
        /\ Skip /\ UNCHANGED <<state, message_length, message_start>>
     \/ /\ ch.c \notin {"cr", "digits"} /\ ~(ch.c = "lf" /\ after_cr)
        /\ after_cr' = FALSE
        /\ Exit

(* Mutant: the parser is not called again for what the buffer still holds. *)
Done_Waits ==
  /\ broadcast' = Append(broadcast, SubSeq(buffer, message_start, p - 2))
  /\ pos' = p + 1 /\ state' = "message" /\ pc' = "recv"
  /\ parse_done' = TRUE /\ after_cr' = FALSE
  /\ UNCHANGED <<buffer, last, p, number, message_length, message_start, cut>>

(* A message is complete: it is handed on.                                 *)
Done ==
  /\ broadcast' = Append(broadcast, SubSeq(buffer, message_start, p - 2))
  /\ pos' = p + 1 /\ state' = "message" /\ pc' = "loop"
  /\ parse_done' = TRUE /\ after_cr' = FALSE
  /\ UNCHANGED <<buffer, last, p, number, message_length, message_start, cut>>

InPayload(ch) ==
  /\ state = "value"
  /\ IF message_length > 0
     THEN message_length' = message_length - 1 /\ UNCHANGED after_cr
     ELSE /\ ~(ch.c = "lf" /\ after_cr)
          /\ after_cr' = (ch.c = "cr")
          /\ UNCHANGED message_length
  /\ Skip /\ UNCHANGED <<state, number, message_start>>

Parse ==
  /\ pc = "parse" /\ p < last
  /\ LET ch == buffer[p]
     IN \/ /\ \/ Start(ch) \/ ErrorLine(ch) \/ Channel(ch) \/ Length(ch) \/ InPayload(ch)
              \/ state = "subscribe" /\ Compare(Literal, "channel")
              \/ state = "message" /\ Compare(Prefix, "length")
           /\ parse_done' = FALSE
        \/ /\ state = "value" /\ message_length = 0
           /\ ch.c = "lf" /\ after_cr
           /\ Done
  /\ UNCHANGED <<redisVars, moved, reconnected, mistaken>>

(* Mutant: the buffer is reset whenever all of it has been looked at.      *)
Again_AlwaysResets ==
  /\ pc = "parse" /\ p >= last
  /\ IF p = last THEN pos' = 1 /\ last' = 1 ELSE pos' = p /\ UNCHANGED last
  /\ pc' = "recv"
  /\ UNCHANGED <<redisVars, buffer, parserVars, p, broadcast, historyVars>>

(* NGX_AGAIN: the buffer is reset if it ends with a message, and recv() is *)
(* next.                                                                   *)
Again ==
  /\ pc = "parse" /\ p >= last
  /\ IF p = last /\ parse_done THEN pos' = 1 /\ last' = 1 ELSE pos' = p /\ UNCHANGED last
  /\ pc' = "recv"
  /\ UNCHANGED <<redisVars, buffer, parserVars, p, broadcast, historyVars>>

-------------------------------------------------------------------------------
Process == Receive \/ Call \/ Parse \/ Again

Next == Redis \/ Interrupted \/ Process

(* The process runs whenever it is not waiting in recv(); redis may do     *)
(* nothing, and no signal is owed.                                         *)
Spec == Init /\ [][Next]_vars /\ WF_vars(Process)

-------------------------------------------------------------------------------
(* Properties.                                                             *)

CellType == [c : {"unset", "*", "-", "cr", "lf", "subscribe", "channel", "message", "digits", "value"},
             n : Nat]

(* Every variable has its type, pos and last stay inside the buffer.       *)
TypeOK ==
  /\ stream \in Seq(CellType) /\ answer \in {"yes", "no"} /\ gone \in BOOLEAN
  /\ failures \in 0 .. MaxFailures
  /\ size \in Seq(0 .. MaxPayload + 1) /\ Len(size) <= MaxMessages
  /\ buffer \in [1 .. End -> CellType]
  /\ pos \in 1 .. End + 1 /\ last \in 1 .. End + 1 /\ p \in 1 .. End + 1
  /\ state \in {"start", "error", "subscribe", "channel", "message", "length", "value"}
  /\ after_cr \in BOOLEAN /\ number \in Nat
  /\ message_length \in 0 .. MaxPayload /\ message_start \in 1 .. End + 1
  /\ parse_done \in BOOLEAN /\ pc \in {"recv", "loop", "parse", "exit"}
  /\ broadcast \in Seq(Seq(CellType))
  /\ cut \in BOOLEAN /\ moved \in BOOLEAN /\ reconnected \in BOOLEAN /\ mistaken \in BOOLEAN

(* The messages handed on are those published, in order and unchanged.     *)
MessagesAreThosePublished ==
  /\ Len(broadcast) <= Len(size)
  /\ \A m \in 1 .. Len(broadcast) : broadcast[m] = Payload(m, size[m])

(* While the process sleeps in recv() no message is left in the buffer.    *)
NothingIsLeftBehind == pc = "recv" /\ stream = <<>> => Len(broadcast) = Len(size)

(* The process only exits for a reason: a refused subscription, a message  *)
(* that is too long, or a comparison with bytes that have not come.  A cut *)
(* in a length, a payload or a line end is none.                           *)
ExitHasCause == pc = "exit" => cut \/ answer = "no" \/ \E m \in 1 .. Len(size) : size[m] > MaxPayload

(* Wherever the network cuts the stream, even inside what strncmp()        *)
(* compares, this is so on the first connection and until a tail is copied *)
(* over (ngx_process_parse_message, ngx_process_websocket_messages).       *)
CutsDoNotMatter ==
  ~moved /\ ~reconnected => MessagesAreThosePublished /\ NothingIsLeftBehind /\ ExitHasCause

(* A message published is handed on, unless the connection or the process  *)
(* is lost before.                                                         *)
MessagesArrive ==
  \A m \in 1 .. MaxMessages :
    Len(size) >= m ~> (Len(broadcast) >= m \/ pc = "exit" \/ moved \/ reconnected)

(* "redis server has gone away." (ngx_process_cycle.c:249) is logged of a  *)
(* redis that has closed the connection.                                   *)
GoneAwayMeansGone == ~mistaken
===============================================================================
