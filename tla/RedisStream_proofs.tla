-------------------------- MODULE RedisStream_proofs --------------------------
(***************************************************************************)
(* Proofs about RedisStream for every buffer, payload limit and number of  *)
(* messages.                                                               *)
(***************************************************************************)
EXTENDS RedisStream, SequenceTheorems, TLAPS

-------------------------------------------------------------------------------
(* What redis sends.                                                       *)

LEMMA CellsHaveType ==
  /\ \A c \in {"unset", "*", "-", "cr", "lf", "subscribe", "channel", "message"} : Cell(c) \in CellType
  /\ \A n \in Nat : Digits(n) \in CellType /\ Value(n) \in CellType
BY DEF Cell, Digits, Value, CellType

LEMMA AnswersHaveType == \A a : Answer(a) \in Seq(CellType)
<1>1. CRLF \in Seq(CellType)
  BY CellsHaveType DEF CRLF
<1>2. Reply \in Seq(CellType)
  BY <1>1, CellsHaveType DEF Reply, Literal
<1>3. Refusal \in Seq(CellType)
  BY <1>1, CellsHaveType DEF Refusal
<1> QED BY <1>2, <1>3 DEF Answer

LEMMA FramesHaveType == \A m, n \in Nat : Frame(m, n) \in Seq(CellType)
<1> SUFFICES ASSUME NEW m \in Nat, NEW n \in Nat PROVE Frame(m, n) \in Seq(CellType)
  OBVIOUS
<1>1. CRLF \in Seq(CellType)
  BY CellsHaveType DEF CRLF
<1>2. Prefix \in Seq(CellType)
  BY CellsHaveType DEF Prefix
<1>3. Payload(m, n) \in Seq(CellType)
  BY CellsHaveType DEF Payload
<1>4. <<Digits(n)>> \in Seq(CellType)
  BY CellsHaveType
<1> QED BY <1>1, <1>2, <1>3, <1>4 DEF Frame

-------------------------------------------------------------------------------
(* Every action keeps the types.                                           *)

LEMMA InitType == Init => TypeOK
<1> SUFFICES ASSUME Init PROVE TypeOK
  OBVIOUS
<1>1. stream \in Seq(CellType)
  BY AnswersHaveType DEF Init
<1>2. buffer \in [1 .. End -> CellType]
  BY CellsHaveType DEF Init
<1>3. 1 \in 1 .. End + 1 /\ 0 \in 0 .. MaxPayload /\ 0 \in 0 .. MaxFailures
  BY RedisAssumption
<1>4. size \in Seq(0 .. MaxPayload + 1) /\ Len(size) <= MaxMessages /\ broadcast \in Seq(Seq(CellType))
  BY RedisAssumption DEF Init
<1> QED BY <1>1, <1>2, <1>3, <1>4 DEF Init, TypeOK

LEMMA RedisType == TypeOK /\ Redis => TypeOK'
<1> SUFFICES ASSUME TypeOK, Redis PROVE TypeOK'
  OBVIOUS
<1>1. CASE Publish
  <2>1. PICK n \in 0 .. MaxPayload + 1 : /\ size' = Append(size, n)
                                          /\ stream' = stream \o Frame(Len(size) + 1, n)
    BY <1>1 DEF Publish
  <2>2. Len(size) \in Nat /\ Len(size) < MaxMessages /\ n \in Nat
    BY <1>1, RedisAssumption DEF Publish, TypeOK
  <2>3. stream' \in Seq(CellType)
    BY <2>1, <2>2, FramesHaveType DEF TypeOK
  <2>4. size' \in Seq(0 .. MaxPayload + 1) /\ Len(size') <= MaxMessages
    BY <2>1, <2>2, RedisAssumption DEF TypeOK
  <2> QED BY <1>1, <2>3, <2>4 DEF Publish, TypeOK, bufferVars, parserVars, historyVars
<1>2. CASE Close
  BY <1>2, RedisAssumption DEF Close, TypeOK, bufferVars, parserVars, historyVars
<1> QED BY <1>1, <1>2 DEF Redis

LEMMA ReconnectType ==
  ASSUME TypeOK, Reconnect, mistaken' \in BOOLEAN, failures' \in 0 .. MaxFailures
  PROVE  TypeOK'
<1>1. stream' \in Seq(CellType) /\ answer' \in {"yes", "no"} /\ gone' \in BOOLEAN
  BY AnswersHaveType DEF Reconnect, TypeOK
<1>2. pc' \in {"loop", "exit"} /\ reconnected' = TRUE
  BY DEF Reconnect
<1>3. UNCHANGED <<size, bufferVars, parserVars, p, broadcast, cut, moved>>
  BY DEF Reconnect
<1> QED BY <1>1, <1>2, <1>3 DEF TypeOK, bufferVars, parserVars

LEMMA InterruptedType == TypeOK /\ Interrupted => TypeOK'
<1> SUFFICES ASSUME TypeOK, Interrupted PROVE TypeOK'
  OBVIOUS
<1>1. mistaken' \in BOOLEAN /\ failures' \in 0 .. MaxFailures
  BY RedisAssumption DEF Interrupted, TypeOK
<1> QED BY <1>1, ReconnectType DEF Interrupted

LEMMA ReceiveType == TypeOK /\ Receive => TypeOK'
<1> SUFFICES ASSUME TypeOK, Receive PROVE TypeOK'
  OBVIOUS
<1>1. ASSUME NEW n \in 1 .. Len(stream), n <= Space, Received(n), pc' = "loop",
             UNCHANGED <<answer, gone, failures, size, pos, parserVars, p, broadcast, historyVars>>
      PROVE  TypeOK'
  <2>0. stream \in Seq(CellType) /\ last \in 1 .. End + 1 /\ buffer \in [1 .. End -> CellType]
    BY DEF TypeOK
  <2>1. last' \in 1 .. End + 1
    BY <1>1, <2>0, RedisAssumption DEF Received, Space
  <2>2. stream' \in Seq(CellType)
    BY <1>1, <2>0 DEF Received
  <2>3. \A i \in last .. last + n - 1 : stream[i - last + 1] \in CellType
    <3> TAKE i \in last .. last + n - 1
    <3>1. i - last + 1 \in 1 .. Len(stream)
      BY <1>1, <2>0
    <3> QED BY <3>1, <2>0
  <2>4. buffer' \in [1 .. End -> CellType]
    BY <1>1, <2>0, <2>3 DEF Received
  <2> QED BY <1>1, <2>1, <2>2, <2>4 DEF TypeOK, parserVars, historyVars
<1>2. ASSUME mistaken' = (mistaken \/ ~gone), Reconnect, UNCHANGED failures
      PROVE  TypeOK'
  <2>1. mistaken' \in BOOLEAN
    BY <1>2 DEF TypeOK
  <2>2. failures' \in 0 .. MaxFailures
    BY <1>2 DEF TypeOK
  <2> QED BY <1>2, <2>1, <2>2, ReconnectType
<1> QED BY <1>1, <1>2 DEF Receive

LEMMA CallType == TypeOK /\ Call => TypeOK'
<1> SUFFICES ASSUME TypeOK, Call PROVE TypeOK'
  OBVIOUS
<1>1. p' \in 1 .. End + 1 /\ pc' = "parse"
  BY DEF Call, TypeOK
<1>2. buffer' \in [1 .. End -> CellType] /\ moved' \in BOOLEAN
  <2>1. CASE UNCHANGED <<buffer, moved>>
    BY <2>1 DEF TypeOK
  <2>2. CASE /\ buffer' = [i \in 1 .. End |-> IF i \in pos .. last - 1 THEN buffer[i - pos + 1] ELSE buffer[i]]
             /\ moved' = (moved \/ pos < last)
    <3>1. \A i \in 1 .. End : i \in pos .. last - 1 => i - pos + 1 \in 1 .. End
      BY RedisAssumption DEF TypeOK
    <3>2. buffer' \in [1 .. End -> CellType]
      BY <2>2, <3>1 DEF TypeOK
    <3>3. moved' \in BOOLEAN
      BY <2>2 DEF TypeOK
    <3> QED BY <3>2, <3>3
  <2> QED BY <2>1, <2>2 DEF Call
<1>3. UNCHANGED <<redisVars, pos, last, parserVars, broadcast, cut, reconnected, mistaken>>
  BY DEF Call
<1> QED BY <1>1, <1>2, <1>3 DEF TypeOK, redisVars, parserVars

(* A comparison that holds ends inside the buffer.                         *)
LEMMA CompareType ==
  ASSUME TypeOK, NEW literal \in Seq(CellType), Len(literal) \in Nat \ {0},
         NEW next \in {"channel", "length"}, Compare(literal, next),
         parse_done' = FALSE, UNCHANGED <<redisVars, moved, reconnected, mistaken>>
  PROVE  TypeOK'
<1>1. cut' \in BOOLEAN
  <2>1. cut' = (cut \/ p + Len(literal) > last)
    BY DEF Compare
  <2> QED BY <2>1 DEF TypeOK
<1>2. /\ state' \in {"start", "error", "subscribe", "channel", "message", "length", "value"}
      /\ number' \in Nat /\ pc' \in {"recv", "loop", "parse", "exit"}
      /\ p' \in 1 .. End + 1
  <2>1. CASE Matches(literal)
    <3>1. p + Len(literal) - 1 <= End
      <4>1. Len(literal) \in 1 .. Len(literal)
        OBVIOUS
      <4> QED BY <2>1, <4>1 DEF Matches
    <3>2. p + Len(literal) \in 1 .. End + 1
      BY <3>1, RedisAssumption DEF TypeOK
    <3> QED BY <2>1, <3>2 DEF Compare, TypeOK
  <2>2. CASE ~Matches(literal)
    BY <2>2 DEF Compare, TypeOK
  <2> QED BY <2>1, <2>2
<1>3. UNCHANGED <<bufferVars, after_cr, message_length, message_start, broadcast>>
  BY DEF Compare
<1> QED BY <1>1, <1>2, <1>3 DEF TypeOK, redisVars, bufferVars

LEMMA ParseType == TypeOK /\ Parse => TypeOK'
<1> SUFFICES ASSUME TypeOK, Parse PROVE TypeOK'
  OBVIOUS
<1> DEFINE ch == buffer[p]
<1>1. /\ pc = "parse" /\ p \in 1 .. End /\ p + 1 \in 1 .. End + 1 /\ ch \in CellType /\ ch.n \in Nat
  BY RedisAssumption DEF Parse, TypeOK, CellType
<1>2. UNCHANGED <<redisVars, moved, reconnected, mistaken>>
  BY DEF Parse
<1>3. ASSUME state' \in {"start", "error", "subscribe", "channel", "message", "length", "value"},
             after_cr' \in BOOLEAN, number' \in Nat,
             message_length' \in 0 .. MaxPayload, message_start' \in 1 .. End + 1,
             parse_done' \in BOOLEAN,
             \/ Skip
             \/ pc' = "exit" /\ UNCHANGED <<bufferVars, p, broadcast, cut>>
      PROVE  TypeOK'
  <2>1. /\ p' \in 1 .. End + 1 /\ pc' \in {"recv", "loop", "parse", "exit"}
        /\ UNCHANGED <<bufferVars, broadcast, cut>>
    BY <1>1, <1>3 DEF Skip, TypeOK
  <2> QED BY <1>2, <1>3, <2>1 DEF TypeOK, redisVars, bufferVars
<1>4. ASSUME Start(ch) \/ ErrorLine(ch) \/ Channel(ch) \/ Length(ch) \/ InPayload(ch), parse_done' = FALSE
      PROVE  TypeOK'
  <2>1. /\ state' \in {"start", "error", "subscribe", "channel", "message", "length", "value"}
        /\ after_cr' \in BOOLEAN
        /\ number' \in Nat
        /\ message_length' \in 0 .. MaxPayload /\ message_start' \in 1 .. End + 1
        /\ Skip \/ (pc' = "exit" /\ UNCHANGED <<bufferVars, p, broadcast, cut>>)
    <3>1. CASE Start(ch)
      BY <3>1, <1>1 DEF Start, Exit, TypeOK
    <3>2. CASE ErrorLine(ch)
      <4>1. after_cr' \in BOOLEAN
        BY <3>2 DEF ErrorLine
      <4> QED BY <4>1, <3>2, <1>1 DEF ErrorLine, Exit, TypeOK
    <3>3. CASE Channel(ch)
      BY <3>3, <1>1 DEF Channel, Exit, TypeOK
    <3>4. CASE Length(ch)
      <4>1. 10 * number + ch.n \in Nat
        BY <1>1 DEF TypeOK
      <4>2. number' \in Nat
        BY <4>1, <3>4 DEF Length, Exit, TypeOK
      <4>3. message_length' \in 0 .. MaxPayload /\ message_start' \in 1 .. End + 1
        BY <1>1, <3>4, RedisAssumption, SMTT(30) DEF Length, Exit, TypeOK
      <4>4. /\ state' \in {"start", "error", "subscribe", "channel", "message", "length", "value"}
            /\ after_cr' \in BOOLEAN
        BY <3>4 DEF Length, Exit, TypeOK
      <4>5. Skip \/ (pc' = "exit" /\ UNCHANGED <<bufferVars, p, broadcast, cut>>)
        BY <3>4 DEF Length, Exit
      <4> QED BY <4>2, <4>3, <4>4, <4>5
    <3>5. CASE InPayload(ch)
      <4>1. after_cr' \in BOOLEAN
        BY <3>5 DEF InPayload, TypeOK
      <4>2. message_length' \in 0 .. MaxPayload
        BY <3>5, RedisAssumption DEF InPayload, TypeOK
      <4> QED BY <4>1, <4>2, <3>5 DEF InPayload, TypeOK
    <3> QED BY <1>4, <3>1, <3>2, <3>3, <3>4, <3>5
  <2> QED BY <2>1, <1>3, <1>4
<1>5. CASE Compare(Literal, "channel") /\ parse_done' = FALSE
  <2>1. Literal \in Seq(CellType) /\ Len(Literal) = 3
    BY CellsHaveType DEF Literal, CRLF
  <2>2. Len(Literal) \in Nat \ {0} /\ "channel" \in {"channel", "length"}
    BY <2>1
  <2> QED BY <1>2, <1>5, <2>1, <2>2, CompareType, Zenon
<1>6. CASE Compare(Prefix, "length") /\ parse_done' = FALSE
  <2>1. Prefix \in Seq(CellType) /\ Len(Prefix) = 2
    BY CellsHaveType DEF Prefix
  <2>2. Len(Prefix) \in Nat \ {0} /\ "length" \in {"channel", "length"}
    BY <2>1
  <2> QED BY <1>2, <1>6, <2>1, <2>2, CompareType, Zenon
<1>7. CASE Done
  <2>1. SubSeq(buffer, message_start, p - 2) \in Seq(CellType)
    <3>1. buffer \in Seq(CellType) /\ Len(buffer) = End
      BY RedisAssumption DEF TypeOK
    <3>2. message_start \in Nat \ {0} /\ p - 2 \in Int /\ p - 2 <= End
      BY <1>1, RedisAssumption DEF TypeOK
    <3>3. \A i \in message_start .. p - 2 : i \in 1 .. Len(buffer)
      BY <3>1, <3>2, RedisAssumption
    <3> QED BY <3>1, <3>2, <3>3
  <2>2. broadcast' \in Seq(Seq(CellType))
    BY <1>7, <2>1 DEF Done, TypeOK
  <2> QED BY <1>1, <1>2, <1>7, <2>2 DEF Done, TypeOK, redisVars
<1> QED BY <1>4, <1>5, <1>6, <1>7 DEF Parse

LEMMA AgainType == TypeOK /\ Again => TypeOK'
<1> SUFFICES ASSUME TypeOK, Again PROVE TypeOK'
  OBVIOUS
<1>1. pos' \in 1 .. End + 1 /\ last' \in 1 .. End + 1
  BY RedisAssumption DEF Again, TypeOK
<1> QED BY <1>1 DEF Again, TypeOK, redisVars, parserVars, historyVars

LEMMA StepType == TypeOK /\ [Next]_vars => TypeOK'
<1> SUFFICES ASSUME TypeOK, [Next]_vars PROVE TypeOK'
  OBVIOUS
<1>1. CASE UNCHANGED vars
  BY <1>1 DEF vars, TypeOK, redisVars, bufferVars, parserVars, historyVars
<1>2. CASE Next
  BY <1>2, RedisType, InterruptedType, ReceiveType, CallType, ParseType, AgainType DEF Next, Process
<1> QED BY <1>1, <1>2

(* Whatever the stream and its cuts, no pointer of the parser leaves the   *)
(* buffer, though a comparison may run past the bytes received, and no     *)
(* length it keeps is beyond the limit.                                    *)
THEOREM TypeCorrect == Spec => []TypeOK
BY InitType, StepType, PTL DEF Spec

-------------------------------------------------------------------------------
(* Where the parser is in what redis has sent.  A position counts cells    *)
(* from the start of the buffer on; what is not received follows it.       *)

(* The first position after all that was sent.                             *)
Rest == last + Len(stream)

At(i) == IF i < last THEN buffer[i] ELSE stream[i - last + 1]

(* The first position the parser has not taken.                            *)
Cursor == IF pc = "parse" THEN p ELSE pos

Told == Len(broadcast)

Holds(from, text) ==
  /\ from >= 1 /\ from + Len(text) <= Rest
  /\ \A j \in 1 .. Len(text) : At(from + j - 1) = text[j]

(* The frames of the messages not handed on start at at[Told + 1], ..., one*)
(* after the other to the end.                                             *)
FramesAt(at) ==
  /\ at[Len(size) + 1] = Rest
  /\ \A m \in Told + 1 .. Len(size) :
       at[m + 1] = at[m] + size[m] + 7 /\ Holds(at[m], Frame(m, size[m]))
  /\ \A m \in Told + 1 .. Len(size) + 1 : \A k \in Told + 1 .. m : at[k] <= at[m]

InAnswer(at) ==
  /\ Told = 0 /\ Holds(1, Answer(answer))
  /\ at[1] = Len(Answer(answer)) + 1
  /\ answer = "no" => size = <<>>
  /\ \/ state = "start" /\ Cursor = 1
     \/ state = "subscribe" /\ answer = "yes" /\ Cursor = 2
     \/ state = "channel" /\ answer = "yes" /\ Cursor = 5
     \/ state = "error" /\ answer = "no" /\ (Cursor = 2 \/ (Cursor = 3 /\ after_cr))

(* What the parser has kept is what the part of the frame before it says.  *)
InFrame(at) ==
  LET m == Told + 1
      o == Cursor - at[m]
  IN \/ state = "message" /\ o = 0
     \/ /\ state = "length" /\ Told < Len(size)
        /\ \/ o = 2 /\ number = 0
           \/ o = 3 /\ number = size[m]
           \/ o = 4 /\ number = size[m] /\ after_cr
     \/ /\ state = "value" /\ Told < Len(size)
        /\ message_start = at[m] + 5
        /\ \/ o \in 5 .. size[m] + 5 /\ message_length = size[m] + 5 - o
           \/ o = size[m] + 6 /\ message_length = 0 /\ after_cr

Tracked(at) == FramesAt(at) /\ (InAnswer(at) \/ InFrame(at))

InStep == \E at \in [Nat -> Int] : Tracked(at)

OnTrack ==
  /\ MessagesAreThosePublished /\ ExitHasCause
  /\ parse_done => state = "message"
  /\ pc # "exit" => InStep
  /\ pc = "recv" => pos >= last

StreamInv == ~moved /\ ~reconnected => OnTrack

-------------------------------------------------------------------------------
(* What the cells of an answer and of a frame are.                         *)

LEMMA AnswerCells ==
  /\ Len(Answer("yes")) = 5 /\ Len(Answer("no")) = 3
  /\ Answer("yes")[1] = Cell("*") /\ Answer("yes")[5] = Cell("channel")
  /\ \A j \in 1 .. 3 : Answer("yes")[1 + j] = Literal[j]
  /\ Len(Literal) = 3
  /\ Answer("no")[1] = Cell("-") /\ Answer("no")[2] = Cell("cr") /\ Answer("no")[3] = Cell("lf")
BY CellsHaveType DEF Answer, Reply, Refusal, Literal, CRLF

LEMMA JoinedCells ==
  ASSUME NEW s \in Seq(CellType), NEW t \in Seq(CellType)
  PROVE  /\ s \o t \in Seq(CellType) /\ Len(s \o t) = Len(s) + Len(t)
         /\ \A i \in 1 .. Len(s) + Len(t) : (s \o t)[i] = IF i <= Len(s) THEN s[i] ELSE t[i - Len(s)]
OBVIOUS

LEMMA FrameCells ==
  ASSUME NEW m \in Nat, NEW n \in Nat
  PROVE  /\ Frame(m, n) \in Seq(CellType) /\ Len(Frame(m, n)) = n + 7
         /\ Frame(m, n)[1] = Prefix[1] /\ Frame(m, n)[2] = Prefix[2] /\ Len(Prefix) = 2
         /\ Frame(m, n)[3] = Digits(n) /\ Frame(m, n)[4] = Cell("cr") /\ Frame(m, n)[5] = Cell("lf")
         /\ \A j \in 1 .. n : Frame(m, n)[5 + j] = Value(m)
         /\ Frame(m, n)[n + 6] = Cell("cr") /\ Frame(m, n)[n + 7] = Cell("lf")
<1> DEFINE head == Prefix \o <<Digits(n)>> \o CRLF
           body == head \o Payload(m, n)
<1>1. head \in Seq(CellType) /\ Len(head) = 5
  BY CellsHaveType DEF Prefix, CRLF
<1>2. /\ head[1] = Prefix[1] /\ head[2] = Prefix[2] /\ Len(Prefix) = 2
      /\ head[3] = Digits(n) /\ head[4] = Cell("cr") /\ head[5] = Cell("lf")
  BY CellsHaveType DEF Prefix, CRLF
<1>3. /\ Payload(m, n) \in Seq(CellType) /\ Len(Payload(m, n)) = n
      /\ \A j \in 1 .. n : Payload(m, n)[j] = Value(m)
  BY CellsHaveType DEF Payload
<1>4. CRLF \in Seq(CellType) /\ Len(CRLF) = 2 /\ CRLF[1] = Cell("cr") /\ CRLF[2] = Cell("lf")
  BY CellsHaveType DEF CRLF
<1> HIDE DEF head
<1>5. /\ body \in Seq(CellType) /\ Len(body) = n + 5
      /\ \A i \in 1 .. n + 5 : body[i] = IF i <= 5 THEN head[i] ELSE Payload(m, n)[i - 5]
  <2> HIDE DEF body
  <2>1. /\ body \in Seq(CellType) /\ Len(body) = Len(head) + Len(Payload(m, n))
        /\ \A i \in 1 .. Len(head) + Len(Payload(m, n)) :
             body[i] = IF i <= Len(head) THEN head[i] ELSE Payload(m, n)[i - Len(head)]
    BY <1>1, <1>3, JoinedCells DEF body
  <2> QED BY <1>1, <1>3, <2>1
<1>6. Frame(m, n) = body \o CRLF
  BY DEF Frame, head
<1> HIDE DEF body
<1>7. /\ Frame(m, n) \in Seq(CellType) /\ Len(Frame(m, n)) = n + 7
      /\ \A i \in 1 .. n + 7 : Frame(m, n)[i] = IF i <= n + 5 THEN body[i] ELSE CRLF[i - (n + 5)]
  <2>1. /\ Frame(m, n) \in Seq(CellType) /\ Len(Frame(m, n)) = Len(body) + Len(CRLF)
        /\ \A i \in 1 .. Len(body) + Len(CRLF) :
             Frame(m, n)[i] = IF i <= Len(body) THEN body[i] ELSE CRLF[i - Len(body)]
    <3>1. body \in Seq(CellType) /\ CRLF \in Seq(CellType)
      BY <1>4, <1>5
    <3> DEFINE whole == body \o CRLF
    <3>2. /\ whole \in Seq(CellType) /\ Len(whole) = Len(body) + Len(CRLF)
          /\ \A i \in 1 .. Len(body) + Len(CRLF) :
               whole[i] = IF i <= Len(body) THEN body[i] ELSE CRLF[i - Len(body)]
      BY <3>1, JoinedCells
    <3> QED BY <3>2, <1>6
  <2> QED BY <1>4, <1>5, <2>1
<1>8. \A i \in 1 .. 5 : Frame(m, n)[i] = head[i]
  BY <1>5, <1>7
<1>9. \A j \in 1 .. n : Frame(m, n)[5 + j] = Value(m)
  BY <1>3, <1>5, <1>7
<1>10. Frame(m, n)[n + 6] = Cell("cr") /\ Frame(m, n)[n + 7] = Cell("lf")
  BY <1>4, <1>7, SMTT(30)
<1> QED BY <1>2, <1>7, <1>8, <1>9, <1>10

-------------------------------------------------------------------------------
(* Redis and the network.                                                  *)

LEMMA RestIsNat ==
  ASSUME TypeOK
  PROVE  /\ Rest \in Nat /\ Rest >= last /\ last \in Nat /\ last >= 1
         /\ Told \in Nat /\ Len(size) \in Nat
         /\ \A m \in 1 .. Len(size) : size[m] \in Nat
<1>1. \A m \in 1 .. Len(size) : size[m] \in 0 .. MaxPayload + 1
  <2>1. size \in Seq(0 .. MaxPayload + 1)
    BY DEF TypeOK
  <2> QED BY <2>1, RedisAssumption, ElementOfSeq
<1> QED BY <1>1, RedisAssumption DEF TypeOK, Rest, Told

LEMMA Inside ==
  ASSUME NEW from \in Int, NEW length \in Nat, NEW rest \in Nat, from >= 1, from + length <= rest
  PROVE  /\ \A j \in 1 .. length : from + j - 1 \in Nat /\ 1 <= from + j - 1 /\ from + j - 1 < rest
         /\ \A more \in Nat : from + length <= rest + more
OBVIOUS

(* Positions keep their cells: so do the answer and the frames.            *)
LEMMA TextsKept ==
  ASSUME TypeOK, NEW at \in [Nat -> Int], UNCHANGED <<answer, size, broadcast>>, Rest' = Rest,
         \A i \in Nat : 1 <= i /\ i < Rest => At(i)' = At(i)
  PROVE  /\ FramesAt(at) => FramesAt(at)'
         /\ Holds(1, Answer(answer)) => Holds(1, Answer(answer))'
<1>0. /\ Rest \in Nat /\ Told \in Nat /\ Told' = Told /\ Len(size) \in Nat
      /\ \A m \in 1 .. Len(size) : size[m] \in Nat
  BY RestIsNat DEF Told
<1>1. ASSUME FramesAt(at), NEW m \in Told + 1 .. Len(size)
      PROVE  Holds(at[m], Frame(m, size[m]))'
  <2>0. m \in 1 .. Len(size) /\ m \in Nat
    BY <1>0
  <2>1. m \in Nat /\ size[m] \in Nat /\ at[m] \in Int /\ Holds(at[m], Frame(m, size[m]))
    BY <1>0, <1>1, <2>0 DEF FramesAt
  <2>2. Len(Frame(m, size[m])) \in Nat
    BY <2>1, FrameCells
  <2>3. \A j \in 1 .. Len(Frame(m, size[m])) : At(at[m] + j - 1)' = At(at[m] + j - 1)
    <3> TAKE j \in 1 .. Len(Frame(m, size[m]))
    <3>1. at[m] >= 1 /\ at[m] + Len(Frame(m, size[m])) <= Rest
      BY <2>1 DEF Holds
    <3>2. at[m] + j - 1 \in Nat /\ 1 <= at[m] + j - 1 /\ at[m] + j - 1 < Rest
      <4>1. PICK length \in Nat, from \in Int : length = Len(Frame(m, size[m])) /\ from = at[m]
        BY <2>1, <2>2
      <4>2. j \in 1 .. length /\ j \in Nat /\ from >= 1 /\ from + length <= Rest /\ Rest \in Nat
        BY <1>0, <3>1, <4>1
      <4>3. from + j - 1 \in Nat /\ 1 <= from + j - 1 /\ from + j - 1 < Rest
        BY <4>2
      <4> QED BY <4>1, <4>3
    <3> QED BY <3>2
  <2> QED BY <2>1, <2>3 DEF Holds
<1>2. FramesAt(at) => FramesAt(at)'
  BY <1>0, <1>1 DEF FramesAt
<1>3. ASSUME Holds(1, Answer(answer))
      PROVE  Holds(1, Answer(answer))'
  <2>1. Len(Answer(answer)) \in Nat
    BY AnswerCells DEF TypeOK
  <2>2. \A j \in 1 .. Len(Answer(answer)) : At(1 + j - 1)' = At(1 + j - 1)
    BY <1>0, <1>3, <2>1 DEF Holds
  <2> QED BY <1>3, <2>2 DEF Holds
<1> QED BY <1>2, <1>3

LEMMA ParserKept ==
  ASSUME NEW at \in [Nat -> Int], Cursor' = Cursor,
         UNCHANGED <<answer, size, broadcast, state, after_cr, number, message_length, message_start>>
  PROVE  /\ InFrame(at) => InFrame(at)'
         /\ InAnswer(at) /\ Holds(1, Answer(answer))' => InAnswer(at)'
<1>1. Told' = Told
  BY DEF Told
<1> QED BY <1>1 DEF InFrame, InAnswer

LEMMA StepInStep ==
  ASSUME TypeOK, InStep, Cursor' = Cursor, Rest' = Rest,
         UNCHANGED <<answer, size, broadcast, state, after_cr, number, message_length, message_start>>,
         \A i \in Nat : 1 <= i /\ i < Rest => At(i)' = At(i)
  PROVE  InStep'
<1>1. PICK at \in [Nat -> Int] : Tracked(at)
  BY DEF InStep
<1>2. FramesAt(at)' /\ (Holds(1, Answer(answer)) => Holds(1, Answer(answer))')
  BY <1>1, TextsKept DEF Tracked
<1>3. InAnswer(at)' \/ InFrame(at)'
  BY <1>1, <1>2, ParserKept DEF Tracked, InAnswer
<1> QED BY <1>2, <1>3 DEF Tracked, InStep

LEMMA InitOnTrack == Init => OnTrack
<1> SUFFICES ASSUME Init PROVE OnTrack
  OBVIOUS
<1> DEFINE at == [m \in Nat |-> Len(stream) + 1]
<1>1. answer \in {"yes", "no"} /\ stream = Answer(answer) /\ stream \in Seq(CellType)
  BY AnswersHaveType DEF Init
<1>2. Len(stream) \in Nat /\ at \in [Nat -> Int] /\ Rest = Len(stream) + 1 /\ Told = 0 /\ Len(size) = 0
  BY <1>1 DEF Init, Rest, Told
<1>3. Holds(1, Answer(answer))
  BY <1>1, <1>2 DEF Init, Holds, At
<1>4. FramesAt(at)
  BY <1>2 DEF FramesAt
<1>5. InAnswer(at)
  BY <1>1, <1>2, <1>3 DEF Init, InAnswer, Cursor
<1>6. InStep
  BY <1>2, <1>4, <1>5 DEF InStep, Tracked
<1> QED BY <1>2, <1>6 DEF Init, OnTrack, MessagesAreThosePublished, ExitHasCause, Told

LEMMA PublishOnTrack == TypeOK /\ OnTrack /\ Publish => OnTrack'
<1> SUFFICES ASSUME TypeOK, OnTrack, Publish PROVE OnTrack'
  OBVIOUS
<1> DEFINE k == Len(size)
<1>1. PICK n \in 0 .. MaxPayload + 1 : size' = Append(size, n) /\ stream' = stream \o Frame(k + 1, n)
  BY DEF Publish
<1>0. size \in Seq(0 .. MaxPayload + 1) /\ stream \in Seq(CellType)
  BY DEF TypeOK
<1>2. n \in Nat /\ k \in Nat /\ k + 1 \in Nat
  BY <1>0, RedisAssumption
<1>3. answer = "yes" /\ UNCHANGED <<answer, gone, failures, bufferVars, parserVars, p, pc, broadcast, historyVars>>
  BY DEF Publish
<1>4. Frame(k + 1, n) \in Seq(CellType) /\ Len(Frame(k + 1, n)) = n + 7
  BY <1>2, FrameCells
<1>5. /\ Len(size') = k + 1 /\ size'[k + 1] = n
      /\ \A m \in 1 .. k : size'[m] = size[m]
  BY <1>0, <1>1, <1>2
<1>6. PICK e \in Nat : e = Rest
  BY RestIsNat
<1>7. /\ Len(stream') = Len(stream) + n + 7 /\ Len(stream) \in Nat
      /\ \A i \in 1 .. Len(stream) : stream'[i] = stream[i]
      /\ \A j \in 1 .. n + 7 : stream'[Len(stream) + j] = Frame(k + 1, n)[j]
  <2> DEFINE longer == stream \o Frame(k + 1, n)
  <2>1. /\ Len(longer) = Len(stream) + Len(Frame(k + 1, n)) /\ Len(stream) \in Nat
        /\ \A i \in 1 .. Len(stream) + Len(Frame(k + 1, n)) :
             longer[i] = IF i <= Len(stream) THEN stream[i] ELSE Frame(k + 1, n)[i - Len(stream)]
    <3> HIDE DEF k
    <3> QED BY <1>0, <1>4, JoinedCells
  <2>2. stream' = longer
    BY <1>1
  <2> HIDE DEF longer, k
  <2>3. Len(stream') = Len(stream) + n + 7
    <3>1. n \in Nat /\ Len(Frame(k + 1, n)) = n + 7 /\ Len(longer) = Len(stream) + Len(Frame(k + 1, n))
      BY <1>2, <1>4, <2>1
    <3>2. Len(longer) = Len(stream) + n + 7
      BY <2>1, <3>1
    <3> QED BY <2>2, <3>2
  <2>4. \A i \in 1 .. Len(stream) : longer[i] = stream[i]
    BY <1>2, <1>4, <2>1
  <2>5. \A j \in 1 .. n + 7 : longer[Len(stream) + j] = Frame(k + 1, n)[j]
    <3> TAKE j \in 1 .. n + 7
    <3>1. /\ Len(stream) + j \in 1 .. Len(stream) + Len(Frame(k + 1, n))
          /\ ~(Len(stream) + j <= Len(stream)) /\ Len(stream) + j - Len(stream) = j
      BY <1>2, <1>4, <2>1
    <3> QED BY <2>1, <3>1
  <2> QED BY <2>1, <2>2, <2>3, <2>4, <2>5
<1>8. last' = last /\ buffer' = buffer /\ last \in Nat /\ last >= 1 /\ e = last + Len(stream)
  BY <1>3, <1>6, RestIsNat DEF bufferVars, Rest
<1>9. Rest' = e + n + 7 /\ \A i \in Nat : 1 <= i /\ i < e => At(i)' = At(i)
  BY <1>2, <1>7, <1>8, SMTT(30) DEF Rest, At
<1>10. \A j \in 1 .. n + 7 : At(e + j - 1)' = Frame(k + 1, n)[j]
  <2> TAKE j \in 1 .. n + 7
  <2>1. PICK x \in Int, y \in Nat, z \in Nat : x = e + j - 1 /\ y = last /\ z = Len(stream)
    <3>1. e + j - 1 \in Int /\ last \in Nat /\ Len(stream) \in Nat
      <4>1. e + j - 1 \in Int
        BY <1>2
      <4> QED BY <1>7, <1>8, <4>1
    <3> QED BY <3>1, Zenon
  <2>2. e = y + z
    BY <1>8, <2>1
  <2>3. ~(x < y) /\ x - y + 1 = z + j
    BY <2>1, <2>2, <1>2
  <2>4. ~(x < last') /\ x - last' + 1 = Len(stream) + j
    BY <1>8, <2>1, <2>3, Zenon
  <2>5. At(x)' = stream'[Len(stream) + j]
    BY <2>4, Zenon DEF At
  <2>6. At(x)' = Frame(k + 1, n)[j]
    BY <1>7, <2>5
  <2> QED BY <2>1, <2>6, Zenon
<1>11. ASSUME InStep
       PROVE  InStep'
  <2> HIDE DEF k
  <2>1. PICK at \in [Nat -> Int] : Tracked(at)
    BY <1>11 DEF InStep
  <2>2. PICK c \in Nat : c = k
    BY <1>2
  <2>3. PICK w \in [Nat -> Int] : w = [at EXCEPT ![c + 2] = e + n + 7]
    <3>1. e + n + 7 \in Int
      BY <1>2
    <3>2. [at EXCEPT ![c + 2] = e + n + 7] \in [Nat -> Int]
      BY <3>1
    <3> QED BY <3>2
  <2>4. Told \in Nat /\ Told' = Told /\ Told <= k
    BY <1>3, RestIsNat DEF OnTrack, MessagesAreThosePublished, Told, k
  <2>5. \A m \in Told + 1 .. k : w[m + 1] = w[m] + size[m] + 7 /\ Holds(w[m], Frame(m, size[m]))'
    <3> TAKE m \in Told + 1 .. k
    <3>1. m \in 1 .. k /\ m \in Nat /\ m + 1 # c + 2 /\ m # c + 2
      BY <1>2, <2>2, <2>4
    <3>2. w[m] = at[m] /\ w[m + 1] = at[m + 1] /\ at[m] \in Int
      BY <2>3, <3>1
    <3>3. at[m + 1] = at[m] + size[m] + 7 /\ Holds(at[m], Frame(m, size[m])) /\ size'[m] = size[m]
      BY <1>5, <2>1, <3>1 DEF Tracked, FramesAt, k
    <3>4. size[m] \in Nat /\ Len(Frame(m, size[m])) = size[m] + 7
      BY <3>1, RestIsNat, FrameCells DEF k
    <3>8. /\ Len(Frame(m, size[m])) \in Nat /\ at[m] \in Int /\ e \in Nat
          /\ at[m] >= 1 /\ at[m] + Len(Frame(m, size[m])) <= e
      <4>1. at[m] >= 1 /\ at[m] + Len(Frame(m, size[m])) <= e
        BY <1>6, <3>3 DEF Holds
      <4>2. Len(Frame(m, size[m])) \in Nat
        BY <3>4
      <4> QED BY <3>2, <4>1, <4>2
    <3>5. \A j \in 1 .. Len(Frame(m, size[m])) : At(at[m] + j - 1)' = At(at[m] + j - 1)
      <4> TAKE j \in 1 .. Len(Frame(m, size[m]))
      <4>1. at[m] + j - 1 \in Nat /\ 1 <= at[m] + j - 1 /\ at[m] + j - 1 < e
        BY <3>8, Inside
      <4> QED BY <1>9, <4>1
    <3>6. at[m] + Len(Frame(m, size[m])) <= Rest'
      <4>1. Rest' = e + (n + 7) /\ n + 7 \in Nat
        BY <1>2, <1>9
      <4> QED BY <3>8, <4>1, Inside
    <3>7. Holds(at[m], Frame(m, size[m]))'
      BY <3>3, <3>5, <3>6 DEF Holds
    <3> QED BY <3>2, <3>3, <3>7
  <2>6. w[c + 1] = e /\ w[c + 2] = e + n + 7 /\ Holds(w[c + 1], Frame(c + 1, n))'
    <3>1. w[c + 2] = e + n + 7 /\ w[c + 1] = at[c + 1] /\ at[c + 1] = e
      BY <1>6, <2>1, <2>2, <2>3 DEF Tracked, FramesAt, k
    <3>2. e >= 1 /\ e + Len(Frame(c + 1, n)) <= Rest'
      <4>1. Len(Frame(c + 1, n)) = n + 7 /\ e \in Nat /\ e >= last /\ last \in Nat /\ last >= 1
        BY <1>4, <1>6, <2>2, RestIsNat
      <4>2. Rest' = e + n + 7 /\ n \in Nat
        BY <1>2, <1>9
      <4> QED BY <4>1, <4>2
    <3>3. \A j \in 1 .. Len(Frame(c + 1, n)) : At(e + j - 1)' = Frame(c + 1, n)[j]
      BY <1>4, <1>10, <2>2
    <3> QED BY <3>1, <3>2, <3>3 DEF Holds
  <2>7. FramesAt(w)'
    <3>3. ASSUME NEW m \in Told + 1 .. c + 2, NEW j \in Told + 1 .. m
          PROVE  w[j] <= w[m]
      <4>1. m \in Nat /\ j \in Nat
        BY <2>4, <3>3
      <4>2. CASE m # c + 2
        <5>1. m \in Told + 1 .. k + 1 /\ j # c + 2
          BY <2>2, <2>4, <3>3, <4>2
        <5> QED BY <2>1, <2>3, <4>1, <4>2, <5>1 DEF Tracked, FramesAt, k
      <4>3. CASE m = c + 2 /\ j # c + 2
        <5>1. c + 1 \in Told + 1 .. k + 1 /\ j \in Told + 1 .. c + 1
          BY <2>2, <2>4, <3>3, <4>3
        <5>2. w[j] = at[j] /\ w[c + 1] = at[c + 1] /\ at[j] <= at[c + 1] /\ at[j] \in Int
          <6>1. at[j] <= at[c + 1]
            BY <2>1, <2>2, <5>1 DEF Tracked, FramesAt, k
          <6>2. w[j] = at[j] /\ w[c + 1] = at[c + 1] /\ at[j] \in Int
            BY <2>3, <4>1, <4>3
          <6> QED BY <6>1, <6>2
        <5>3. at[j] <= e /\ e \in Nat /\ n \in Nat /\ w[m] = e + n + 7
          BY <1>2, <1>6, <2>6, <4>3, <5>2
        <5> QED BY <5>2, <5>3
      <4>4. CASE j = c + 2
        <5>1. m = j
          BY <3>3, <4>1, <4>4
        <5> QED BY <2>3, <4>1, <5>1
      <4> QED BY <4>2, <4>3, <4>4
    <3>1. w[Len(size') + 1] = Rest'
      BY <1>5, <1>9, <2>2, <2>6
    <3>2. ASSUME NEW m \in Told + 1 .. c + 1
          PROVE  w[m + 1] = w[m] + size'[m] + 7 /\ Holds(w[m], Frame(m, size[m]))'
      <4>1. CASE m = c + 1
        BY <1>2, <1>5, <2>2, <2>6, <4>1
      <4>2. CASE m # c + 1
        <5>1. m \in Told + 1 .. k /\ m \in 1 .. k
          BY <1>2, <2>2, <2>4, <3>2, <4>2
        <5> QED BY <1>5, <2>5, <5>1
      <4> QED BY <4>1, <4>2
    <3>4. Len(size') = c + 1
      BY <1>5, <2>2
    <3>5. Len(size') + 1 = c + 2
      BY <3>4
    <3> QED BY <2>4, <3>1, <3>2, <3>3, <3>4, <3>5 DEF FramesAt
  <2>8. w[Told + 1] = at[Told + 1] /\ w[1] = at[1]
    <3>1. Told + 1 # c + 2 /\ Told + 1 \in Nat /\ 1 # c + 2
      BY <1>2, <2>2, <2>4
    <3> QED BY <2>3, <3>1
  <2>9. Cursor' = Cursor /\ UNCHANGED <<answer, state, after_cr, number, message_length, message_start>>
    BY <1>3 DEF Cursor, parserVars, bufferVars
  <2>10. ASSUME InFrame(at) PROVE InFrame(w)'
    <3>1. Told < k => size'[Told + 1] = size[Told + 1] /\ Told < Len(size')
      BY <1>2, <1>5, <2>4
    <3> QED BY <2>4, <2>8, <2>9, <2>10, <3>1 DEF InFrame, k
  <2>11. ASSUME InAnswer(at) PROVE InAnswer(w)'
    <3>1. Holds(1, Answer(answer))'
      <4>1. 1 + Len(Answer(answer)) <= e /\ Len(Answer(answer)) = 5
        BY <1>3, <1>6, <2>11, AnswerCells DEF InAnswer, Holds
      <4>2. \A j \in 1 .. 5 : At(1 + j - 1)' = At(1 + j - 1)
        BY <1>6, <1>9, <4>1
      <4>3. 1 + Len(Answer(answer)) <= Rest'
        BY <1>2, <1>6, <1>9, <4>1
      <4> QED BY <2>9, <2>11, <4>1, <4>2, <4>3 DEF InAnswer, Holds
    <3> QED BY <1>3, <2>4, <2>8, <2>9, <2>11, <3>1 DEF InAnswer
  <2> QED BY <2>1, <2>7, <2>10, <2>11 DEF InStep, Tracked
<1>12. MessagesAreThosePublished'
  <2>1. \A m \in 1 .. Len(broadcast) : m \in 1 .. k
    BY <1>2, RestIsNat DEF OnTrack, MessagesAreThosePublished, Told
  <2>2. broadcast' = broadcast /\ Len(broadcast) \in Nat /\ Len(broadcast) <= k
    BY <1>3, RestIsNat DEF OnTrack, MessagesAreThosePublished, Told
  <2>3. Len(broadcast) <= Len(size')
    BY <1>2, <1>5, <2>2
  <2> QED BY <1>5, <2>1, <2>2, <2>3 DEF OnTrack, MessagesAreThosePublished
<1>13. ExitHasCause'
  <2>1. \A m \in 1 .. k : m \in 1 .. Len(size') /\ size'[m] = size[m]
    BY <1>2, <1>5
  <2> QED BY <1>3, <2>1 DEF OnTrack, ExitHasCause, historyVars
<1> QED BY <1>3, <1>11, <1>12, <1>13 DEF OnTrack, parserVars, bufferVars

LEMMA CloseOnTrack == TypeOK /\ OnTrack /\ Close => OnTrack'
<1> SUFFICES ASSUME TypeOK, OnTrack, Close PROVE OnTrack'
  OBVIOUS
<1>1. UNCHANGED <<stream, answer, size, bufferVars, parserVars, p, pc, broadcast, historyVars>>
  BY DEF Close
<1>2. Rest' = Rest /\ Cursor' = Cursor /\ \A i \in Nat : At(i)' = At(i)
  BY <1>1 DEF Rest, Cursor, At, bufferVars
<1>3. InStep => InStep'
  BY <1>1, <1>2, StepInStep DEF parserVars
<1> QED
  BY <1>1, <1>3 DEF OnTrack, MessagesAreThosePublished, ExitHasCause, parserVars, bufferVars, historyVars

(* Bytes change from the stream into the buffer and keep their positions.  *)
LEMMA ReceivedKept ==
  ASSUME TypeOK, NEW n \in 1 .. Len(stream), n <= Space, Received(n)
  PROVE  Rest' = Rest /\ \A i \in Nat : 1 <= i /\ i < Rest => At(i)' = At(i)
<1>1. /\ n \in Nat /\ Len(stream) \in Nat /\ n <= Len(stream) /\ last \in Nat /\ last >= 1
      /\ last + n <= End + 1 /\ stream \in Seq(CellType) /\ End \in Nat
  BY RedisAssumption DEF TypeOK, Space
<1>2. /\ Len(stream') = Len(stream) - n
      /\ \A j \in 1 .. Len(stream) - n : stream'[j] = stream[n + j]
  <2>1. stream' = SubSeq(stream, n + 1, Len(stream))
    BY DEF Received
  <2> QED BY <1>1, <2>1
<1>3. /\ last' = last + n
      /\ \A i \in 1 .. End : buffer'[i] = IF i \in last .. last + n - 1 THEN stream[i - last + 1] ELSE buffer[i]
  BY DEF Received
<1>4. Rest' = Rest
  BY <1>1, <1>2, <1>3 DEF Rest
<1>5. ASSUME NEW i \in Nat, 1 <= i, i < Rest
      PROVE  At(i)' = At(i)
  <2>1. CASE i < last
    <3>1. i \in 1 .. End /\ i \notin last .. last + n - 1 /\ i < last'
      BY <1>1, <1>3, <1>5, <2>1
    <3> QED BY <1>3, <2>1, <3>1 DEF At
  <2>2. CASE last <= i /\ i < last + n
    <3>1. i \in 1 .. End /\ i \in last .. last + n - 1 /\ i < last' /\ ~(i < last)
      BY <1>1, <1>3, <1>5, <2>2
    <3> QED BY <1>3, <3>1 DEF At
  <2>3. CASE last + n <= i
    <3>1. ~(i < last') /\ ~(i < last) /\ i < last + Len(stream)
      BY <1>1, <1>3, <1>5, <2>3 DEF Rest
    <3>2. i - last' + 1 \in 1 .. Len(stream) - n /\ n + (i - last' + 1) = i - last + 1
      BY <1>1, <1>3, <2>3, <3>1
    <3>3. stream'[i - last' + 1] = stream[i - last + 1]
      BY <1>2, <3>2
    <3> QED BY <3>1, <3>3 DEF At
  <2> QED BY <1>1, <2>1, <2>2, <2>3
<1> QED BY <1>4, <1>5

LEMMA ReceiveOnTrack == TypeOK /\ OnTrack /\ Receive /\ ~reconnected' => OnTrack'
<1> SUFFICES ASSUME TypeOK, OnTrack, Receive, ~reconnected' PROVE OnTrack'
  OBVIOUS
<1>1. PICK n \in 1 .. Len(stream) : n <= Space /\ Received(n)
  BY DEF Receive, Reconnect
<1>2. /\ pc = "recv" /\ pc' = "loop"
      /\ UNCHANGED <<answer, gone, failures, size, pos, parserVars, p, broadcast, historyVars>>
  BY DEF Receive, Reconnect
<1>3. Rest' = Rest /\ \A i \in Nat : 1 <= i /\ i < Rest => At(i)' = At(i)
  BY <1>1, ReceivedKept
<1>4. Cursor' = Cursor
  BY <1>2 DEF Cursor
<1>5. InStep => InStep'
  BY <1>2, <1>3, <1>4, StepInStep DEF parserVars
<1> QED
  BY <1>2, <1>5 DEF OnTrack, MessagesAreThosePublished, ExitHasCause, parserVars, historyVars

LEMMA CallOnTrack == TypeOK /\ OnTrack /\ Call /\ ~moved' => OnTrack'
<1> SUFFICES ASSUME TypeOK, OnTrack, Call, ~moved' PROVE OnTrack'
  OBVIOUS
<1>1. /\ pc = "loop" /\ pc' = "parse" /\ p' = pos
      /\ UNCHANGED <<redisVars, pos, last, parserVars, broadcast, cut, reconnected, mistaken>>
  BY DEF Call
<1>2. buffer' = buffer
  <2>1. CASE UNCHANGED <<buffer, moved>>
    BY <2>1
  <2>2. CASE /\ buffer' = [i \in 1 .. End |-> IF i \in pos .. last - 1 THEN buffer[i - pos + 1] ELSE buffer[i]]
             /\ moved' = (moved \/ pos < last)
    <3>0. pos \in Nat /\ last \in Nat
      BY RedisAssumption DEF TypeOK
    <3>1. ~(pos < last) /\ pos \in Nat /\ last \in Nat
      BY <2>2, <3>0
    <3>2. \A i \in 1 .. End : i \notin pos .. last - 1
      BY <3>1
    <3> QED BY <2>2, <3>2 DEF TypeOK
  <2> QED BY <2>1, <2>2 DEF Call
<1>3. Rest' = Rest /\ Cursor' = Cursor /\ \A i \in Nat : At(i)' = At(i)
  BY <1>1, <1>2 DEF Rest, Cursor, At, redisVars
<1>4. InStep => InStep'
  BY <1>1, <1>3, StepInStep DEF parserVars, redisVars
<1> QED
  BY <1>1, <1>4 DEF OnTrack, MessagesAreThosePublished, ExitHasCause, parserVars, redisVars

-------------------------------------------------------------------------------
(* The parser.                                                             *)

(* What the parser looks at in a frame.                                    *)
LEMMA FrameAhead ==
  ASSUME TypeOK, OnTrack, NEW at \in [Nat -> Int], FramesAt(at), InFrame(at), pc = "parse", p < last
  PROVE  \E m \in Nat, n \in Nat, a \in Nat :
           /\ m = Told + 1 /\ m \in 1 .. Len(size) /\ n = size[m]
           /\ a = at[m] /\ a >= 1 /\ at[m + 1] = a + n + 7 /\ a + n + 7 <= Rest
           /\ At(a) = Prefix[1] /\ At(a + 1) = Prefix[2] /\ At(a + 2) = Digits(n)
           /\ At(a + 3) = Cell("cr") /\ At(a + 4) = Cell("lf")
           /\ \A j \in 1 .. n : At(a + 4 + j) = Value(m)
           /\ At(a + n + 5) = Cell("cr") /\ At(a + n + 6) = Cell("lf")
<1>1. /\ Told \in Nat /\ Len(size) \in Nat /\ Told <= Len(size) /\ last <= Rest
      /\ Rest \in Nat /\ last \in Nat /\ p \in Nat /\ Cursor = p
  BY RestIsNat, RedisAssumption, SMTT(30) DEF OnTrack, MessagesAreThosePublished, Told, Cursor, TypeOK
<1>2. PICK m \in Nat : m = Told + 1
  BY <1>1
<1>3. m \in 1 .. Len(size)
  <2>1. CASE state = "message"
    <3>1. p = at[m] /\ at[m] \in Int
      <4>1. at[m] \in Int /\ p - at[m] = 0
        BY <1>1, <1>2, <2>1 DEF InFrame
      <4> QED BY <1>1, <4>1
    <3>2. m # Len(size) + 1
      BY <1>1, <3>1 DEF FramesAt
    <3> QED BY <1>1, <1>2, <3>2
  <2>2. CASE state # "message"
    <3>1. Told < Len(size)
      BY <2>2 DEF InFrame
    <3> QED BY <1>1, <1>2, <3>1
  <2> QED BY <2>1, <2>2
<1>4. PICK n \in Nat : n = size[m]
  BY <1>3, RestIsNat
<1>5. at[m + 1] = at[m] + n + 7 /\ Holds(at[m], Frame(m, n)) /\ at[m] \in Int
  BY <1>1, <1>2, <1>3, <1>4 DEF FramesAt
<1>6. /\ Len(Frame(m, n)) = n + 7
      /\ Frame(m, n)[1] = Prefix[1] /\ Frame(m, n)[2] = Prefix[2]
      /\ Frame(m, n)[3] = Digits(n) /\ Frame(m, n)[4] = Cell("cr") /\ Frame(m, n)[5] = Cell("lf")
      /\ Frame(m, n)[n + 6] = Cell("cr") /\ Frame(m, n)[n + 7] = Cell("lf")
  BY FrameCells
<1>7. PICK a \in Nat : a = at[m] /\ a >= 1
  BY <1>5 DEF Holds
<1>8. \A j \in 1 .. n + 7 : At(a + j - 1) = Frame(m, n)[j]
  BY <1>5, <1>6, <1>7 DEF Holds
<1>9. a + n + 7 <= Rest
  <2>1. a + Len(Frame(m, n)) <= Rest
    BY <1>5, <1>7 DEF Holds
  <2> QED BY <1>6, <2>1
<1>10. \A i \in 0 .. n + 6 : At(a + i) = Frame(m, n)[i + 1]
  <2> TAKE i \in 0 .. n + 6
  <2>1. i + 1 \in 1 .. n + 7 /\ a + (i + 1) - 1 = a + i
    OBVIOUS
  <2> QED BY <1>8, <2>1
<1>11. /\ At(a) = Prefix[1] /\ At(a + 1) = Prefix[2] /\ At(a + 2) = Digits(n)
       /\ At(a + 3) = Cell("cr") /\ At(a + 4) = Cell("lf")
  <2>0. 0 \in 0 .. n + 6 /\ 1 \in 0 .. n + 6 /\ 2 \in 0 .. n + 6 /\ 3 \in 0 .. n + 6 /\ 4 \in 0 .. n + 6
    OBVIOUS
  <2>1. At(a) = Prefix[1]
    <3>1. 1 \in 1 .. n + 7 /\ a + 1 - 1 = a
      OBVIOUS
    <3> QED BY <1>6, <1>8, <3>1
  <2>2. At(a + 1) = Prefix[2] /\ At(a + 2) = Digits(n)
    BY <1>6, <1>10, <2>0, SMTT(30)
  <2>3. At(a + 3) = Cell("cr") /\ At(a + 4) = Cell("lf")
    BY <1>6, <1>10, <2>0
  <2> QED BY <2>1, <2>2, <2>3
<1>12. \A j \in 1 .. n : At(a + 4 + j) = Value(m)
  <2> TAKE j \in 1 .. n
  <2>1. 4 + j \in 0 .. n + 6 /\ a + (4 + j) = a + 4 + j /\ 4 + j + 1 = 5 + j
    OBVIOUS
  <2>2. Frame(m, n)[5 + j] = Value(m)
    BY FrameCells
  <2> QED BY <1>10, <2>1, <2>2
<1>13. At(a + n + 5) = Cell("cr") /\ At(a + n + 6) = Cell("lf")
  <2>1. n + 5 \in 0 .. n + 6 /\ n + 6 \in 0 .. n + 6 /\ n + 5 + 1 = n + 6 /\ n + 6 + 1 = n + 7
    OBVIOUS
  <2>2. At(a + (n + 5)) = Cell("cr") /\ At(a + (n + 6)) = Cell("lf")
    BY <1>6, <1>10, <2>1
  <2> QED BY <2>2
<1> QED BY <1>2, <1>3, <1>4, <1>5, <1>7, <1>9, <1>11, <1>12, <1>13

(* A step of the parser that only takes a cell keeps all that is ahead.    *)
LEMMA AheadKept ==
  ASSUME TypeOK, NEW at \in [Nat -> Int], FramesAt(at), UNCHANGED <<redisVars, bufferVars, broadcast>>
  PROVE  /\ FramesAt(at)' /\ Told' = Told
         /\ Holds(1, Answer(answer)) => Holds(1, Answer(answer))'
<1>1. Rest' = Rest /\ \A i \in Nat : At(i)' = At(i)
  BY DEF Rest, At, redisVars, bufferVars
<1> QED BY <1>1, TextsKept DEF redisVars, Told

(* What a step of the parser may do: it stops with a reason, or stays on   *)
(* track.                                                                  *)
Followed(at) ==
  /\ UNCHANGED <<bufferVars, broadcast>>
  /\ \/ pc' = "exit" /\ (cut' \/ answer = "no" \/ \E m \in 1 .. Len(size) : size[m] > MaxPayload)
     \/ pc' = "parse" /\ (InAnswer(at)' \/ InFrame(at)')

(* A comparison with all of a literal ahead succeeds, unless it reads past *)
(* what was received; cut is set then.                                     *)
LEMMA CompareFollows ==
  ASSUME TypeOK, pc = "parse", p < last, NEW literal \in Seq(CellType), NEW next, Compare(literal, next),
         \A j \in 1 .. Len(literal) : At(p + j - 1) = literal[j]
  PROVE  \/ pc' = "exit" /\ cut'
         \/ pc' = "parse" /\ state' = next /\ p' = p + Len(literal) /\ number' = 0
<1>1. p \in Nat /\ p >= 1 /\ last \in Nat /\ last <= End + 1 /\ End \in Nat /\ Len(literal) \in Nat
  BY RedisAssumption DEF TypeOK
<1>2. CASE Matches(literal)
  BY <1>2 DEF Compare
<1>3. CASE ~Matches(literal)
  <2>1. p + Len(literal) > last
    <3> SUFFICES ASSUME p + Len(literal) <= last PROVE Matches(literal)
      BY <1>1, <1>3
    <3> SUFFICES ASSUME NEW j \in 1 .. Len(literal)
                 PROVE  p + j - 1 <= End /\ buffer[p + j - 1] = literal[j]
      BY DEF Matches
    <3>1. p + j - 1 <= End /\ p + j - 1 < last
      BY <1>1
    <3>2. At(p + j - 1) = buffer[p + j - 1]
      BY <3>1 DEF At
    <3> QED BY <3>1, <3>2
  <2> QED BY <1>3, <2>1 DEF Compare
<1> QED BY <1>2, <1>3

LEMMA AnswerFollowed ==
  ASSUME TypeOK, OnTrack, NEW at \in [Nat -> Int], FramesAt(at), InAnswer(at), Parse
  PROVE  Followed(at)
<1> DEFINE ch == buffer[p]
<1>1. /\ pc = "parse" /\ p < last /\ Cursor = p /\ p \in Nat /\ p >= 1
      /\ UNCHANGED <<redisVars, moved, reconnected, mistaken>> /\ ch = At(p)
  BY RedisAssumption DEF Parse, Cursor, TypeOK, At
<1>2. /\ Told = 0 /\ Holds(1, Answer(answer)) /\ at[1] = Len(Answer(answer)) + 1
      /\ answer = "no" => size = <<>>
      /\ answer \in {"yes", "no"}
  BY DEF InAnswer, TypeOK
<1>10. at[1] = IF answer = "yes" THEN 6 ELSE 4
  <2>1. CASE answer = "yes"
    <3>1. Len(Answer(answer)) = 5
      BY <2>1, AnswerCells
    <3>2. at[1] = Len(Answer(answer)) + 1
      BY <1>2
    <3> QED BY <2>1, <3>1, <3>2
  <2>2. CASE answer = "no"
    <3>1. Len(Answer(answer)) = 3
      BY <2>2, AnswerCells
    <3>2. at[1] = Len(Answer(answer)) + 1
      BY <1>2
    <3> QED BY <2>2, <3>1, <3>2
  <2> QED BY <1>2, <2>1, <2>2
<1>3. \A j \in 1 .. Len(Answer(answer)) : At(j) = Answer(answer)[j]
  <2> SUFFICES ASSUME NEW j \in 1 .. Len(Answer(answer)) PROVE At(j) = Answer(answer)[j]
    OBVIOUS
  <2>1. Len(Answer(answer)) \in Nat
    BY <1>2, AnswerCells
  <2>2. 1 + j - 1 = j
    BY <2>1
  <2> QED BY <1>2, <2>2 DEF Holds
<1>4. ASSUME UNCHANGED <<bufferVars, broadcast>>
      PROVE  Holds(1, Answer(answer))' /\ Told' = 0 /\ Cursor' = IF pc' = "parse" THEN p' ELSE pos'
  BY <1>1, <1>2, <1>4, AheadKept DEF Cursor
<1>5. CASE state = "start"
  <2>1. p = 1
    BY <1>1, <1>5 DEF InAnswer
  <2>2. ch = IF answer = "yes" THEN Cell("*") ELSE Cell("-")
    <3>1. 1 \in 1 .. Len(Answer(answer)) /\ Answer(answer)[1] = IF answer = "yes" THEN Cell("*") ELSE Cell("-")
      BY <1>2, AnswerCells
    <3> QED BY <1>1, <1>3, <2>1, <3>1
  <2>3. Start(ch)
    BY <1>5 DEF Parse, ErrorLine, Channel, Length, InPayload
  <2>4. Skip /\ p' = 2 /\ pc' = "parse" /\ state' = IF answer = "yes" THEN "subscribe" ELSE "error"
    BY <1>1, <1>2, <2>1, <2>2, <2>3 DEF Start, Skip, Exit, Cell
  <2>5. InAnswer(at)'
    BY <1>1, <1>2, <1>4, <2>4 DEF InAnswer, Skip, redisVars
  <2> QED BY <2>4, <2>5 DEF Followed, Skip
<1>6. CASE state = "subscribe"
  <2>0. p = 2 /\ answer = "yes"
    BY <1>1, <1>6 DEF InAnswer
  <2>1. p = 2 /\ answer = "yes" /\ at[1] = 6
    BY <1>10, <2>0
  <2>2. Compare(Literal, "channel")
    BY <1>6 DEF Parse, Start, ErrorLine, Channel, Length, InPayload
  <2>3. \A j \in 1 .. Len(Literal) : At(p + j - 1) = Literal[j]
    <3> SUFFICES ASSUME NEW j \in 1 .. 3 PROVE At(p + j - 1) = Literal[j]
      BY AnswerCells
    <3>1. 1 + j \in 1 .. 5 /\ p + j - 1 = 1 + j
      BY <2>1
    <3>2. At(1 + j) = Answer("yes")[1 + j]
      BY <1>3, <2>1, <3>1, AnswerCells
    <3> QED BY <3>1, <3>2, AnswerCells
  <2>4. Literal \in Seq(CellType) /\ Len(Literal) = 3
    BY CellsHaveType DEF Literal, CRLF
  <2>5. \/ pc' = "exit" /\ cut'
        \/ pc' = "parse" /\ state' = "channel" /\ p' = 5
    <3>1. \/ pc' = "exit" /\ cut'
          \/ pc' = "parse" /\ state' = "channel" /\ p' = p + Len(Literal) /\ number' = 0
      BY <1>1, <2>2, <2>3, <2>4, CompareFollows
    <3> QED BY <2>1, <2>4, <3>1
  <2>6. UNCHANGED <<bufferVars, broadcast>>
    BY <2>2 DEF Compare
  <2>7. pc' = "parse" => InAnswer(at)'
    BY <1>1, <1>2, <1>4, <2>1, <2>5, <2>6 DEF InAnswer, redisVars
  <2> QED BY <2>5, <2>6, <2>7 DEF Followed
<1>7. CASE state = "channel"
  <2>0. p = 5 /\ answer = "yes"
    BY <1>1, <1>7 DEF InAnswer
  <2>1. p = 5 /\ answer = "yes" /\ ch = Cell("channel") /\ at[1] = 6
    <3>1. Len(Answer(answer)) = 5 /\ Answer(answer)[5] = Cell("channel")
      BY <2>0, AnswerCells
    <3>2. 5 \in 1 .. Len(Answer(answer))
      BY <3>1
    <3> QED BY <1>1, <1>3, <1>10, <2>0, <3>1, <3>2
  <2>2. Channel(ch)
    BY <1>7 DEF Parse, Start, ErrorLine, Length, InPayload
  <2>3. Skip /\ p' = 6 /\ pc' = "parse" /\ state' = "message"
    BY <1>1, <2>1, <2>2 DEF Channel, Skip, Cell
  <2>4. InFrame(at)'
    BY <1>2, <1>4, <2>1, <2>3 DEF InFrame, Skip
  <2> QED BY <2>3, <2>4 DEF Followed, Skip
<1>8. CASE state = "error"
  <2>1. answer = "no" /\ size = <<>> /\ at[1] = 4 /\ (p = 2 \/ (p = 3 /\ after_cr))
    <3>1. answer = "no" /\ (p = 2 \/ (p = 3 /\ after_cr))
      BY <1>1, <1>8 DEF InAnswer
    <3> QED BY <1>2, <1>10, <3>1
  <2>2. ErrorLine(ch)
    BY <1>8 DEF Parse, Start, Channel, Length, InPayload
  <2>3. CASE p = 2
    <3>1. ch = Cell("cr")
      BY <1>1, <1>3, <2>1, <2>3, AnswerCells
    <3>0. ch.c = "cr" /\ "cr" # "lf"
      BY <3>1 DEF Cell
    <3>2. Skip /\ p' = 3 /\ pc' = "parse" /\ state' = "error" /\ after_cr'
      <4>1. Skip /\ state' = state /\ after_cr' = (ch.c = "cr")
        BY <2>2, <3>0 DEF ErrorLine
      <4>2. p' = 3 /\ pc' = "parse"
        BY <1>1, <2>3, <4>1 DEF Skip
      <4> QED BY <1>8, <3>0, <4>1, <4>2
    <3>3. InAnswer(at)'
      BY <1>1, <1>2, <1>4, <2>1, <3>2 DEF InAnswer, Skip, redisVars
    <3> QED BY <3>2, <3>3 DEF Followed, Skip
  <2>4. CASE p = 3 /\ after_cr
    <3>1. ch = Cell("lf")
      BY <1>1, <1>3, <2>1, <2>4, AnswerCells
    <3>2. Exit
      BY <2>2, <2>4, <3>1 DEF ErrorLine, Cell
    <3> QED BY <2>1, <3>2 DEF Followed, Exit
  <2> QED BY <2>1, <2>3, <2>4
<1> QED BY <1>5, <1>6, <1>7, <1>8 DEF InAnswer

LEMMA FrameFollowed ==
  ASSUME TypeOK, OnTrack, NEW at \in [Nat -> Int], FramesAt(at), InFrame(at), Parse, ~Done
  PROVE  Followed(at)
<1> DEFINE ch == buffer[p]
<1>1. /\ pc = "parse" /\ p < last /\ Cursor = p /\ p \in Nat
      /\ UNCHANGED <<redisVars, moved, reconnected, mistaken>> /\ ch = At(p)
  BY RedisAssumption DEF Parse, Cursor, TypeOK, At
<1>2. PICK m \in Nat, n \in Nat, a \in Nat :
           /\ m = Told + 1 /\ m \in 1 .. Len(size) /\ n = size[m]
           /\ a = at[m] /\ a >= 1 /\ at[m + 1] = a + n + 7 /\ a + n + 7 <= Rest
           /\ At(a) = Prefix[1] /\ At(a + 1) = Prefix[2] /\ At(a + 2) = Digits(n)
           /\ At(a + 3) = Cell("cr") /\ At(a + 4) = Cell("lf")
           /\ \A j \in 1 .. n : At(a + 4 + j) = Value(m)
           /\ At(a + n + 5) = Cell("cr") /\ At(a + n + 6) = Cell("lf")
  BY <1>1, FrameAhead
<1>3. Told \in Nat /\ Len(size) \in Nat /\ Told < Len(size) /\ m = Told + 1
  BY <1>2, RestIsNat, SMTT(30)
<1>8. p \in Nat /\ a = at[m] /\ n = size[m] /\ Cursor = p
  BY <1>1, <1>2
<1>4. ASSUME UNCHANGED broadcast, pc' = "parse"
      PROVE  Told' = Told /\ size' = size /\ Cursor' = p'
  BY <1>1, <1>4 DEF Cursor, Told, redisVars
<1>5. CASE state = "message"
  <2>1. p = a
    <3>1. p - a = 0
      BY <1>1, <1>2, <1>5 DEF InFrame
    <3> QED BY <1>8, <3>1
  <2>2. Compare(Prefix, "length")
    BY <1>5 DEF Parse, Start, ErrorLine, Channel, Length, InPayload
  <2>3. Prefix \in Seq(CellType) /\ Len(Prefix) = 2
    BY CellsHaveType DEF Prefix
  <2>4. \A j \in 1 .. Len(Prefix) : At(p + j - 1) = Prefix[j]
    <3> SUFFICES ASSUME NEW j \in 1 .. 2 PROVE At(p + j - 1) = Prefix[j]
      BY <2>3
    <3>1. CASE j = 1
      <4>1. p + j - 1 = a
        BY <1>2, <2>1, <3>1
      <4> QED BY <1>2, <3>1, <4>1
    <3>2. CASE j = 2
      <4>1. p + j - 1 = a + 1
        BY <1>2, <2>1, <3>2
      <4> QED BY <1>2, <3>2, <4>1
    <3> QED BY <3>1, <3>2
  <2>5. \/ pc' = "exit" /\ cut'
        \/ pc' = "parse" /\ state' = "length" /\ p' = p + Len(Prefix) /\ number' = 0
    BY <1>1, <2>2, <2>3, <2>4, CompareFollows
  <2>6. UNCHANGED <<bufferVars, broadcast>>
    BY <2>2 DEF Compare
  <2>7. ASSUME pc' = "parse" PROVE InFrame(at)'
    <3>1. p' - a = 2
      BY <1>2, <2>1, <2>3, <2>5, <2>7
    <3> QED BY <1>2, <1>3, <1>4, <2>5, <2>6, <2>7, <3>1 DEF InFrame
  <2> QED BY <2>5, <2>6, <2>7 DEF Followed
<1>6. CASE state = "length"
  <2>1. Length(ch)
    BY <1>6 DEF Parse, Start, ErrorLine, Channel, InPayload
  <2>2. \/ p = a + 2 /\ number = 0
        \/ p = a + 3 /\ number = n
        \/ p = a + 4 /\ number = n /\ after_cr
    <3>1. \/ p - a = 2 /\ number = 0
          \/ p - a = 3 /\ number = n
          \/ p - a = 4 /\ number = n /\ after_cr
      BY <1>1, <1>2, <1>6 DEF InFrame
    <3> QED BY <1>8, <3>1
  <2>3. CASE p = a + 2 /\ number = 0
    <3>1. ch.c = "digits" /\ ch.n = n
      <4>1. ch = Digits(n)
        BY <1>1, <1>2, <2>3
      <4> QED BY <4>1 DEF Digits
    <3>2. Skip /\ number' = 10 * number + n /\ state' = state
      BY <2>1, <3>1 DEF Length
    <3>3. p' - a = 3 /\ number' = n /\ state' = "length" /\ pc' = "parse" /\ UNCHANGED <<bufferVars, broadcast>>
      BY <1>1, <1>6, <1>8, <2>3, <3>2 DEF Skip
    <3>4. InFrame(at)'
      BY <1>2, <1>3, <1>4, <3>3 DEF InFrame
    <3> QED BY <3>3, <3>4 DEF Followed
  <2>4. CASE p = a + 3 /\ number = n
    <3>1. ch.c = "cr"
      BY <1>1, <1>2, <2>4 DEF Cell
    <3>2. Skip /\ after_cr' /\ UNCHANGED <<state, number>>
      BY <2>1, <3>1 DEF Length
    <3>3. p' - a = 4 /\ number' = n /\ state' = "length" /\ pc' = "parse" /\ UNCHANGED <<bufferVars, broadcast>>
      BY <1>1, <1>6, <1>8, <2>4, <3>2 DEF Skip
    <3>4. InFrame(at)'
      BY <1>2, <1>3, <1>4, <3>2, <3>3 DEF InFrame
    <3> QED BY <3>3, <3>4 DEF Followed
  <2>5. CASE p = a + 4 /\ number = n /\ after_cr
    <3>1. ch.c = "lf"
      BY <1>1, <1>2, <2>5 DEF Cell
    <3>2. IF number > MaxPayload THEN Exit
          ELSE /\ message_length' = number /\ message_start' = p + 1 /\ state' = "value"
               /\ Skip /\ UNCHANGED number
      BY <2>1, <2>5, <3>1 DEF Length
    <3>3. CASE number > MaxPayload
      <4>1. pc' = "exit" /\ UNCHANGED <<bufferVars, broadcast>>
        BY <3>2, <3>3 DEF Exit
      <4>2. size[m] > MaxPayload /\ m \in 1 .. Len(size)
        BY <1>2, <2>5, <3>3
      <4> QED BY <4>1, <4>2 DEF Followed
    <3>4. CASE ~(number > MaxPayload)
      <4>1. /\ message_length' = n /\ message_start' = a + 5 /\ state' = "value" /\ p' - a = 5
            /\ pc' = "parse" /\ UNCHANGED <<bufferVars, broadcast>>
        BY <1>1, <1>8, <2>5, <3>2, <3>4 DEF Skip
      <4>2. 5 \in 5 .. n + 5 /\ n + 5 - 5 = n
        OBVIOUS
      <4>3. InFrame(at)'
        BY <1>2, <1>3, <1>4, <4>1, <4>2 DEF InFrame
      <4> QED BY <4>1, <4>3 DEF Followed
    <3> QED BY <3>3, <3>4
  <2> QED BY <2>2, <2>3, <2>4, <2>5
<1>7. CASE state = "value"
  <2>1. InPayload(ch)
    BY <1>7 DEF Parse, Start, ErrorLine, Channel, Length
  <2>2. PICK o \in Int : o = p - a
    BY <1>1, <1>2, SMTT(30)
  <2>3. /\ message_start = a + 5
        /\ \/ o \in 5 .. n + 5 /\ message_length = n + 5 - o
           \/ o = n + 6 /\ message_length = 0 /\ after_cr
    BY <1>1, <1>2, <1>7, <2>2 DEF InFrame
  <2>4. /\ p' - a = o + 1 /\ state' = "value" /\ pc' = "parse" /\ message_start' = a + 5
        /\ UNCHANGED <<bufferVars, broadcast>>
    <3>1. Skip /\ UNCHANGED <<state, message_start>>
      BY <2>1 DEF InPayload
    <3> QED BY <1>1, <1>7, <1>8, <2>2, <2>3, <3>1 DEF Skip
  <2>5. CASE o \in 5 .. n + 5 /\ message_length = n + 5 - o /\ message_length > 0
    <3>1. message_length' = message_length - 1
      BY <2>1, <2>5 DEF InPayload
    <3>2. o + 1 \in 5 .. n + 5 /\ message_length' = n + 5 - (o + 1)
      BY <2>5, <3>1
    <3>3. InFrame(at)'
      BY <1>2, <1>3, <1>4, <2>4, <3>2 DEF InFrame
    <3> QED BY <2>4, <3>3 DEF Followed
  <2>6. CASE o \in 5 .. n + 5 /\ message_length = n + 5 - o /\ ~(message_length > 0)
    <3>1. o = n + 5 /\ p = a + n + 5 /\ message_length = 0
      BY <1>8, <2>2, <2>6
    <3>2. ch.c = "cr"
      BY <1>1, <1>2, <3>1 DEF Cell
    <3>3. message_length' = 0 /\ after_cr'
      <4>1. after_cr' = (ch.c = "cr") /\ UNCHANGED message_length
        BY <2>1, <2>6 DEF InPayload
      <4> QED BY <3>1, <3>2, <4>1
    <3>4. o + 1 = n + 6
      BY <3>1
    <3>5. InFrame(at)'
      BY <1>2, <1>3, <1>4, <2>4, <3>3, <3>4 DEF InFrame
    <3> QED BY <2>4, <3>5 DEF Followed
  <2>7. CASE o = n + 6 /\ message_length = 0 /\ after_cr
    <3>1. p = a + n + 6
      BY <1>8, <2>2, <2>7
    <3>2. ch.c = "lf"
      BY <1>1, <1>2, <3>1 DEF Cell
    <3> QED BY <2>1, <2>7, <3>2 DEF InPayload
  <2> QED BY <2>3, <2>5, <2>6, <2>7
<1> QED BY <1>5, <1>6, <1>7 DEF InFrame

(* A message that is complete is handed on as it was published.            *)
LEMMA DoneOnTrack == TypeOK /\ OnTrack /\ Parse /\ Done => OnTrack'
<1> SUFFICES ASSUME TypeOK, OnTrack, Parse, Done PROVE OnTrack'
  OBVIOUS
<1> DEFINE ch == buffer[p]
<1>1. /\ pc = "parse" /\ p < last /\ p \in Nat /\ last \in Nat /\ last <= End + 1 /\ End \in Nat
      /\ UNCHANGED <<redisVars, moved, reconnected, mistaken>> /\ ch = At(p) /\ Cursor = p
  BY RedisAssumption DEF Parse, TypeOK, At, Cursor
<1>2. state = "value" /\ ch.c = "lf" /\ message_length = 0
  BY DEF Parse, Start, ErrorLine, Channel, Length, InPayload, Compare, Done, Skip, Exit
<1>3. PICK at \in [Nat -> Int] : FramesAt(at) /\ InFrame(at)
  BY <1>1, <1>2 DEF OnTrack, InStep, Tracked, InAnswer
<1>4. PICK m \in Nat, n \in Nat, a \in Nat :
           /\ m = Told + 1 /\ m \in 1 .. Len(size) /\ n = size[m]
           /\ a = at[m] /\ a >= 1 /\ at[m + 1] = a + n + 7 /\ a + n + 7 <= Rest
           /\ At(a) = Prefix[1] /\ At(a + 1) = Prefix[2] /\ At(a + 2) = Digits(n)
           /\ At(a + 3) = Cell("cr") /\ At(a + 4) = Cell("lf")
           /\ \A j \in 1 .. n : At(a + 4 + j) = Value(m)
           /\ At(a + n + 5) = Cell("cr") /\ At(a + n + 6) = Cell("lf")
  BY <1>1, <1>3, FrameAhead
<1>5. a = at[m] /\ n = size[m] /\ at[m + 1] = a + n + 7 /\ a >= 1 /\ m = Told + 1 /\ m \in 1 .. Len(size)
  BY <1>4
<1>6. p = a + n + 6 /\ message_start = a + 5
  <2>1. PICK o \in Int : o = p - a
    BY <1>1
  <2>2. /\ message_start = a + 5
        /\ \/ o \in 5 .. n + 5 /\ message_length = n + 5 - o
           \/ o = n + 6 /\ message_length = 0 /\ after_cr
    BY <1>1, <1>2, <1>3, <1>5, <2>1 DEF InFrame
  <2>3. ASSUME o \in 5 .. n + 5, message_length = n + 5 - o PROVE FALSE
    <3>1. o = n + 5
      BY <1>2, <2>3
    <3>2. p = a + n + 5
      BY <1>1, <2>1, <3>1
    <3>3. ch.c = "cr"
      BY <1>1, <1>4, <3>2 DEF Cell
    <3> QED BY <1>2, <3>3
  <2>4. o = n + 6
    BY <2>2, <2>3
  <2> QED BY <1>1, <2>1, <2>2, <2>4
<1>7. /\ broadcast' = Append(broadcast, SubSeq(buffer, message_start, p - 2))
      /\ pos' = p + 1 /\ state' = "message" /\ pc' = "loop" /\ UNCHANGED <<buffer, last, p, cut>>
  BY DEF Done
<1>8. SubSeq(buffer, message_start, p - 2) = Payload(m, n)
  <2>1. message_start = a + 5 /\ p - 2 = a + n + 4 /\ a + n + 4 <= End /\ a + n + 6 < last
    BY <1>1, <1>6
  <2>2. \A j \in 1 .. n : buffer[a + 4 + j] = Value(m)
    <3> TAKE j \in 1 .. n
    <3>1. a + 4 + j < last
      BY <1>1, <2>1
    <3>2. At(a + 4 + j) = Value(m)
      BY <1>4
    <3> QED BY <3>1, <3>2 DEF At
  <2>3. \A i \in a + 5 .. a + n + 4 : buffer[i] \in CellType
    <3>1. \A i \in a + 5 .. a + n + 4 : i \in 1 .. End
      BY <1>1, <2>1
    <3> QED BY <3>1 DEF TypeOK
  <2> DEFINE s == SubSeq(buffer, a + 5, a + n + 4)
  <2>4. /\ s \in Seq(CellType) /\ Len(s) = IF a + 5 <= a + n + 4 THEN a + n + 4 - (a + 5) + 1 ELSE 0
        /\ \A j \in 1 .. a + n + 4 - (a + 5) + 1 : s[j] = buffer[a + 5 + j - 1]
    <3>1. a + 5 \in Int /\ a + n + 4 \in Int
      OBVIOUS
    <3> QED BY <2>3, <3>1, SubSeqProperties
  <2> HIDE DEF s
  <2>5. Len(s) = n /\ \A j \in 1 .. n : s[j] = Value(m)
    <3>1. a + n + 4 - (a + 5) + 1 = n /\ \A j \in 1 .. n : a + 5 + j - 1 = a + 4 + j
      OBVIOUS
    <3>2. Len(s) = n
      BY <2>4, <3>1
    <3>3. \A j \in 1 .. n : s[j] = buffer[a + 4 + j]
      BY <2>4, <3>1
    <3> QED BY <2>2, <3>2, <3>3
  <2>6. s = [j \in 1 .. n |-> Value(m)]
    BY <2>4, <2>5
  <2> QED BY <2>1, <2>6 DEF Payload, s
<1>9. /\ Len(broadcast') = m /\ Told' = m /\ broadcast'[m] = Payload(m, n)
      /\ \A i \in 1 .. Len(broadcast) : broadcast'[i] = broadcast[i]
  <2>1. broadcast \in Seq(Seq(CellType)) /\ Len(broadcast) \in Nat /\ m = Len(broadcast) + 1
    BY <1>5 DEF TypeOK, Told
  <2>2. broadcast' = Append(broadcast, Payload(m, n))
    BY <1>7, <1>8
  <2>3. Len(broadcast') = m /\ broadcast'[m] = Payload(m, n)
    BY <2>1, <2>2
  <2> QED BY <2>1, <2>2, <2>3 DEF Told
<1>10. MessagesAreThosePublished'
  <2>1. size' = size /\ Len(size) \in Nat /\ m <= Len(size) /\ Len(broadcast) = m - 1
    BY <1>1, <1>5, RestIsNat DEF redisVars, Told
  <2>2. ASSUME NEW i \in 1 .. m PROVE broadcast'[i] = Payload(i, size[i])
    <3>1. CASE i = m
      BY <1>5, <1>9, <3>1
    <3>2. CASE i # m
      <4>1. i \in 1 .. Len(broadcast)
        BY <2>1, <3>2
      <4> QED BY <1>9, <4>1 DEF OnTrack, MessagesAreThosePublished
    <3> QED BY <3>1, <3>2
  <2> QED BY <1>9, <2>1, <2>2 DEF MessagesAreThosePublished
<1>11. FramesAt(at)'
  <2>1. Rest' = Rest /\ size' = size /\ \A i : At(i)' = At(i)
    BY <1>1, <1>7 DEF Rest, At, redisVars
  <2>2. \A k \in m + 1 .. Len(size) :
          at[k + 1] = at[k] + size[k] + 7 /\ Holds(at[k], Frame(k, size[k]))
    <3>1. \A k \in m + 1 .. Len(size) : k \in Told + 1 .. Len(size)
      BY <1>5, RestIsNat
    <3> QED BY <1>3, <3>1 DEF FramesAt
  <2>3. ASSUME NEW k \in m + 1 .. Len(size) PROVE Holds(at[k], Frame(k, size[k]))'
    BY <2>1, <2>2 DEF Holds
  <2>4. \A j \in m + 1 .. Len(size) + 1 : \A k \in m + 1 .. j : at[k] <= at[j]
    <3>0. m = Told + 1 /\ Told \in Nat /\ Len(size) \in Nat
      BY <1>5, RestIsNat
    <3>1. \A j \in m + 1 .. Len(size) + 1 : j \in Told + 1 .. Len(size) + 1 /\ \A k \in m + 1 .. j : k \in Told + 1 .. j
      BY <3>0
    <3> QED BY <1>3, <3>1 DEF FramesAt
  <2> QED BY <1>3, <1>9, <2>1, <2>2, <2>3, <2>4 DEF FramesAt
<1>12. InFrame(at)'
  <2>1. Cursor' = p + 1 /\ at[m + 1] = p + 1
    <3>1. Cursor' = p + 1
      BY <1>7 DEF Cursor
    <3>2. at[m + 1] = a + n + 7
      BY <1>5
    <3>3. p + 1 = a + n + 7
      BY <1>6
    <3> QED BY <3>1, <3>2, <3>3
  <2>2. Cursor' - at[m + 1] = 0
    BY <1>1, <2>1
  <2> QED BY <1>7, <1>9, <2>2 DEF InFrame
<1>13. InStep'
  BY <1>11, <1>12 DEF InStep, Tracked
<1> QED BY <1>7, <1>10, <1>13 DEF OnTrack, ExitHasCause

LEMMA ParseOnTrack == TypeOK /\ OnTrack /\ Parse => OnTrack'
<1> SUFFICES ASSUME TypeOK, OnTrack, Parse, ~Done PROVE OnTrack'
  BY DoneOnTrack
<1>1. pc = "parse" /\ UNCHANGED redisVars /\ parse_done' = FALSE
  BY DEF Parse
<1>2. PICK at \in [Nat -> Int] : FramesAt(at) /\ (InAnswer(at) \/ InFrame(at))
  BY <1>1 DEF OnTrack, InStep, Tracked
<1>3. Followed(at)
  BY <1>2, AnswerFollowed, FrameFollowed
<1>4. FramesAt(at)'
  BY <1>1, <1>2, <1>3, AheadKept DEF Followed
<1>5. MessagesAreThosePublished'
  BY <1>1, <1>3 DEF OnTrack, MessagesAreThosePublished, Followed, redisVars
<1>6. ExitHasCause' /\ pc' # "recv"
  BY <1>1, <1>3 DEF ExitHasCause, Followed, redisVars
<1>7. pc' # "exit" => InStep'
  BY <1>3, <1>4 DEF Followed, InStep, Tracked
<1> QED BY <1>1, <1>5, <1>6, <1>7 DEF OnTrack

(* The buffer is reset only where a message ends: positions move by as     *)
(* much as it had.                                                         *)
LEMMA ResetInStep ==
  ASSUME TypeOK, InStep, pc = "parse", p = last, state = "message", Again, pos' = 1, last' = 1
  PROVE  InStep'
<1>1. PICK at \in [Nat -> Int] : FramesAt(at) /\ InFrame(at)
  BY DEF InStep, Tracked, InAnswer
<1>2. /\ pc' = "recv" /\ UNCHANGED <<redisVars, buffer, parserVars, p, broadcast, historyVars>>
      /\ Told \in Nat /\ Told' = Told /\ Len(size) \in Nat /\ size' = size
  BY RestIsNat DEF Again, redisVars, Told
<1>3. PICK d \in Nat : d = last - 1
  BY RedisAssumption DEF TypeOK
<1>4. /\ last \in Nat /\ last = d + 1 /\ Cursor = d + 1 /\ Cursor' = 1 /\ Rest \in Nat /\ Rest' = Rest - d
      /\ Rest = last + Len(stream) /\ Len(stream) \in Nat /\ stream' = stream
  <2>1. last \in Nat /\ Len(stream) \in Nat /\ stream' = stream /\ Rest \in Nat
    BY <1>2, RestIsNat, SMTT(30) DEF redisVars, TypeOK
  <2>2. last = d + 1
    BY <1>3, <2>1
  <2>3. Cursor = d + 1 /\ Cursor' = 1
    BY <1>2, <2>2 DEF Cursor
  <2>4. Rest = last + Len(stream) /\ Rest' = 1 + Len(stream)
    BY <2>1 DEF Rest
  <2>5. Rest' = Rest - d
    BY <2>1, <2>2, <2>4
  <2> QED BY <2>1, <2>2, <2>3, <2>4, <2>5
<1>5. \A i \in Nat : i >= 1 => At(i)' = At(i + d)
  <2> TAKE i \in Nat
  <2> HAVE i >= 1
  <2>1. /\ ~(i < 1) /\ ~(i + d < last) /\ i + d - last + 1 = i /\ i - 1 + 1 = i
        /\ last \in Nat /\ last = d + 1
    BY <1>4
  <2>2. At(i)' = stream[i]
    BY <1>4, <2>1 DEF At
  <2>3. At(i + d) = stream[i]
    <3>1. PICK x \in Nat : x = i + d
      OBVIOUS
    <3>2. ~(x < last) /\ x - last + 1 = i
      BY <2>1, <3>1
    <3>3. At(x) = stream[x - last + 1]
      BY <3>2 DEF At
    <3> QED BY <3>1, <3>2, <3>3
  <2> QED BY <2>2, <2>3
<1>6. PICK w \in [Nat -> Int] : \A i \in Nat : w[i] = at[i] - d
  <2>1. [i \in Nat |-> at[i] - d] \in [Nat -> Int]
    OBVIOUS
  <2> QED BY <2>1
<1>7. PICK c \in Nat : c = Told + 1
  BY <1>2
<1>8. at[c] = d + 1 /\ w[c] = 1
  <2>1. at[c] \in Int /\ Cursor - at[c] = 0 /\ Cursor = d + 1
    BY <1>1, <1>4, <1>7 DEF InFrame
  <2>2. at[c] = d + 1
    BY <2>1
  <2>3. w[c] = at[c] - d
    BY <1>6
  <2> QED BY <2>2, <2>3
<1>9. PICK k \in Nat : k = Len(size)
  BY <1>2
<1>10. \A m \in c .. k : at[m + 1] = at[m] + size[m] + 7 /\ Holds(at[m], Frame(m, size[m]))
  BY <1>1, <1>7, <1>9 DEF FramesAt
<1>11. \A m \in c .. k + 1 : \A j \in c .. m : at[j] <= at[m]
  BY <1>1, <1>7, <1>9 DEF FramesAt
<1>12. at[k + 1] = Rest /\ w[k + 1] = Rest'
  <2>1. at[k + 1] = Rest
    BY <1>1, <1>9 DEF FramesAt
  <2>2. w[k + 1] = at[k + 1] - d
    BY <1>6
  <2> QED BY <1>4, <2>1, <2>2
<1>13. ASSUME NEW m \in c .. k
       PROVE  w[m + 1] = w[m] + size[m] + 7 /\ Holds(w[m], Frame(m, size[m]))'
  <2>1. m \in Nat /\ m \in 1 .. Len(size) /\ m + 1 \in Nat /\ m \in c .. k + 1 /\ c \in c .. m
    BY <1>2, <1>7, <1>9
  <2>2. PICK n \in Nat, b \in Int : n = size[m] /\ b = at[m]
    BY <2>1, RestIsNat
  <2>3. w[m] = b - d /\ w[m + 1] = at[m + 1] - d /\ at[m + 1] = b + n + 7
    BY <1>6, <1>10, <2>1, <2>2
  <2>4. b >= d + 1
    BY <1>8, <1>11, <2>1, <2>2
  <2>5. Holds(b, Frame(m, n)) /\ Len(Frame(m, n)) = n + 7
    BY <1>10, <2>1, <2>2, FrameCells
  <2>6. w[m] \in Nat /\ w[m] >= 1 /\ w[m] + Len(Frame(m, n)) <= Rest'
    <3>1. b + (n + 7) <= Rest /\ Rest \in Nat /\ Rest' = Rest - d
      BY <1>4, <2>5 DEF Holds
    <3> QED BY <2>3, <2>4, <2>5, <3>1
  <2>7. ASSUME NEW j \in 1 .. Len(Frame(m, n)) PROVE At(w[m] + j - 1)' = Frame(m, n)[j]
    <3>1. PICK i \in Nat : i = w[m] + j - 1
      BY <2>5, <2>6, SMTT(30)
    <3>2. i >= 1 /\ i + d = b + j - 1
      <4>1. j \in 1 .. n + 7
        BY <2>5
      <4> QED BY <2>3, <2>4, <3>1, <4>1
    <3>3. At(i)' = At(b + j - 1)
      BY <1>5, <3>2
    <3>4. At(b + j - 1) = Frame(m, n)[j]
      BY <2>5 DEF Holds
    <3> QED BY <3>1, <3>3, <3>4
  <2>8. Holds(w[m], Frame(m, size[m]))'
    BY <1>2, <2>2, <2>6, <2>7 DEF Holds
  <2>9. w[m + 1] = w[m] + size[m] + 7
    BY <2>2, <2>3
  <2> QED BY <2>8, <2>9
<1>14. ASSUME NEW m \in c .. k + 1, NEW j \in c .. m PROVE w[j] <= w[m]
  <2>1. m \in Nat /\ j \in Nat /\ at[m] \in Int /\ at[j] \in Int
    BY <1>14
  <2>2. at[j] <= at[m]
    BY <1>11
  <2> QED BY <1>6, <2>1, <2>2
<1>15. FramesAt(w)'
  BY <1>2, <1>7, <1>9, <1>12, <1>13, <1>14 DEF FramesAt
<1>16. InFrame(w)'
  <2>1. Cursor' - w[c] = 0 /\ state' = "message"
    BY <1>2, <1>4, <1>8 DEF parserVars
  <2> QED BY <1>2, <1>7, <2>1 DEF InFrame
<1> QED BY <1>15, <1>16 DEF InStep, Tracked

LEMMA AgainOnTrack == TypeOK /\ OnTrack /\ Again => OnTrack'
<1> SUFFICES ASSUME TypeOK, OnTrack, Again PROVE OnTrack'
  OBVIOUS
<1>1. /\ pc = "parse" /\ p >= last /\ pc' = "recv"
      /\ UNCHANGED <<redisVars, buffer, parserVars, p, broadcast, historyVars>>
  BY DEF Again
<1>2. InStep' /\ pos' >= last'
  <2>1. CASE p = last /\ parse_done
    <3>1. state = "message" /\ pos' = 1 /\ last' = 1 /\ InStep
      BY <1>1, <2>1 DEF OnTrack, Again
    <3> QED BY <1>1, <2>1, <3>1, ResetInStep
  <2>2. CASE ~(p = last /\ parse_done)
    <3>1. pos' = p /\ last' = last /\ InStep
      BY <1>1, <2>2 DEF OnTrack, Again
    <3>2. Rest' = Rest /\ Cursor' = Cursor /\ \A i \in Nat : At(i)' = At(i)
      BY <1>1, <3>1 DEF Rest, Cursor, At, redisVars
    <3>3. InStep'
      BY <1>1, <3>1, <3>2, StepInStep DEF redisVars, parserVars
    <3> QED BY <1>1, <3>1, <3>3
  <2> QED BY <2>1, <2>2
<1> QED
  BY <1>1, <1>2 DEF OnTrack, MessagesAreThosePublished, ExitHasCause, redisVars, parserVars, historyVars

-------------------------------------------------------------------------------
LEMMA StepOnTrack == TypeOK /\ StreamInv /\ [Next]_vars => StreamInv'
<1> SUFFICES ASSUME TypeOK, StreamInv, [Next]_vars, ~moved', ~reconnected' PROVE OnTrack'
  BY DEF StreamInv
<1>1. CASE UNCHANGED vars
  <2>1. ~moved /\ ~reconnected
    BY <1>1 DEF vars, historyVars
  <2>2. Rest' = Rest /\ Cursor' = Cursor /\ \A i \in Nat : At(i)' = At(i)
    BY <1>1 DEF vars, Rest, Cursor, At, redisVars, bufferVars
  <2>3. OnTrack
    BY <2>1 DEF StreamInv
  <2>4. InStep => InStep'
    BY <1>1, <2>2, StepInStep DEF vars, redisVars, parserVars
  <2> QED
    BY <1>1, <2>3, <2>4 DEF OnTrack, MessagesAreThosePublished, ExitHasCause, vars, redisVars,
                            bufferVars, parserVars, historyVars
<1>2. CASE Publish
  BY <1>2, PublishOnTrack DEF StreamInv, Publish, historyVars
<1>3. CASE Close
  BY <1>3, CloseOnTrack DEF StreamInv, Close, historyVars
<1>4. CASE Interrupted
  BY <1>4 DEF Interrupted, Reconnect
<1>5. CASE Receive
  <2>1. ~moved /\ ~reconnected
    BY <1>5 DEF Receive, Reconnect, historyVars
  <2> QED BY <1>5, <2>1, ReceiveOnTrack DEF StreamInv
<1>6. CASE Call
  <2>1. ~moved /\ ~reconnected
    BY <1>6 DEF Call
  <2> QED BY <1>6, <2>1, CallOnTrack DEF StreamInv
<1>7. CASE Parse
  BY <1>7, ParseOnTrack DEF StreamInv, Parse
<1>8. CASE Again
  BY <1>8, AgainOnTrack DEF StreamInv, Again, historyVars
<1> QED BY <1>1, <1>2, <1>3, <1>4, <1>5, <1>6, <1>7, <1>8 DEF Next, Redis, Process

(* Asleep in recv(), with nothing to receive, the parser is where the last *)
(* frame ends.                                                             *)
LEMMA NothingLeft == TypeOK /\ OnTrack => NothingIsLeftBehind
<1> SUFFICES ASSUME TypeOK, OnTrack, pc = "recv", stream = <<>> PROVE Len(broadcast) = Len(size)
  BY DEF NothingIsLeftBehind
<1>1. PICK at \in [Nat -> Int] : FramesAt(at) /\ (InAnswer(at) \/ InFrame(at))
  BY DEF OnTrack, InStep, Tracked
<1>2. /\ Cursor = pos /\ pos \in Nat /\ last \in Nat /\ pos >= last /\ Rest = last
      /\ Told \in Nat /\ Len(size) \in Nat /\ Told <= Len(size)
  BY RestIsNat, RedisAssumption DEF OnTrack, Cursor, Rest, TypeOK, MessagesAreThosePublished, Told
<1> SUFFICES ASSUME Told < Len(size) PROVE FALSE
  BY <1>2 DEF Told
<1>3. PICK m \in Nat : m = Told + 1
  BY <1>2
<1>4. m \in 1 .. Len(size) /\ m \in Told + 1 .. Len(size)
  BY <1>2, <1>3
<1>5. PICK n \in Nat, a \in Int : n = size[m] /\ a = at[m]
  BY <1>4, RestIsNat
<1>6. Len(Frame(m, n)) = n + 7 /\ Holds(a, Frame(m, n))
  BY <1>1, <1>4, <1>5, FrameCells DEF FramesAt
<1>7. a >= 1 /\ a + n + 7 <= last
  <2>1. a >= 1 /\ a + (n + 7) <= last
    BY <1>2, <1>6 DEF Holds
  <2> QED BY <1>2, <2>1
<1>8. CASE InAnswer(at)
  <2>1. Told = 0 /\ size # <<>>
    <3>1. Told = 0
      BY <1>8 DEF InAnswer
    <3> QED BY <1>4, <3>1
  <2>2. answer = "yes" /\ m = 1
    BY <1>3, <1>8, <2>1 DEF InAnswer, TypeOK
  <2>3. at[1] = 6
    <3>1. at[1] = Len(Answer("yes")) + 1
      BY <1>8, <2>2 DEF InAnswer
    <3>2. at[1] = 5 + 1
      BY <3>1, AnswerCells, Zenon
    <3> QED BY <3>2
  <2>4. pos <= 5
    BY <1>2, <1>8, <2>2 DEF InAnswer
  <2> QED BY <1>2, <1>5, <1>7, <2>2, <2>3, <2>4, SMTT(30)
<1>9. CASE InFrame(at)
  <2>1. PICK o \in Int : o = pos - a
    BY <1>2
  <2>2. o = 0 \/ o = 2 \/ o = 3 \/ o = 4 \/ o \in 5 .. n + 5 \/ o = n + 6
    BY <1>2, <1>3, <1>5, <1>9, <2>1 DEF InFrame
  <2>3. o < n + 7
    BY <2>2
  <2> QED BY <1>2, <1>7, <2>1, <2>3
<1> QED BY <1>1, <1>8, <1>9

LEMMA InvHolds == Spec => [](TypeOK /\ StreamInv)
<1>1. Init => TypeOK /\ StreamInv
  BY InitType, InitOnTrack DEF StreamInv
<1>2. TypeOK /\ StreamInv /\ [Next]_vars => TypeOK' /\ StreamInv'
  BY StepType, StepOnTrack
<1> QED BY <1>1, <1>2, PTL DEF Spec

(* Wherever the network cuts what redis sends, even inside what strncmp()  *)
(* compares at once, the first connection hands every message on, once, in *)
(* order and unchanged, leaves none in the buffer, and only ends for a     *)
(* reason, until a tail is copied over (ngx_process_parse_message,         *)
(* ngx_process_websocket_messages): for every size of the buffer and of    *)
(* the messages.                                                           *)
THEOREM CutsNeverMatter == Spec => []CutsDoNotMatter
<1>1. TypeOK /\ StreamInv => CutsDoNotMatter
  BY NothingLeft DEF StreamInv, OnTrack, CutsDoNotMatter
<1> QED BY <1>1, InvHolds, PTL
===============================================================================
