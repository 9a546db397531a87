---------------------------- MODULE HttpParse_proofs ---------------------------
(***************************************************************************)
(* Proofs about HttpParse, for every size of the buffers, every request    *)
(* and every cut of it.                                                    *)
(***************************************************************************)
EXTENDS HttpParse, SequenceTheorems, WellFoundedInduction, TLAPS

(* What a step of a parser needs of the place it is at, and what it may    *)
(* change: the pointers stay where they are or go on by one.               *)
LEMMA NewRequestType == NewRequest \in RequestType
<1>1. LC \in Nat /\ 0 \in 0 .. LC - 1 /\ 0 \in 0 .. End /\ End \in Nat
  BY HttpAssumption
<1>2. [j \in 0 .. LC - 1 |-> "nul"] \in Kept
  BY DEF Cell, Kept
<1>3. <<>> \in Texts /\ "start" \in State
  BY DEF State, Texts
<1> QED BY <1>1, <1>2, <1>3 DEF NewRequest, RequestType

(* A request keeps its type when one of its fields is set.                 *)
LEMMA SetState == ASSUME NEW q \in RequestType, NEW v \in State PROVE [q EXCEPT !.state = v] \in RequestType
BY DEF RequestType

LEMMA SetHash == ASSUME NEW q \in RequestType, NEW v \in Texts PROVE [q EXCEPT !.header_hash = v] \in RequestType
BY DEF RequestType

LEMMA SetIndex == ASSUME NEW q \in RequestType, NEW v \in 0 .. LC - 1 PROVE [q EXCEPT !.lowcase_index = v] \in RequestType
BY DEF RequestType

LEMMA SetLowcase == ASSUME NEW q \in RequestType, NEW v \in Kept PROVE [q EXCEPT !.lowcase_header = v] \in RequestType
BY DEF RequestType

LEMMA SetMethod == ASSUME NEW q \in RequestType, NEW v \in BOOLEAN PROVE [q EXCEPT !.method = v] \in RequestType
BY DEF RequestType

LEMMA SetInvalid == ASSUME NEW q \in RequestType, NEW v \in BOOLEAN PROVE [q EXCEPT !.invalid_header = v] \in RequestType
BY DEF RequestType

LEMMA SetUpgrade == ASSUME NEW q \in RequestType, NEW v \in BOOLEAN PROVE [q EXCEPT !.upgrade = v] \in RequestType
BY DEF RequestType

LEMMA SetMajor == ASSUME NEW q \in RequestType, NEW v \in 0 .. 1 PROVE [q EXCEPT !.http_major = v] \in RequestType
BY DEF RequestType

Minor == 0 .. 999
LEMMA SetMinor == ASSUME NEW q \in RequestType, NEW v \in Minor PROVE [q EXCEPT !.http_minor = v] \in RequestType
BY DEF RequestType, Minor

LEMMA SetPointer ==
  ASSUME NEW q \in RequestType, NEW v \in 0 .. End
  PROVE  /\ [q EXCEPT !.request_start = v] \in RequestType
         /\ [q EXCEPT !.request_end = v] \in RequestType
         /\ [q EXCEPT !.uri_start = v] \in RequestType
         /\ [q EXCEPT !.uri_end = v] \in RequestType
         /\ [q EXCEPT !.http_protocol = v] \in RequestType
         /\ [q EXCEPT !.name_start = v] \in RequestType
         /\ [q EXCEPT !.name_end = v] \in RequestType
         /\ [q EXCEPT !.header_start = v] \in RequestType
         /\ [q EXCEPT !.header_end = v] \in RequestType
         /\ [q EXCEPT !.key = v] \in RequestType
<1>1. [q EXCEPT !.request_start = v] \in RequestType
  BY DEF RequestType
<1>2. [q EXCEPT !.request_end = v] \in RequestType
  BY DEF RequestType
<1>3. [q EXCEPT !.uri_start = v] \in RequestType
  BY DEF RequestType
<1>4. [q EXCEPT !.uri_end = v] \in RequestType
  BY DEF RequestType
<1>5. [q EXCEPT !.http_protocol = v] \in RequestType
  BY DEF RequestType
<1>6. [q EXCEPT !.name_start = v] \in RequestType
  BY DEF RequestType
<1>7. [q EXCEPT !.name_end = v] \in RequestType
  BY DEF RequestType
<1>8. [q EXCEPT !.header_start = v] \in RequestType
  BY DEF RequestType
<1>9. [q EXCEPT !.header_end = v] \in RequestType
  BY DEF RequestType
<1>10. [q EXCEPT !.key = v] \in RequestType
  BY DEF RequestType
<1> QED BY <1>1, <1>2, <1>3, <1>4, <1>5, <1>6, <1>7, <1>8, <1>9, <1>10

(* What the parser keeps over two calls.                                   *)
LEMMA SetKept ==
  ASSUME NEW q \in RequestType, NEW st \in State, NEW h \in Texts, NEW j \in 0 .. LC - 1
  PROVE  [q EXCEPT !.state = st, !.header_hash = h, !.lowcase_index = j] \in RequestType
<1>1. PICK a \in RequestType : a = [q EXCEPT !.state = st]
  BY SetState
<1>2. PICK b \in RequestType : b = [a EXCEPT !.header_hash = h]
  BY SetHash
<1>3. [b EXCEPT !.lowcase_index = j] \in RequestType
  BY SetIndex
<1> QED BY <1>1, <1>2, <1>3

LEMMA InitType == Init => TypeOK
<1> SUFFICES ASSUME Init PROVE TypeOK
  OBVIOUS
<1>1. End \in Nat \ {0} /\ LC \in Nat /\ 0 \in 0 .. LC - 1
  BY HttpAssumption
<1>2. stream \in Texts /\ <<>> \in Texts /\ request \in Request
  BY RequestAssumption DEF Init, Texts
<1>3. buffer \in [1 .. End -> Cell]
  BY DEF Init, Cell
<1>4. pos \in 1 .. last + 1 /\ last \in 1 .. End + 1 /\ p \in 1 .. last + 1
  BY <1>1 DEF Init
<1>5. state \in State /\ r \in RequestType
  BY NewRequestType DEF Init, State
<1> QED BY <1>1, <1>2, <1>3, <1>4, <1>5 DEF Init, TypeOK

(* The end of a request and the steps of both parsers.                     *)
LEMMA FinishType ==
  ASSUME TypeOK, NEW status \in {"101", "403", "closed", "gone"}, NEW key, Finish(status, key),
         request' = request, stream' \in Texts, cut' \in BOOLEAN, overread' \in BOOLEAN
  PROVE  TypeOK'
BY DEF TypeOK, Finish, bufferVars, parserVars

LEMMA StepType ==
  ASSUME TypeOK, p < last, NEW st \in State, NEW q \in RequestType, Step(st, q),
         UNCHANGED clientVars, UNCHANGED historyVars
  PROVE  TypeOK'
<1>1. p' \in 1 .. last' + 1 /\ pos' \in 1 .. last' + 1
  BY HttpAssumption DEF TypeOK, Step, bufferVars
<1> QED BY <1>1 DEF TypeOK, Step, bufferVars, clientVars, historyVars

(* While a character is read its place is one of the buffer.               *)
LEMMA Place ==
  ASSUME TypeOK, p < last
  PROVE  p \in 1 .. End /\ p \in 0 .. End /\ p - 1 \in 0 .. End /\ p + 1 \in 1 .. last + 1 /\ buffer[p] \in Cell
<1>1. p \in 1 .. End
  BY HttpAssumption DEF TypeOK
<1>2. p + 1 \in 1 .. last + 1 /\ p - 1 \in 0 .. End /\ p \in 0 .. End
  BY <1>1, HttpAssumption DEF TypeOK
<1> QED BY <1>1, <1>2 DEF TypeOK

LEMMA RefuseType ==
  ASSUME TypeOK, Refuse, UNCHANGED clientVars, UNCHANGED historyVars
  PROVE  TypeOK'
BY FinishType DEF Refuse, TypeOK, clientVars, historyVars

LEMMA LineDoneType ==
  ASSUME TypeOK, p < last, NEW q \in RequestType, LineDone(q), UNCHANGED clientVars, UNCHANGED historyVars
  PROVE  TypeOK'
<1> DEFINE end == IF q.request_end = 0 THEN p ELSE q.request_end
           done == [q EXCEPT !.request_end = end, !.state = "start"]
<1>1. end \in 0 .. End
  BY Place DEF RequestType
<1>2. done \in RequestType
  <2>1. "start" \in State
    BY DEF State
  <2>2. PICK a \in RequestType : a = [q EXCEPT !.request_end = end]
    BY <1>1, SetPointer
  <2>3. [a EXCEPT !.state = "start"] \in RequestType
    BY <2>1, SetState
  <2> QED BY <2>2, <2>3
<1>3. CASE Refuse
  BY <1>3, RefuseType
<1>4. CASE ~Refuse
  <2>1. /\ r' = done /\ pos' = p + 1 /\ handler' = "headers" /\ pc' = "read"
        /\ UNCHANGED <<buffer, last, parserVars, headers, answer>>
    BY <1>4 DEF LineDone
  <2> QED BY <1>2, <2>1, Place DEF TypeOK, parserVars, clientVars, historyVars
<1> QED BY <1>3, <1>4

LEMMA HeaderDoneType ==
  ASSUME TypeOK, p < last, NEW q \in RequestType, HeaderDone(q), UNCHANGED clientVars, UNCHANGED historyVars
  PROVE  TypeOK'
<1>1. [q EXCEPT !.state = "start", !.header_hash = hash, !.lowcase_index = i] \in RequestType
  <2>1. hash \in Texts /\ i \in 0 .. LC - 1 /\ "start" \in State
    BY DEF TypeOK, State
  <2> QED BY <2>1, SetKept
<1> QED BY <1>1, Place DEF HeaderDone, TypeOK, parserVars, clientVars, historyVars

LEMMA NameCharacterType ==
  ASSUME TypeOK, p < last, NEW q \in RequestType, NEW ch \in Cell, NEW h \in Texts, NEW j \in 0 .. LC - 1,
         NameCharacter(q, ch, h, j), UNCHANGED clientVars, UNCHANGED historyVars
  PROVE  TypeOK'
<1>1. Lowcase(ch) \in Cell
  BY DEF Lowcase, Capitals, Cell
<1>2. Append(h, Lowcase(ch)) \in Texts
  BY <1>1 DEF Texts
<1>3. (j + 1) % LC \in 0 .. LC - 1
  BY HttpAssumption
<1>4. [q EXCEPT !.lowcase_header[j] = Lowcase(ch)] \in RequestType
  <2>1. q.lowcase_header \in Kept
    BY DEF RequestType
  <2>2. [q.lowcase_header EXCEPT ![j] = Lowcase(ch)] \in Kept
    BY <1>1, <2>1 DEF Kept
  <2> QED BY <2>2, SetLowcase
<1> QED BY <1>2, <1>3, <1>4, Place DEF NameCharacter, TypeOK, State, bufferVars, clientVars, historyVars

LEMMA DigitType == ASSUME NEW ch PROVE Digit(ch) \in 0 .. 9
BY DEF Digit

-------------------------------------------------------------------------------
(* The request line: one lemma for the states of each of its parts.        *)

LEMMA LineStartType ==
  ASSUME TypeOK, p < last, NEW ch \in Cell, LineStart(ch), UNCHANGED clientVars, UNCHANGED historyVars
  PROVE  TypeOK'
<1>1. [r EXCEPT !.request_start = p] \in RequestType
  BY Place, SetPointer DEF TypeOK
<1>2. "start" \in State /\ "method" \in State
  BY DEF State
<1> QED BY <1>1, <1>2, StepType, RefuseType DEF LineStart

LEMMA MethodType ==
  ASSUME TypeOK, p < last, Method, UNCHANGED clientVars
  PROVE  TypeOK'
<1>1. cut' \in BOOLEAN /\ overread' \in BOOLEAN /\ request' = request /\ stream' \in Texts
  BY DEF Method, TypeOK, clientVars
<1>2. CASE Refuse
  BY <1>1, <1>2, FinishType DEF Refuse
<1>3. CASE ~Refuse
  <2>1. /\ state' = "spaces_before_uri" /\ r' = [r EXCEPT !.method = TRUE] /\ p' = p + 2
        /\ UNCHANGED <<bufferVars, hash, i, headers, handler, pc, answer>>
    BY <1>3 DEF Method
  <2>2. r' \in RequestType
    BY <2>1, SetMethod DEF TypeOK
  <2>3. p' \in 1 .. last' + 1
    BY <2>1 DEF TypeOK, bufferVars
  <2>4. state' \in State
    BY <2>1 DEF State
  <2> QED BY <1>1, <2>1, <2>2, <2>3, <2>4 DEF TypeOK, bufferVars
<1> QED BY <1>2, <1>3

LEMMA SpacesBeforeUriType ==
  ASSUME TypeOK, p < last, NEW ch \in Cell, SpacesBeforeUri(ch), UNCHANGED clientVars, UNCHANGED historyVars
  PROVE  TypeOK'
<1>1. [r EXCEPT !.uri_start = p] \in RequestType /\ r \in RequestType /\ state \in State
  BY Place, SetPointer DEF TypeOK
<1>2. "after_slash_in_uri" \in State
  BY DEF State
<1> QED BY <1>1, <1>2, StepType, RefuseType DEF SpacesBeforeUri

LEMMA AfterSlashInUriType ==
  ASSUME TypeOK, p < last, NEW ch \in Cell, AfterSlashInUri(ch), UNCHANGED clientVars, UNCHANGED historyVars
  PROVE  TypeOK'
<1>1. PICK q \in RequestType : q = [r EXCEPT !.uri_end = p]
  BY Place, SetPointer DEF TypeOK
<1>2. [q EXCEPT !.http_minor = 9] \in RequestType /\ r \in RequestType /\ state \in State
  <2>1. 9 \in Minor
    BY DEF Minor
  <2>2. [q EXCEPT !.http_minor = 9] \in RequestType
    BY <2>1, SetMinor
  <2> QED BY <2>2 DEF TypeOK
<1>3. "check_uri_http_09" \in State /\ "almost_done" \in State
  BY DEF State
<1>4. \/ Step("check_uri_http_09", q) \/ Step("almost_done", [q EXCEPT !.http_minor = 9])
      \/ LineDone([q EXCEPT !.http_minor = 9]) \/ Refuse \/ Step(state, r)
  BY <1>1 DEF AfterSlashInUri
<1> QED BY <1>2, <1>3, <1>4, StepType, LineDoneType, RefuseType

LEMMA CheckUriHttp09Type ==
  ASSUME TypeOK, p < last, NEW ch \in Cell, CheckUriHttp09(ch), UNCHANGED clientVars, UNCHANGED historyVars
  PROVE  TypeOK'
<1>1. /\ [r EXCEPT !.http_minor = 9] \in RequestType /\ [r EXCEPT !.http_protocol = p] \in RequestType
      /\ r \in RequestType /\ state \in State
  <2>1. 9 \in Minor /\ r \in RequestType /\ state \in State
    BY DEF TypeOK, Minor
  <2>2. [r EXCEPT !.http_minor = 9] \in RequestType
    BY <2>1, SetMinor
  <2>3. [r EXCEPT !.http_protocol = p] \in RequestType
    BY <2>1, Place, SetPointer
  <2> QED BY <2>1, <2>2, <2>3
<1>2. "http_H" \in State /\ "almost_done" \in State
  BY DEF State
<1> QED BY <1>1, <1>2, StepType, LineDoneType, RefuseType DEF CheckUriHttp09

LEMMA ProtocolNameType ==
  ASSUME TypeOK, p < last, NEW ch \in Cell, ProtocolName(ch), UNCHANGED clientVars, UNCHANGED historyVars
  PROVE  TypeOK'
<1>1. Protocol[state][2] \in State
  BY DEF ProtocolName, Protocol, State
<1>2. r \in RequestType
  BY DEF TypeOK
<1> QED BY <1>1, <1>2, StepType, RefuseType DEF ProtocolName

LEMMA MajorType ==
  ASSUME TypeOK, p < last, NEW st \in State, NEW major \in Nat, Major(st, major), UNCHANGED clientVars,
         UNCHANGED historyVars
  PROVE  TypeOK'
<1>1. CASE major > 1
  BY <1>1, RefuseType DEF Major
<1>2. CASE ~(major > 1)
  <2>1. major \in 0 .. 1
    BY <1>2
  <2>2. [r EXCEPT !.http_major = major] \in RequestType
    BY <2>1, SetMajor DEF TypeOK
  <2> QED BY <1>2, <2>2, StepType DEF Major
<1> QED BY <1>1, <1>2

LEMMA MajorDigitsType ==
  ASSUME TypeOK, p < last, NEW ch \in Cell, MajorDigits(ch), UNCHANGED clientVars, UNCHANGED historyVars
  PROVE  TypeOK'
<1>1. Digit(ch) \in Nat /\ 10 * r.http_major + Digit(ch) \in Nat
  <2>1. r.http_major \in 0 .. 1
    BY DEF TypeOK, RequestType
  <2> QED BY <2>1, DigitType
<1>2. "major_digit" \in State /\ "first_minor_digit" \in State /\ state \in State /\ r \in RequestType
  BY DEF State, TypeOK
<1>3. \/ Major("major_digit", Digit(ch)) \/ Refuse \/ Step("first_minor_digit", r)
      \/ Major(state, 10 * r.http_major + Digit(ch))
  BY DEF MajorDigits
<1> QED BY <1>1, <1>2, <1>3, StepType, RefuseType, MajorType

LEMMA MinorDigitsType ==
  ASSUME TypeOK, p < last, NEW ch \in Cell, MinorDigits(ch), UNCHANGED clientVars, UNCHANGED historyVars
  PROVE  TypeOK'
<1>1. [r EXCEPT !.http_minor = Digit(ch)] \in RequestType /\ r \in RequestType /\ state \in State
  <2>1. Digit(ch) \in Minor
    BY DigitType DEF Minor
  <2>2. r \in RequestType /\ state \in State
    BY DEF TypeOK
  <2>3. [r EXCEPT !.http_minor = Digit(ch)] \in RequestType
    BY <2>1, <2>2, SetMinor
  <2> QED BY <2>2, <2>3
<1>2. "minor_digit" \in State /\ "almost_done" \in State /\ "spaces_after_digit" \in State
  BY DEF State
<1>3. CASE r.http_minor <= 99
  <2>1. r.http_minor \in 0 .. 999
    BY DEF TypeOK, RequestType
  <2>2. PICK v \in Minor : v = 10 * r.http_minor + Digit(ch)
    <3>1. PICK m \in 0 .. 99, d \in 0 .. 9 : m = r.http_minor /\ d = Digit(ch)
      BY <1>3, <2>1, DigitType, SMTT(30)
    <3>2. 10 * m + d \in 0 .. 999
      OBVIOUS
    <3> QED BY <3>1, <3>2 DEF Minor
  <2>3. [r EXCEPT !.http_minor = 10 * @ + Digit(ch)] \in RequestType
    <3>1. [r EXCEPT !.http_minor = v] \in RequestType
      BY <1>1, SetMinor
    <3> QED BY <2>2, <3>1
  <2>4. \/ Step("minor_digit", [r EXCEPT !.http_minor = Digit(ch)]) \/ Refuse \/ Step("almost_done", r)
        \/ LineDone(r) \/ Step("spaces_after_digit", r) \/ Step(state, [r EXCEPT !.http_minor = 10 * @ + Digit(ch)])
    BY DEF MinorDigits
  <2> QED BY <1>1, <1>2, <2>3, <2>4, StepType, LineDoneType, RefuseType
<1>4. CASE ~(r.http_minor <= 99)
  <2>1. \/ Step("minor_digit", [r EXCEPT !.http_minor = Digit(ch)]) \/ Refuse \/ Step("almost_done", r)
        \/ LineDone(r) \/ Step("spaces_after_digit", r)
    BY <1>4 DEF MinorDigits
  <2> QED BY <1>1, <1>2, <2>1, StepType, LineDoneType, RefuseType
<1> QED BY <1>3, <1>4

LEMMA SpacesAfterDigitType ==
  ASSUME TypeOK, p < last, NEW ch \in Cell, SpacesAfterDigit(ch), UNCHANGED clientVars, UNCHANGED historyVars
  PROVE  TypeOK'
<1>1. "almost_done" \in State /\ state \in State /\ r \in RequestType
  BY DEF State, TypeOK
<1> QED BY <1>1, StepType, LineDoneType, RefuseType DEF SpacesAfterDigit

LEMMA LineAlmostDoneType ==
  ASSUME TypeOK, p < last, NEW ch \in Cell, LineAlmostDone(ch), UNCHANGED clientVars, UNCHANGED historyVars
  PROVE  TypeOK'
<1>1. [r EXCEPT !.request_end = p - 1] \in RequestType
  BY Place, SetPointer DEF TypeOK
<1> QED BY <1>1, LineDoneType, RefuseType DEF LineAlmostDone

LEMMA ParseLineType == TypeOK /\ ParseLine => TypeOK'
<1> SUFFICES ASSUME TypeOK, ParseLine PROVE TypeOK'
  OBVIOUS
<1>1. p < last /\ UNCHANGED clientVars /\ buffer[p] \in Cell
  BY Place DEF ParseLine
<1>2. CASE Method
  BY <1>1, <1>2, MethodType
<1>3. CASE UNCHANGED historyVars /\ ~Method
  <2>1. PICK ch \in Cell :
           \/ LineStart(ch) \/ SpacesBeforeUri(ch) \/ AfterSlashInUri(ch) \/ CheckUriHttp09(ch)
           \/ ProtocolName(ch) \/ MajorDigits(ch) \/ MinorDigits(ch) \/ SpacesAfterDigit(ch) \/ LineAlmostDone(ch)
    BY <1>1, <1>3 DEF ParseLine
  <2> QED BY <1>1, <1>3, <2>1, LineStartType, SpacesBeforeUriType, AfterSlashInUriType, CheckUriHttp09Type,
             ProtocolNameType, MajorDigitsType, MinorDigitsType, SpacesAfterDigitType, LineAlmostDoneType
<1> QED BY <1>2, <1>3 DEF ParseLine

-------------------------------------------------------------------------------
(* The header lines.                                                       *)

LEMMA DecideType ==
  ASSUME TypeOK, Decide, UNCHANGED clientVars, UNCHANGED historyVars
  PROVE  TypeOK'
<1>1. CASE Refuse
  BY <1>1, RefuseType
<1>2. CASE Finish("101", CString(r.key))
  BY <1>2, FinishType DEF TypeOK, clientVars, historyVars
<1> QED BY <1>1, <1>2 DEF Decide

LEMMA HeaderStartType ==
  ASSUME TypeOK, p < last, NEW ch \in Cell, HeaderStart(ch), UNCHANGED clientVars, UNCHANGED historyVars
  PROVE  TypeOK'
<1> DEFINE q == [r EXCEPT !.name_start = p, !.invalid_header = FALSE]
<1>1. q \in RequestType
  <2>1. PICK a \in RequestType : a = [r EXCEPT !.name_start = p]
    BY Place, SetPointer DEF TypeOK
  <2>2. [a EXCEPT !.invalid_header = FALSE] \in RequestType
    BY SetInvalid
  <2> QED BY <2>1, <2>2
<1> HIDE DEF q
<1>2. /\ [q EXCEPT !.header_end = p] \in RequestType /\ [q EXCEPT !.invalid_header = TRUE] \in RequestType
  BY <1>1, Place, SetPointer, SetInvalid
<1>3. "header_almost_done" \in State /\ "name" \in State /\ <<>> \in Texts /\ 0 \in 0 .. LC - 1
  BY HttpAssumption DEF State, Texts
<1>4. \/ Step("header_almost_done", [q EXCEPT !.header_end = p]) \/ Decide \/ NameCharacter(q, ch, <<>>, 0)
      \/ Refuse \/ Step("name", [q EXCEPT !.invalid_header = TRUE])
  BY DEF HeaderStart, q
<1> QED BY <1>1, <1>2, <1>3, <1>4, StepType, DecideType, NameCharacterType, RefuseType

LEMMA NameType ==
  ASSUME TypeOK, p < last, NEW ch \in Cell, Name(ch), UNCHANGED clientVars, UNCHANGED historyVars
  PROVE  TypeOK'
<1> DEFINE none == [r EXCEPT !.name_end = p, !.header_start = p, !.header_end = p]
<1>1. none \in RequestType
  <2>1. PICK a \in RequestType : a = [r EXCEPT !.name_end = p]
    BY Place, SetPointer DEF TypeOK
  <2>2. PICK b \in RequestType : b = [a EXCEPT !.header_start = p]
    BY Place, SetPointer
  <2>3. [b EXCEPT !.header_end = p] \in RequestType
    BY Place, SetPointer
  <2> QED BY <2>1, <2>2, <2>3
<1> HIDE DEF none
<1>2. /\ r \in RequestType /\ hash \in Texts /\ i \in 0 .. LC - 1 /\ state \in State
      /\ "space_before_value" \in State /\ "almost_done" \in State
  BY DEF TypeOK, State
<1>3. [r EXCEPT !.name_end = p] \in RequestType /\ [r EXCEPT !.invalid_header = TRUE] \in RequestType
  BY <1>2, Place, SetPointer, SetInvalid
<1>4. \/ NameCharacter(r, ch, hash, i) \/ Step("space_before_value", [r EXCEPT !.name_end = p])
      \/ Step("almost_done", none) \/ HeaderDone(none) \/ Refuse \/ Step(state, [r EXCEPT !.invalid_header = TRUE])
  BY DEF Name, none
<1> QED BY <1>1, <1>2, <1>3, <1>4, StepType, HeaderDoneType, NameCharacterType, RefuseType

LEMMA SpaceBeforeValueType ==
  ASSUME TypeOK, p < last, NEW ch \in Cell, SpaceBeforeValue(ch), UNCHANGED clientVars, UNCHANGED historyVars
  PROVE  TypeOK'
<1> DEFINE none == [r EXCEPT !.header_start = p, !.header_end = p]
<1>1. none \in RequestType
  <2>1. PICK a \in RequestType : a = [r EXCEPT !.header_start = p]
    BY Place, SetPointer DEF TypeOK
  <2>2. [a EXCEPT !.header_end = p] \in RequestType
    BY Place, SetPointer
  <2> QED BY <2>1, <2>2
<1> HIDE DEF none
<1>2. /\ r \in RequestType /\ state \in State /\ "value" \in State /\ "almost_done" \in State
  BY DEF TypeOK, State
<1>3. [r EXCEPT !.header_start = p] \in RequestType
  BY <1>2, Place, SetPointer
<1>4. \/ Step(state, r) \/ Step("almost_done", none) \/ HeaderDone(none) \/ Refuse
      \/ Step("value", [r EXCEPT !.header_start = p])
  BY DEF SpaceBeforeValue, none
<1> QED BY <1>1, <1>2, <1>3, <1>4, StepType, HeaderDoneType, RefuseType

LEMMA InValueType ==
  ASSUME TypeOK, p < last, NEW ch \in Cell, InValue(ch), UNCHANGED clientVars, UNCHANGED historyVars
  PROVE  TypeOK'
<1>1. PICK q \in RequestType : q = [r EXCEPT !.header_end = p]
  BY Place, SetPointer DEF TypeOK
<1>2. /\ r \in RequestType /\ state \in State /\ "space_after_value" \in State /\ "almost_done" \in State
  BY DEF TypeOK, State
<1>3. \/ Step("space_after_value", q) \/ Step("almost_done", q) \/ HeaderDone(q) \/ Refuse \/ Step(state, r)
  BY <1>1 DEF InValue
<1> QED BY <1>2, <1>3, StepType, HeaderDoneType, RefuseType

LEMMA SpaceAfterValueType ==
  ASSUME TypeOK, p < last, NEW ch \in Cell, SpaceAfterValue(ch), UNCHANGED clientVars, UNCHANGED historyVars
  PROVE  TypeOK'
<1>1. /\ r \in RequestType /\ state \in State /\ "value" \in State /\ "almost_done" \in State
  BY DEF TypeOK, State
<1>2. Step(state, r) \/ Step("almost_done", r) \/ HeaderDone(r) \/ Refuse \/ Step("value", r)
  BY DEF SpaceAfterValue
<1> QED BY <1>1, <1>2, StepType, HeaderDoneType, RefuseType

LEMMA HeaderAlmostDoneType ==
  ASSUME TypeOK, p < last, NEW ch \in Cell, HeaderAlmostDone(ch), UNCHANGED clientVars, UNCHANGED historyVars
  PROVE  TypeOK'
<1>1. r \in RequestType /\ state \in State
  BY DEF TypeOK
<1>2. HeaderDone(r) \/ Step(state, r) \/ Refuse \/ Decide
  BY DEF HeaderAlmostDone
<1> QED BY <1>1, <1>2, StepType, HeaderDoneType, DecideType, RefuseType

LEMMA ParseHeadersType == TypeOK /\ ParseHeaders => TypeOK'
<1> SUFFICES ASSUME TypeOK, ParseHeaders PROVE TypeOK'
  OBVIOUS
<1>1. p < last /\ UNCHANGED clientVars /\ UNCHANGED historyVars /\ buffer[p] \in Cell
  BY Place DEF ParseHeaders
<1>2. PICK ch \in Cell : \/ HeaderStart(ch) \/ Name(ch) \/ SpaceBeforeValue(ch) \/ InValue(ch) \/ SpaceAfterValue(ch)
                        \/ HeaderAlmostDone(ch)
  BY <1>1 DEF ParseHeaders
<1> QED BY <1>1, <1>2, HeaderStartType, NameType, SpaceBeforeValueType, InValueType, SpaceAfterValueType,
           HeaderAlmostDoneType

(* A header line that is complete.                                         *)
LEMMA HeaderEntryType == TypeOK /\ HeaderEntry => TypeOK'
<1> SUFFICES ASSUME TypeOK, HeaderEntry PROVE TypeOK'
  OBVIOUS
<1>1. /\ pc' = "parse" /\ p' = pos /\ state' = r.state
      /\ UNCHANGED <<clientVars, pos, last, hash, i, handler, answer, cut>>
  BY DEF HeaderEntry
<1>2. buffer' \in [1 .. End -> Cell]
  <2>1. "nul" \in Cell
    BY DEF Cell
  <2>2. buffer \in [1 .. End -> Cell]
    BY DEF TypeOK
  <2> QED BY <2>1, <2>2 DEF HeaderEntry
<1>3. r' \in RequestType
  <2>1. CASE UNCHANGED r
    BY <2>1 DEF TypeOK
  <2>2. CASE ~UNCHANGED r
    <3>1. PICK up \in BOOLEAN, key \in {r.header_start, r.key} : r' = [r EXCEPT !.upgrade = up, !.key = key]
      BY <2>2 DEF HeaderEntry
    <3>2. key \in 0 .. End
      BY DEF TypeOK, RequestType
    <3>3. PICK a \in RequestType : a = [r EXCEPT !.upgrade = up]
      BY SetUpgrade DEF TypeOK
    <3>4. [a EXCEPT !.key = key] \in RequestType
      BY <3>2, SetPointer
    <3> QED BY <3>1, <3>3, <3>4
  <2> QED BY <2>1, <2>2
<1>4. overread' \in BOOLEAN
  BY DEF HeaderEntry, TypeOK
<1>5. state' \in State
  BY <1>1 DEF TypeOK, RequestType
<1> QED BY <1>1, <1>2, <1>3, <1>4, <1>5 DEF TypeOK, clientVars

-------------------------------------------------------------------------------
(* What the handler does between two calls of a parser.                    *)

LEMMA CallType ==
  ASSUME TypeOK, Call, NEW n \in Nat, last' = last + n, last' \in 1 .. End + 1, pos' = pos,
         buffer' \in [1 .. End -> Cell], request' = request, stream' \in Texts, UNCHANGED historyVars
  PROVE  TypeOK'
<1>1. pos' \in 1 .. last' + 1 /\ p' \in 1 .. last' + 1
  BY HttpAssumption DEF TypeOK, Call
<1>2. state' \in State /\ hash' \in Texts /\ i' \in 0 .. LC - 1
  BY DEF TypeOK, RequestType, Call
<1> QED BY <1>1, <1>2 DEF TypeOK, Call, historyVars

LEMMA ReceivedType ==
  ASSUME TypeOK, NEW n \in 1 .. Len(stream), last + n <= End + 1, Received(n)
  PROVE  /\ n \in Nat /\ last' = last + n /\ last' \in 1 .. End + 1
         /\ buffer' \in [1 .. End -> Cell] /\ stream' \in Texts
<1>1. stream \in Seq(Cell) /\ Len(stream) \in Nat /\ n \in Nat /\ last \in 1 .. End + 1 /\ End \in Nat
  BY HttpAssumption DEF TypeOK, Texts
<1>2. last' = last + n /\ last' \in 1 .. End + 1
  BY <1>1 DEF Received
<1>3. stream' \in Texts
  <2>1. SubSeq(stream, n + 1, Len(stream)) \in Seq(Cell)
    BY <1>1
  <2> QED BY <2>1 DEF Received, Texts
<1>4. ASSUME NEW j \in 1 .. End PROVE (IF j \in last .. last + n - 1 THEN stream[j - last + 1] ELSE buffer[j]) \in Cell
  <2>1. CASE j \in last .. last + n - 1
    <3>1. j - last + 1 \in 1 .. Len(stream)
      BY <1>1, <2>1
    <3>2. stream[j - last + 1] \in Cell
      BY <1>1, <3>1, ElementOfSeq
    <3> QED BY <2>1, <3>2
  <2>2. CASE ~(j \in last .. last + n - 1)
    BY <2>2 DEF TypeOK
  <2> QED BY <2>1, <2>2
<1>5. buffer' \in [1 .. End -> Cell]
  BY <1>4 DEF Received
<1> QED BY <1>1, <1>2, <1>3, <1>5

LEMMA ReadType == TypeOK /\ Read => TypeOK'
<1> SUFFICES ASSUME TypeOK, Read PROVE TypeOK'
  OBVIOUS
<1>1. UNCHANGED historyVars /\ request' = request
  BY DEF Read
<1>2. CASE Call /\ UNCHANGED <<stream, bufferVars>>
  <2>1. 0 \in Nat /\ last' = last + 0 /\ last' \in 1 .. End + 1 /\ pos' = pos
    BY <1>2, HttpAssumption DEF TypeOK, bufferVars
  <2>2. buffer' \in [1 .. End -> Cell] /\ stream' \in Texts
    BY <1>2 DEF TypeOK, bufferVars
  <2> QED BY <1>1, <1>2, <2>1, <2>2, CallType
<1>3. CASE \E n \in 1 .. Len(stream) : last + n <= End + 1 /\ Received(n) /\ Call /\ UNCHANGED pos
  BY <1>1, <1>3, ReceivedType, CallType
<1>4. CASE Finish("closed", <<>>) /\ UNCHANGED stream
  BY <1>1, <1>4, FinishType DEF TypeOK, historyVars
<1> QED BY <1>2, <1>3, <1>4 DEF Read

LEMMA AgainType == TypeOK /\ Again => TypeOK'
<1> SUFFICES ASSUME TypeOK, Again PROVE TypeOK'
  OBVIOUS
<1>1. UNCHANGED clientVars /\ UNCHANGED historyVars
  BY DEF Again
<1>2. CASE p = End + 1
  BY <1>1, <1>2, FinishType DEF Again, TypeOK, clientVars, historyVars
<1>3. CASE p # End + 1
  <2>1. r' \in RequestType
    <3>1. hash \in Texts /\ i \in 0 .. LC - 1 /\ state \in State /\ r \in RequestType
      BY DEF TypeOK
    <3>2. r' = [r EXCEPT !.state = state, !.header_hash = hash, !.lowcase_index = i]
      BY <1>3 DEF Again
    <3> QED BY <3>1, <3>2, SetKept
  <2>2. pos' = p /\ pc' = "read" /\ UNCHANGED <<buffer, last, parserVars, headers, handler, answer>>
    BY <1>3 DEF Again
  <2> QED BY <1>1, <2>1, <2>2 DEF TypeOK, parserVars, clientVars, historyVars
<1> QED BY <1>2, <1>3

LEMMA LeftType == TypeOK /\ Left => TypeOK'
BY FinishType DEF Left, TypeOK, clientVars, historyVars

LEMMA TypeNext == TypeOK /\ [Next]_vars => TypeOK'
<1>1. CASE UNCHANGED vars
  BY <1>1 DEF TypeOK, vars, clientVars, bufferVars, parserVars, historyVars
<1> QED BY <1>1, ReadType, AgainType, ParseLineType, ParseHeadersType, HeaderEntryType, LeftType DEF Next, Process

(* However the request is cut, and whatever it is: no pointer of the       *)
(* parsers and of the request leaves the buffer by more than the one       *)
(* character of the comparison of the method, and no name overruns         *)
(* lowcase_header (http/ngx_http_parse.c).                                 *)
THEOREM TypeCorrect == Spec => []TypeOK
BY InitType, TypeNext, PTL DEF Spec

-------------------------------------------------------------------------------
(* Numbers: what holds of 0 and is handed on holds up to any number.       *)
LEMMA Steps ==
  ASSUME NEW top \in Nat, NEW S, 0 \in S, \A n \in 0 .. top - 1 : n \in S => n + 1 \in S
  PROVE  \A n \in 0 .. top : n \in S
<1> DEFINE D == {n \in 0 .. top : n \notin S}
<1> SUFFICES ASSUME D # {} PROVE FALSE
  OBVIOUS
<1>1. D \subseteq Nat
  OBVIOUS
<1>2. PICK m \in D : \A n \in D : <<n, m>> \notin OpToRel(<, Nat)
  BY <1>1, NatLessThanWellFounded, WFMin
<1>3. m \in 0 .. top /\ m # 0 /\ m - 1 \in 0 .. top - 1 /\ m - 1 + 1 = m
  OBVIOUS
<1>4. m - 1 \notin S
  BY <1>3
<1>5. m - 1 \in D /\ m - 1 < m /\ m \in Nat
  BY <1>3, <1>4
<1>6. <<m - 1, m>> \in OpToRel(<, Nat)
  BY <1>1, <1>5 DEF OpToRel
<1> QED BY <1>2, <1>5, <1>6

Chain(f, S, base, top, step) ==
  f \in [0 .. top -> S] /\ f[0] = base /\ \A n \in 1 .. top : f[n] = step[n][f[n - 1]]

(* A function defined by steps from 0 on exists.                           *)
LEMMA Defined ==
  ASSUME NEW S, NEW base \in S, NEW top \in Nat, NEW step \in [1 .. top -> [S -> S]]
  PROVE  \E f : Chain(f, S, base, top, step)
<1> DEFINE Rule(f, m) == f \in [0 .. m -> S] /\ f[0] = base /\ \A n \in 1 .. m : f[n] = step[n][f[n - 1]]
           Good == {m \in 0 .. top : \E f \in [0 .. m -> S] : Rule(f, m)}
<1>1. 0 \in Good
  <2>1. PICK f \in [0 .. 0 -> S] : f = [n \in 0 .. 0 |-> base]
    OBVIOUS
  <2>2. Rule(f, 0) /\ 0 \in 0 .. top
    BY <2>1
  <2> QED BY <2>2
<1>2. ASSUME NEW n \in 0 .. top - 1, n \in Good PROVE n + 1 \in Good
  <2>1. PICK f \in [0 .. n -> S] : Rule(f, n)
    BY <1>2
  <2> DEFINE v == step[n + 1][f[n]]
             g == [m \in 0 .. n + 1 |-> IF m = n + 1 THEN v ELSE f[m]]
  <2>2. v \in S
    <3>1. n + 1 \in 1 .. top /\ n \in 0 .. n
      OBVIOUS
    <3>2. step[n + 1] \in [S -> S] /\ f[n] \in S
      BY <3>1
    <3> QED BY <3>2
  <2> HIDE DEF v
  <2>3. g \in [0 .. n + 1 -> S]
    BY <2>2
  <2>4. g[0] = base
    BY <2>1
  <2>5. ASSUME NEW m \in 1 .. n + 1 PROVE g[m] = step[m][g[m - 1]]
    <3>1. CASE m = n + 1
      <4>1. g[m] = v /\ g[m - 1] = f[n]
        BY <3>1
      <4> QED BY <3>1, <4>1 DEF v
    <3>2. CASE m # n + 1
      <4>1. m \in 1 .. n /\ m - 1 \in 0 .. n /\ m - 1 # n + 1
        BY <3>2
      <4>2. g[m] = f[m] /\ g[m - 1] = f[m - 1]
        BY <4>1
      <4> QED BY <2>1, <4>1, <4>2
    <3> QED BY <3>1, <3>2
  <2>6. Rule(g, n + 1)
    BY <2>3, <2>4, <2>5
  <2>7. n + 1 \in 0 .. top
    OBVIOUS
  <2> HIDE DEF g
  <2> QED BY <2>3, <2>6, <2>7
<1>3. top \in Good
  <2> HIDE DEF Good
  <2>1. \A n \in 0 .. top : n \in Good
    BY <1>1, <1>2, Steps
  <2> QED BY <2>1
<1> QED BY <1>3 DEF Chain

(* The number that digits stand for.                                       *)
LEMMA NumberOfDigits ==
  ASSUME NEW digits, Len(digits) \in Nat
  PROVE  /\ NumberOf(digits)[0] = 0
         /\ \A n \in 1 .. Len(digits) : NumberOf(digits)[n] = 10 * NumberOf(digits)[n - 1] + Digit(digits[n])
         /\ \A n \in 0 .. Len(digits) : NumberOf(digits)[n] \in Nat
<1> DEFINE top == Len(digits)
           step == [n \in 1 .. top |-> [v \in Nat |-> 10 * v + Digit(digits[n])]]
           Rule(f) == f = [n \in 0 .. top |-> IF n = 0 THEN 0 ELSE 10 * f[n - 1] + Digit(digits[n])]
<1>1. \A ch : Digit(ch) \in Nat
  BY DEF Digit
<1>2. step \in [1 .. top -> [Nat -> Nat]]
  BY <1>1
<1>3. PICK f \in [0 .. top -> Nat] : f[0] = 0 /\ \A n \in 1 .. top : f[n] = step[n][f[n - 1]]
  <2>1. 0 \in Nat /\ top \in Nat
    OBVIOUS
  <2> HIDE DEF step, top
  <2>2. \E f : Chain(f, Nat, 0, top, step)
    BY <1>2, <2>1, Defined, Zenon
  <2> QED BY <2>2 DEF Chain
<1>4. \A n \in 1 .. top : f[n] = step[n][f[n - 1]] /\ f[n - 1] \in Nat
  <2>1. \A n \in 1 .. top : n - 1 \in 0 .. top
    OBVIOUS
  <2> HIDE DEF step, top
  <2> QED BY <1>3, <2>1
<1>6. \A n \in 1 .. top : f[n] = 10 * f[n - 1] + Digit(digits[n])
  BY <1>4
<1>7. Rule(f)
  <2>1. \A n \in 0 .. top : f[n] = IF n = 0 THEN 0 ELSE 10 * f[n - 1] + Digit(digits[n])
    BY <1>3, <1>6
  <2>2. f = [n \in 0 .. top |-> f[n]]
    BY <1>3
  <2> HIDE DEF top
  <2> QED BY <2>1, <2>2
<1>8. NumberOf(digits) = CHOOSE g : Rule(g)
  BY DEF NumberOf
<1>9. Rule(NumberOf(digits))
  BY <1>7, <1>8
<1> DEFINE g == NumberOf(digits)
<1> HIDE DEF g
<1>10. g[0] = 0 /\ \A n \in 1 .. top : g[n] = 10 * g[n - 1] + Digit(digits[n])
  BY <1>9 DEF g
<1>11. \A n \in 0 .. top : g[n] \in Nat
  <2> DEFINE T == {n \in 0 .. top : g[n] \in Nat}
  <2>1. 0 \in T
    BY <1>10
  <2>2. ASSUME NEW n \in 0 .. top - 1, n \in T PROVE n + 1 \in T
    <3>1. n + 1 \in 1 .. top /\ g[n + 1] = 10 * g[n] + Digit(digits[n + 1]) /\ g[n] \in Nat
      BY <1>10, <2>2
    <3> QED BY <1>1, <3>1
  <2> HIDE DEF T
  <2>3. \A n \in 0 .. top : n \in T
    BY <2>1, <2>2, Steps
  <2> QED BY <2>3 DEF T
<1> QED BY <1>10, <1>11 DEF g

(* The text of the first headers.                                          *)
LEMMA TextOfHeaders ==
  ASSUME NEW lines, Len(lines) \in Nat, \A n \in 1 .. Len(lines) : HeaderText(lines[n]) \in Seq(Cell)
  PROVE  /\ HeadersText(lines)[0] = <<>>
         /\ \A n \in 1 .. Len(lines) : HeadersText(lines)[n] = HeadersText(lines)[n - 1] \o HeaderText(lines[n])
         /\ \A n \in 0 .. Len(lines) : HeadersText(lines)[n] \in Seq(Cell)
<1> DEFINE top == Len(lines)
           step == [n \in 1 .. top |-> [v \in Seq(Cell) |-> v \o HeaderText(lines[n])]]
           Rule(f) == f = [n \in 0 .. top |-> IF n = 0 THEN <<>> ELSE f[n - 1] \o HeaderText(lines[n])]
<1>2. step \in [1 .. top -> [Seq(Cell) -> Seq(Cell)]]
  <2>1. \A n \in 1 .. top, v \in Seq(Cell) : v \o HeaderText(lines[n]) \in Seq(Cell)
    BY ConcatProperties
  <2> QED BY <2>1
<1>3. PICK f \in [0 .. top -> Seq(Cell)] : f[0] = <<>> /\ \A n \in 1 .. top : f[n] = step[n][f[n - 1]]
  <2>1. <<>> \in Seq(Cell) /\ top \in Nat
    OBVIOUS
  <2> HIDE DEF step, top
  <2>2. \E f : Chain(f, Seq(Cell), <<>>, top, step)
    BY <1>2, <2>1, Defined, Zenon
  <2> QED BY <2>2 DEF Chain
<1>4. \A n \in 1 .. top : f[n] = step[n][f[n - 1]] /\ f[n - 1] \in Seq(Cell)
  <2>1. \A n \in 1 .. top : n - 1 \in 0 .. top
    OBVIOUS
  <2> HIDE DEF step, top
  <2> QED BY <1>3, <2>1
<1>6. \A n \in 1 .. top : f[n] = f[n - 1] \o HeaderText(lines[n])
  BY <1>4
<1>7. Rule(f)
  <2>1. \A n \in 0 .. top : f[n] = IF n = 0 THEN <<>> ELSE f[n - 1] \o HeaderText(lines[n])
    <3>1. \A n \in 0 .. top : n # 0 => n \in 1 .. top
      OBVIOUS
    <3> HIDE DEF top, step
    <3> QED BY <1>3, <1>6, <3>1
  <2>2. f = [n \in 0 .. top |-> f[n]]
    BY <1>3
  <2> HIDE DEF top
  <2> QED BY <2>1, <2>2
<1>8. HeadersText(lines) = CHOOSE g : Rule(g)
  BY DEF HeadersText
<1>9. Rule(HeadersText(lines))
  BY <1>7, <1>8
<1> DEFINE g == HeadersText(lines)
<1> HIDE DEF g
<1>10. g[0] = <<>> /\ \A n \in 1 .. top : g[n] = g[n - 1] \o HeaderText(lines[n])
  <2>1. \A n \in 0 .. top : g[n] = IF n = 0 THEN <<>> ELSE g[n - 1] \o HeaderText(lines[n])
    <3> HIDE DEF top
    <3> QED BY <1>9 DEF g
  <2>2. 0 \in 0 .. top /\ \A n \in 1 .. top : n \in 0 .. top /\ n # 0
    OBVIOUS
  <2> HIDE DEF top
  <2> QED BY <2>1, <2>2
<1>11. \A n \in 0 .. top : g[n] \in Seq(Cell)
  <2> DEFINE T == {n \in 0 .. top : g[n] \in Seq(Cell)}
  <2>1. 0 \in T
    BY <1>10
  <2>2. ASSUME NEW n \in 0 .. top - 1, n \in T PROVE n + 1 \in T
    <3>1. n + 1 \in 1 .. top /\ g[n + 1] = g[n] \o HeaderText(lines[n + 1]) /\ g[n] \in Seq(Cell)
      <4>1. n + 1 \in 1 .. top /\ n + 1 - 1 = n
        OBVIOUS
      <4>2. g[n] \in Seq(Cell)
        BY <2>2
      <4>3. PICK m \in 1 .. top : m = n + 1 /\ m - 1 = n
        BY <4>1
      <4> HIDE DEF top
      <4>4. g[m] = g[m - 1] \o HeaderText(lines[m])
        BY <1>10
      <4> QED BY <4>1, <4>2, <4>3, <4>4
    <3>2. g[n] \o HeaderText(lines[n + 1]) \in Seq(Cell)
      BY <3>1, ConcatProperties
    <3>3. n + 1 \in 0 .. top
      OBVIOUS
    <3> HIDE DEF top
    <3> QED BY <3>1, <3>2, <3>3
  <2> HIDE DEF T
  <2>3. \A n \in 0 .. top : n \in T
    BY <2>1, <2>2, Steps
  <2> QED BY <2>3 DEF T
<1> QED BY <1>10, <1>11 DEF g

(* The list of the first headers.                                          *)
Entries(lines) == {Entry(lines[n]) : n \in 1 .. Len(lines)}

LEMMA ListOfHeaders ==
  ASSUME NEW lines, Len(lines) \in Nat
  PROVE  /\ HeadersOf(lines)[0] = <<>>
         /\ \A n \in 1 .. Len(lines) :
              HeadersOf(lines)[n] = IF ValidName(lines[n].name) THEN Append(HeadersOf(lines)[n - 1], Entry(lines[n]))
                                    ELSE HeadersOf(lines)[n - 1]
         /\ \A n \in 0 .. Len(lines) : HeadersOf(lines)[n] \in Seq(Entries(lines))
<1> DEFINE top == Len(lines)
           E == Entries(lines)
           Next1(n, v) == IF ValidName(lines[n].name) THEN Append(v, Entry(lines[n])) ELSE v
           step == [n \in 1 .. top |-> [v \in Seq(E) |-> Next1(n, v)]]
           Rule(f) == f = [n \in 0 .. top |-> IF n = 0 THEN <<>>
                             ELSE IF ValidName(lines[n].name) THEN Append(f[n - 1], Entry(lines[n])) ELSE f[n - 1]]
<1>1. ASSUME NEW n \in 1 .. top, NEW v \in Seq(E) PROVE Next1(n, v) \in Seq(E)
  <2>1. Entry(lines[n]) \in E
    BY DEF Entries
  <2> HIDE DEF E
  <2> QED BY <2>1, AppendProperties
<1>2. step \in [1 .. top -> [Seq(E) -> Seq(E)]]
  <2> HIDE DEF Next1, E
  <2> QED BY <1>1
<1>3. PICK f \in [0 .. top -> Seq(E)] : f[0] = <<>> /\ \A n \in 1 .. top : f[n] = step[n][f[n - 1]]
  <2>1. <<>> \in Seq(E) /\ top \in Nat
    OBVIOUS
  <2> HIDE DEF step, top, E
  <2>2. \E f : Chain(f, Seq(E), <<>>, top, step)
    BY <1>2, <2>1, Defined, Zenon
  <2> QED BY <2>2 DEF Chain
<1>4. \A n \in 1 .. top : f[n] = step[n][f[n - 1]] /\ f[n - 1] \in Seq(E)
  <2>1. \A n \in 1 .. top : n - 1 \in 0 .. top
    OBVIOUS
  <2> HIDE DEF step, top, E
  <2> QED BY <1>3, <2>1
<1>6. \A n \in 1 .. top : f[n] = Next1(n, f[n - 1])
  <2> HIDE DEF Next1, E
  <2> QED BY <1>4
<1>7. Rule(f)
  <2>1. \A n \in 0 .. top : f[n] = IF n = 0 THEN <<>>
                             ELSE IF ValidName(lines[n].name) THEN Append(f[n - 1], Entry(lines[n])) ELSE f[n - 1]
    <3>1. \A n \in 0 .. top : n # 0 => n \in 1 .. top
      OBVIOUS
    <3> HIDE DEF top, step, E
    <3> QED BY <1>3, <1>6, <3>1
  <2>2. f = [n \in 0 .. top |-> f[n]]
    BY <1>3
  <2> HIDE DEF top, E
  <2> QED BY <2>1, <2>2
<1>8. HeadersOf(lines) = CHOOSE g : Rule(g)
  BY DEF HeadersOf
<1>9. Rule(HeadersOf(lines))
  BY <1>7, <1>8
<1> DEFINE g == HeadersOf(lines)
<1> HIDE DEF g
<1>10. g[0] = <<>> /\ \A n \in 1 .. top : g[n] = Next1(n, g[n - 1])
  <2>1. \A n \in 0 .. top : g[n] = IF n = 0 THEN <<>>
                             ELSE IF ValidName(lines[n].name) THEN Append(g[n - 1], Entry(lines[n])) ELSE g[n - 1]
    <3> HIDE DEF top
    <3> QED BY <1>9 DEF g
  <2>2. 0 \in 0 .. top /\ \A n \in 1 .. top : n \in 0 .. top /\ n # 0
    OBVIOUS
  <2> HIDE DEF top
  <2> QED BY <2>1, <2>2
<1>11. \A n \in 0 .. top : g[n] \in Seq(E)
  <2> DEFINE T == {n \in 0 .. top : g[n] \in Seq(E)}
  <2> HIDE DEF Next1, E
  <2>1. 0 \in T
    <3>1. <<>> \in Seq(E) /\ 0 \in 0 .. top
      OBVIOUS
    <3> QED BY <1>10, <3>1
  <2>2. ASSUME NEW n \in 0 .. top - 1, n \in T PROVE n + 1 \in T
    <3>1. n + 1 \in 1 .. top /\ g[n + 1] = Next1(n + 1, g[n]) /\ g[n] \in Seq(E)
      BY <1>10, <2>2
    <3>2. Next1(n + 1, g[n]) \in Seq(E)
      BY <3>1, <1>1
    <3> QED BY <3>1, <3>2
  <2> HIDE DEF T
  <2>3. \A n \in 0 .. top : n \in T
    BY <2>1, <2>2, Steps
  <2> QED BY <2>3 DEF T
<1> QED BY <1>10, <1>11 DEF g

-------------------------------------------------------------------------------
(* Where the parts of a request are in its text: the line, ...             *)

MethodAt(l) == 1 + Len(l.lead)
MethodEnd(l) == MethodAt(l) + Len(l.method)
UriAt(l) == MethodEnd(l) + l.gap
UriEnd(l) == UriAt(l) + Len(l.uri)
ProtoAt(l) == UriEnd(l) + l.gap2
MajorAt(l) == ProtoAt(l) + Len(l.proto)
DotAt(l) == MajorAt(l) + Len(l.major)
MinorAt(l) == DotAt(l) + 1
MinorEnd(l) == MinorAt(l) + Len(l.minor)
EolAt(l) == IF l.proto = <<>> THEN ProtoAt(l) ELSE MinorEnd(l) + l.trail
LineEnd(l) == EolAt(l) + Len(l.eol)

(* ... and a header line, at s.                                            *)
NameEnd(h, s) == s + Len(h.name)
AfterColon(h, s) == NameEnd(h, s) + 1
ValueAt(h, s) == IF h.colon THEN AfterColon(h, s) + h.gap ELSE NameEnd(h, s)
ValueEnd(h, s) == ValueAt(h, s) + Len(h.value)
HeaderEol(h, s) == IF h.colon THEN ValueEnd(h, s) + h.trail ELSE ValueEnd(h, s)
HeaderEnd(h, s) == HeaderEol(h, s) + Len(h.eol)

(* The place after the line and the first k headers.                       *)
From(q, k) == LineEnd(q.line) + Len(HeadersText(q.lines)[k])

-------------------------------------------------------------------------------
(* A text s in a text t, from f on and up to e.                            *)

Spans(t, f, e, s) == e = f + Len(s) /\ \A n \in f .. e - 1 : t[n] = s[n - f + 1]

(* A text in two parts: both are at their places.                          *)
LEMMA Apart ==
  ASSUME NEW t, NEW f \in Nat, NEW e, NEW a \in Seq(Cell), NEW b \in Seq(Cell), Spans(t, f, e, a \o b)
  PROVE  /\ f + Len(a) \in Nat /\ f <= f + Len(a) /\ e \in Nat /\ f + Len(a) <= e
         /\ Spans(t, f, f + Len(a), a) /\ Spans(t, f + Len(a), e, b)
<1>1. /\ Len(a) \in Nat /\ Len(b) \in Nat /\ Len(a \o b) = Len(a) + Len(b)
      /\ \A n \in 1 .. Len(a) + Len(b) : (a \o b)[n] = IF n <= Len(a) THEN a[n] ELSE b[n - Len(a)]
  BY ConcatProperties, LenProperties
<1>2. e = f + (Len(a) + Len(b)) /\ \A n \in f .. e - 1 : t[n] = (a \o b)[n - f + 1]
  BY <1>1 DEF Spans
<1> PICK m \in Nat : m = f + Len(a)
  BY <1>1
<1>3. e = m + Len(b) /\ m <= e /\ f <= m
  BY <1>1, <1>2
<1>4. ASSUME NEW n \in f .. m - 1 PROVE t[n] = a[n - f + 1]
  <2>1. n \in f .. e - 1 /\ n - f + 1 \in 1 .. Len(a) + Len(b) /\ n - f + 1 <= Len(a)
    BY <1>1, <1>2, <1>3
  <2> QED BY <1>1, <1>2, <2>1
<1>5. ASSUME NEW n \in m .. e - 1 PROVE t[n] = b[n - m + 1]
  <2>1. n \in f .. e - 1 /\ n - f + 1 \in 1 .. Len(a) + Len(b) /\ ~(n - f + 1 <= Len(a)) /\ n - f + 1 - Len(a) = n - m + 1
    BY <1>1, <1>2, <1>3
  <2> QED BY <1>1, <1>2, <2>1
<1>6. Spans(t, f, m, a) /\ Spans(t, m, e, b)
  BY <1>3, <1>4, <1>5 DEF Spans
<1> QED BY <1>2, <1>3, <1>6

(* The same text, cut out.                                                 *)
LEMMA CutOut ==
  ASSUME NEW t, NEW f \in Nat, NEW e \in Nat, NEW s \in Seq(Cell), Spans(t, f, e, s)
  PROVE  SubSeq(t, f, e - 1) = s
<1>1. Len(s) \in Nat /\ (\A n \in 1 .. Len(s) : s[n] \in Cell) /\ e = f + Len(s)
  BY LenProperties, ElementOfSeq DEF Spans
<1>2. \A n \in f .. e - 1 : t[n] = s[n - f + 1] /\ n - f + 1 \in 1 .. Len(s)
  BY <1>1 DEF Spans
<1>3. (\A n \in f .. e - 1 : t[n] \in Cell) /\ e - 1 \in Int
  BY <1>1, <1>2
<1>4. /\ SubSeq(t, f, e - 1) \in Seq(Cell) /\ Len(SubSeq(t, f, e - 1)) = IF f <= e - 1 THEN e - 1 - f + 1 ELSE 0
      /\ \A n \in 1 .. e - 1 - f + 1 : SubSeq(t, f, e - 1)[n] = t[f + n - 1]
  BY <1>3, SubSeqProperties
<1>5. Len(SubSeq(t, f, e - 1)) = Len(s)
  BY <1>1, <1>4
<1>6. ASSUME NEW n \in 1 .. Len(s) PROVE SubSeq(t, f, e - 1)[n] = s[n]
  <2>1. n \in 1 .. e - 1 - f + 1 /\ f + n - 1 \in f .. e - 1 /\ f + n - 1 - f + 1 = n
    BY <1>1
  <2> QED BY <1>2, <1>4, <2>1
<1> QED BY <1>4, <1>5, <1>6, SeqEqual

(* A run of n spaces.                                                      *)
LEMMA SpacesText ==
  ASSUME NEW n \in Nat
  PROVE  Spaces(n) \in Seq(Cell) /\ Len(Spaces(n)) = n /\ \A j \in 1 .. n : Spaces(n)[j] = "sp"
<1>1. "sp" \in Cell
  BY DEF Cell
<1> QED BY <1>1 DEF Spaces

(* Every cell of a run of spaces is a space.                               *)
LEMMA SpansSpaces ==
  ASSUME NEW t, NEW f \in Nat, NEW e \in Nat, NEW n \in Nat, Spans(t, f, e, Spaces(n))
  PROVE  \A m \in f .. e - 1 : t[m] = "sp"
<1> TAKE m \in f .. e - 1
<1>1. m - f + 1 \in 1 .. n
  BY SpacesText DEF Spans
<1>2. t[m] = Spaces(n)[m - f + 1]
  BY DEF Spans
<1> QED BY <1>1, <1>2, SpacesText

(* The text of a line, part by part.                                       *)
LineIn(l, t) ==
  /\ Spans(t, 1, MethodAt(l), l.lead) /\ Spans(t, MethodAt(l), MethodEnd(l), l.method)
  /\ Spans(t, MethodEnd(l), UriAt(l), Spaces(l.gap)) /\ Spans(t, UriAt(l), UriEnd(l), l.uri)
  /\ Spans(t, UriEnd(l), ProtoAt(l), Spaces(l.gap2)) /\ Spans(t, EolAt(l), LineEnd(l), l.eol)
  /\ l.proto # <<>> =>
       /\ Spans(t, ProtoAt(l), MajorAt(l), l.proto) /\ Spans(t, MajorAt(l), DotAt(l), l.major)
       /\ Spans(t, DotAt(l), MinorAt(l), <<".">>) /\ Spans(t, MinorAt(l), MinorEnd(l), l.minor)
       /\ Spans(t, MinorEnd(l), EolAt(l), Spaces(l.trail))

(* ... and the parts that are cut out of it.                               *)
KeptIn(l, t) ==
  /\ Spans(t, ProtoAt(l), EolAt(l), ProtocolText(l))
  /\ Spans(t, MethodAt(l), EolAt(l), MethodAndUri(l) \o ProtocolText(l))

LEMMA LineTexts ==
  ASSUME NEW l, LineIsClear(l)
  PROVE  /\ {l.lead, l.method, l.uri, l.proto, l.major, l.minor, l.eol, Spaces(l.gap), Spaces(l.gap2), Spaces(l.trail)}
              \subseteq Seq(Cell)
         /\ Len(Spaces(l.gap)) = l.gap /\ Len(Spaces(l.gap2)) = l.gap2 /\ Len(Spaces(l.trail)) = l.trail
         /\ <<".">> \in Seq(Cell) /\ Len(<<".">>) = 1
<1>1. l.gap \in Nat /\ l.gap2 \in Nat /\ l.trail \in Nat
  BY DEF LineIsClear
<1>2. {l.lead, l.method, l.uri, l.proto, l.major, l.minor, l.eol} \subseteq Seq(Cell)
  BY DEF LineIsClear
<1>3. <<".">> \in Seq(Cell)
  BY DEF Cell
<1> QED BY <1>1, <1>2, <1>3, SpacesText

LEMMA MethodAndUriText ==
  ASSUME NEW l, LineIsClear(l)
  PROVE  /\ MethodAndUri(l) = l.method \o (Spaces(l.gap) \o (l.uri \o Spaces(l.gap2)))
         /\ Spaces(l.gap) \o (l.uri \o Spaces(l.gap2)) \in Seq(Cell) /\ l.uri \o Spaces(l.gap2) \in Seq(Cell)
         /\ MethodAndUri(l) \in Seq(Cell)
<1> DEFINE a == l.method
           b == Spaces(l.gap)
           c == l.uri
           d == Spaces(l.gap2)
<1>1. a \in Seq(Cell) /\ b \in Seq(Cell) /\ c \in Seq(Cell) /\ d \in Seq(Cell)
  BY LineTexts
<1>2. MethodAndUri(l) = a \o b \o c \o d
  BY DEF MethodAndUri
<1> HIDE DEF a, b, c, d
<1>3. a \o b \in Seq(Cell) /\ c \o d \in Seq(Cell)
  BY <1>1, ConcatProperties
<1>4. b \o (c \o d) \in Seq(Cell)
  BY <1>1, <1>3, ConcatProperties
<1>5. a \o (b \o (c \o d)) \in Seq(Cell)
  BY <1>1, <1>4, ConcatProperties
<1>6. a \o b \o c \o d = (a \o b) \o (c \o d)
  BY <1>1, <1>3, ConcatAssociative, SMTT(20)
<1>7. (a \o b) \o (c \o d) = a \o (b \o (c \o d))
  BY <1>1, <1>3, ConcatAssociative, SMTT(20)
<1> QED BY <1>2, <1>3, <1>4, <1>5, <1>6, <1>7 DEF a, b, c, d

(* How a text is put together does not matter.                             *)
LEMMA Associative ==
  ASSUME NEW a \in Seq(Cell), NEW b \in Seq(Cell), NEW c \in Seq(Cell)
  PROVE  a \o b \o c = a \o (b \o c)
BY ConcatAssociative

LEMMA ProtocolTexts ==
  ASSUME NEW l, LineIsClear(l)
  PROVE  /\ ProtocolText(l) \in Seq(Cell)
         /\ l.proto = <<>> => ProtocolText(l) = <<>>
         /\ l.proto # <<>> =>
              /\ ProtocolText(l) = l.proto \o (l.major \o (<<".">> \o (l.minor \o Spaces(l.trail))))
              /\ l.major \o (<<".">> \o (l.minor \o Spaces(l.trail))) \in Seq(Cell)
              /\ <<".">> \o (l.minor \o Spaces(l.trail)) \in Seq(Cell) /\ l.minor \o Spaces(l.trail) \in Seq(Cell)
<1>1. CASE l.proto = <<>>
  <2>1. ProtocolText(l) = <<>>
    BY <1>1 DEF ProtocolText
  <2> QED BY <1>1, <2>1
<1>2. CASE l.proto # <<>>
  <2> DEFINE a == l.proto
             b == l.major
             c == <<".">>
             d == l.minor
             e == Spaces(l.trail)
  <2>1. a \in Seq(Cell) /\ b \in Seq(Cell) /\ c \in Seq(Cell) /\ d \in Seq(Cell) /\ e \in Seq(Cell)
    BY LineTexts
  <2>2. ProtocolText(l) = a \o b \o c \o d \o e
    BY <1>2 DEF ProtocolText
  <2> HIDE DEF a, b, c, d, e
  <2>3. a \o b \in Seq(Cell) /\ d \o e \in Seq(Cell)
    BY <2>1, ConcatProperties
  <2>4. c \o (d \o e) \in Seq(Cell) /\ a \o b \o c \in Seq(Cell)
    BY <2>1, <2>3, ConcatProperties
  <2>5. b \o (c \o (d \o e)) \in Seq(Cell)
    BY <2>1, <2>4, ConcatProperties
  <2>6. a \o (b \o (c \o (d \o e))) \in Seq(Cell)
    BY <2>1, <2>5, ConcatProperties
  <2>7. a \o b \o c \o d \o e = (a \o b \o c) \o (d \o e)
    BY <2>1, <2>4, Associative, SMTT(20)
  <2>8. (a \o b \o c) \o (d \o e) = (a \o b) \o (c \o (d \o e))
    <3> PICK x : x = d \o e
      OBVIOUS
    <3> PICK y : y = a \o b
      OBVIOUS
    <3>1. y \in Seq(Cell) /\ c \in Seq(Cell) /\ x \in Seq(Cell)
      BY <2>1, <2>3
    <3>2. (y \o c) \o x = y \o (c \o x)
      BY <3>1, Associative
    <3> QED BY <3>2
  <2>9. (a \o b) \o (c \o (d \o e)) = a \o (b \o (c \o (d \o e)))
    BY <2>1, <2>4, Associative, ZenonT(30)
  <2>10. ProtocolText(l) = a \o (b \o (c \o (d \o e)))
    BY <2>2, <2>7, <2>8, <2>9
  <2> QED BY <1>2, <2>3, <2>4, <2>5, <2>6, <2>10 DEF a, b, c, d, e
<1> QED BY <1>1, <1>2

LEMMA LineTextIs ==
  ASSUME NEW l, LineIsClear(l)
  PROVE  /\ LineText(l) = l.lead \o ((MethodAndUri(l) \o ProtocolText(l)) \o l.eol)
         /\ MethodAndUri(l) \o ProtocolText(l) \in Seq(Cell)
         /\ (MethodAndUri(l) \o ProtocolText(l)) \o l.eol \in Seq(Cell) /\ LineText(l) \in Seq(Cell)
<1> DEFINE a == l.lead
           b == MethodAndUri(l)
           c == ProtocolText(l)
           d == l.eol
<1>1. a \in Seq(Cell) /\ b \in Seq(Cell) /\ c \in Seq(Cell) /\ d \in Seq(Cell)
  BY LineTexts, MethodAndUriText, ProtocolTexts
<1>2. LineText(l) = a \o (b \o c) \o d
  BY DEF LineText
<1> HIDE DEF a, b, c, d
<1>3. b \o c \in Seq(Cell)
  BY <1>1, ConcatProperties
<1>4. (b \o c) \o d \in Seq(Cell)
  BY <1>1, <1>3, ConcatProperties
<1>5. a \o ((b \o c) \o d) \in Seq(Cell)
  BY <1>1, <1>4, ConcatProperties
<1>6. a \o (b \o c) \o d = a \o ((b \o c) \o d)
  BY <1>1, <1>3, Associative, SMTT(20)
<1> QED BY <1>2, <1>3, <1>4, <1>5, <1>6 DEF a, b, c, d

(* The parts of a line that is in t from its start are at their places.    *)
LEMMA LineLayout ==
  ASSUME NEW l, LineIsClear(l), NEW t, NEW e, Spans(t, 1, e, LineText(l))
  PROVE  e = LineEnd(l) /\ LineIn(l, t) /\ KeptIn(l, t)
<1> PICK mu : mu = MethodAndUri(l)
  OBVIOUS
<1> PICK pt : pt = ProtocolText(l)
  OBVIOUS
<1> PICK m : m = MethodAt(l) + Len(mu \o pt)
  OBVIOUS
<1> PICK k : k = MethodAt(l) + Len(mu)
  OBVIOUS
<1>1. l.lead \in Seq(Cell) /\ (mu \o pt) \o l.eol \in Seq(Cell) /\ Spans(t, 1, e, l.lead \o ((mu \o pt) \o l.eol))
  BY LineTexts, LineTextIs
<1>2. mu \o pt \in Seq(Cell) /\ l.eol \in Seq(Cell) /\ mu \in Seq(Cell) /\ pt \in Seq(Cell)
  BY LineTexts, LineTextIs, MethodAndUriText, ProtocolTexts
<1>3. Spans(t, 1, MethodAt(l), l.lead) /\ MethodAt(l) \in Nat /\ Spans(t, MethodAt(l), e, (mu \o pt) \o l.eol)
  <2>1. /\ Spans(t, 1, 1 + Len(l.lead), l.lead) /\ 1 + Len(l.lead) \in Nat
        /\ Spans(t, 1 + Len(l.lead), e, (mu \o pt) \o l.eol)
    <3>1. 1 \in Nat
      OBVIOUS
    <3> QED BY <1>1, <3>1, Apart
  <2> QED BY <2>1 DEF MethodAt
<1>4. Spans(t, MethodAt(l), m, mu \o pt) /\ Spans(t, m, e, l.eol) /\ m \in Nat
  BY <1>2, <1>3, Apart
<1>5. Spans(t, MethodAt(l), k, mu) /\ Spans(t, k, m, pt) /\ k \in Nat
  BY <1>2, <1>3, <1>4, Apart
<1> PICK uri : uri = l.uri \o Spaces(l.gap2)
  OBVIOUS
<1> PICK gapuri : gapuri = Spaces(l.gap) \o uri
  OBVIOUS
<1>6. /\ l.method \in Seq(Cell) /\ gapuri \in Seq(Cell) /\ mu = l.method \o gapuri /\ Spaces(l.gap) \in Seq(Cell)
      /\ uri \in Seq(Cell) /\ l.uri \in Seq(Cell) /\ Spaces(l.gap2) \in Seq(Cell)
  BY LineTexts, MethodAndUriText
<1>7. Spans(t, MethodAt(l), MethodEnd(l), l.method) /\ MethodEnd(l) \in Nat /\ Spans(t, MethodEnd(l), k, gapuri)
  <2>1. Spans(t, MethodAt(l), k, l.method \o gapuri) /\ MethodAt(l) \in Nat
    BY <1>3, <1>5, <1>6
  <2>2. l.method \in Seq(Cell) /\ gapuri \in Seq(Cell)
    BY <1>6
  <2> QED BY <2>1, <2>2, Apart DEF MethodEnd
<1>8. Spans(t, MethodEnd(l), UriAt(l), Spaces(l.gap)) /\ UriAt(l) \in Nat /\ Spans(t, UriAt(l), k, uri)
  <2>1. UriAt(l) = MethodEnd(l) + Len(Spaces(l.gap))
    BY LineTexts DEF UriAt
  <2>2. Spans(t, MethodEnd(l), k, Spaces(l.gap) \o uri) /\ MethodEnd(l) \in Nat
    BY <1>7
  <2>3. Spaces(l.gap) \in Seq(Cell) /\ uri \in Seq(Cell)
    BY <1>6
  <2>4. /\ Spans(t, MethodEnd(l), MethodEnd(l) + Len(Spaces(l.gap)), Spaces(l.gap))
        /\ MethodEnd(l) + Len(Spaces(l.gap)) \in Nat
        /\ Spans(t, MethodEnd(l) + Len(Spaces(l.gap)), k, uri)
    BY <2>2, <2>3, Apart
  <2> QED BY <2>1, <2>4
<1>9. Spans(t, UriAt(l), UriEnd(l), l.uri) /\ UriEnd(l) \in Nat /\ Spans(t, UriEnd(l), k, Spaces(l.gap2))
  BY <1>6, <1>8, Apart DEF UriEnd
<1>10. k = ProtoAt(l)
  BY <1>9, LineTexts DEF Spans, ProtoAt
<1>11. KeptIn(l, t) <=> Spans(t, k, EolAt(l), pt) /\ Spans(t, MethodAt(l), EolAt(l), mu \o pt)
  BY <1>10 DEF KeptIn
<1>12. CASE l.proto = <<>>
  <2>1. Len(pt) = 0
    BY <1>12 DEF ProtocolText
  <2>2. m = EolAt(l)
    BY <1>5, <1>10, <1>12, <2>1 DEF Spans, EolAt
  <2>3. e = LineEnd(l)
    BY <1>4, <2>2 DEF Spans, LineEnd
  <2> QED BY <1>3, <1>4, <1>5, <1>7, <1>8, <1>9, <1>10, <1>11, <1>12, <2>2, <2>3 DEF LineIn
<1>13. CASE l.proto # <<>>
  <2> PICK minor : minor = l.minor \o Spaces(l.trail)
    OBVIOUS
  <2> PICK dot : dot = <<".">>
    OBVIOUS
  <2> PICK dotminor : dotminor = dot \o minor
    OBVIOUS
  <2> PICK numbers : numbers = l.major \o dotminor
    OBVIOUS
  <2>1. /\ pt = l.proto \o numbers /\ l.proto \in Seq(Cell) /\ numbers \in Seq(Cell)
        /\ l.major \in Seq(Cell) /\ dotminor \in Seq(Cell)
        /\ dot \in Seq(Cell) /\ minor \in Seq(Cell) /\ l.minor \in Seq(Cell) /\ Spaces(l.trail) \in Seq(Cell)
    BY <1>13, LineTexts, ProtocolTexts
  <2>2. Spans(t, k, MajorAt(l), l.proto) /\ MajorAt(l) \in Nat /\ Spans(t, MajorAt(l), m, numbers)
    <3>1. Spans(t, k, m, l.proto \o numbers) /\ l.proto \in Seq(Cell) /\ numbers \in Seq(Cell)
      BY <1>5, <2>1
    <3>2. k \in Nat
      BY <1>5
    <3>3. Spans(t, k, k + Len(l.proto), l.proto) /\ k + Len(l.proto) \in Nat /\ Spans(t, k + Len(l.proto), m, numbers)
      BY <3>1, <3>2, Apart
    <3>4. MajorAt(l) = k + Len(l.proto)
      BY <1>10 DEF MajorAt
    <3> QED BY <3>3, <3>4
  <2>3. Spans(t, MajorAt(l), DotAt(l), l.major) /\ DotAt(l) \in Nat /\ Spans(t, DotAt(l), m, dotminor)
    BY <2>1, <2>2, Apart DEF DotAt
  <2>4. Spans(t, DotAt(l), MinorAt(l), dot) /\ MinorAt(l) \in Nat /\ Spans(t, MinorAt(l), m, minor)
    <3>1. MinorAt(l) = DotAt(l) + Len(dot)
      BY LineTexts DEF MinorAt
    <3>2. Spans(t, DotAt(l), m, dot \o minor) /\ DotAt(l) \in Nat
      BY <2>3
    <3>3. dot \in Seq(Cell) /\ minor \in Seq(Cell)
      BY <2>1
    <3>4. /\ Spans(t, DotAt(l), DotAt(l) + Len(dot), dot) /\ DotAt(l) + Len(dot) \in Nat
          /\ Spans(t, DotAt(l) + Len(dot), m, minor)
      BY <3>2, <3>3, Apart
    <3> QED BY <3>1, <3>4
  <2>5. Spans(t, MinorAt(l), MinorEnd(l), l.minor) /\ MinorEnd(l) \in Nat /\ Spans(t, MinorEnd(l), m, Spaces(l.trail))
    BY <2>1, <2>4, Apart DEF MinorEnd
  <2>6. m = EolAt(l)
    BY <1>13, <2>5, LineTexts DEF Spans, EolAt
  <2>7. e = LineEnd(l)
    BY <1>4, <2>6 DEF Spans, LineEnd
  <2>8. KeptIn(l, t)
    BY <1>4, <1>5, <1>11, <2>6
  <2> QED BY <1>3, <1>4, <1>7, <1>8, <1>9, <1>10, <1>13, <2>2, <2>3, <2>4, <2>5, <2>6, <2>7, <2>8 DEF LineIn
<1> QED BY <1>12, <1>13

-------------------------------------------------------------------------------
(* The text of a header line from s on, part by part.                      *)
HeaderIn(h, t, s) ==
  /\ Spans(t, s, NameEnd(h, s), h.name) /\ Spans(t, HeaderEol(h, s), HeaderEnd(h, s), h.eol)
  /\ Spans(t, ValueAt(h, s), ValueEnd(h, s), h.value)
  /\ h.colon =>
       /\ Spans(t, NameEnd(h, s), AfterColon(h, s), <<":">>) /\ Spans(t, AfterColon(h, s), ValueAt(h, s), Spaces(h.gap))
       /\ Spans(t, ValueEnd(h, s), HeaderEol(h, s), Spaces(h.trail))

LEMMA ValueTexts ==
  ASSUME NEW h, HeaderIsClear(h)
  PROVE  /\ {h.name, h.value, h.eol, Spaces(h.gap), Spaces(h.trail), <<":">>, ValueText(h)} \subseteq Seq(Cell)
         /\ Len(<<":">>) = 1 /\ Len(Spaces(h.gap)) = h.gap /\ Len(Spaces(h.trail)) = h.trail
         /\ ~h.colon => h.value = <<>> /\ ValueText(h) = <<>>
         /\ h.colon =>
              /\ ValueText(h) = <<":">> \o (Spaces(h.gap) \o (h.value \o Spaces(h.trail)))
              /\ Spaces(h.gap) \o (h.value \o Spaces(h.trail)) \in Seq(Cell) /\ h.value \o Spaces(h.trail) \in Seq(Cell)
<1> DEFINE a == <<":">>
           b == Spaces(h.gap)
           c == h.value
           d == Spaces(h.trail)
<1>1. h.name \in Seq(Cell) /\ h.eol \in Seq(Cell) /\ c \in Seq(Cell) /\ h.gap \in Nat /\ h.trail \in Nat
  BY DEF HeaderIsClear
<1>2. a \in Seq(Cell) /\ Len(a) = 1
  BY DEF Cell
<1>3. b \in Seq(Cell) /\ d \in Seq(Cell) /\ Len(b) = h.gap /\ Len(d) = h.trail
  BY <1>1, SpacesText
<1> HIDE DEF a, b, c, d
<1>4. CASE ~h.colon
  <2>1. c = <<>> /\ ValueText(h) = <<>>
    BY <1>4 DEF HeaderIsClear, ValueText, c
  <2>2. ValueText(h) \in Seq(Cell)
    BY <2>1
  <2> QED BY <1>1, <1>2, <1>3, <1>4, <2>1, <2>2 DEF a, b, c, d
<1>5. CASE h.colon
  <2>1. ValueText(h) = a \o b \o c \o d
    BY <1>5 DEF ValueText, a, b, c, d
  <2>2. c \o d \in Seq(Cell) /\ a \o b \in Seq(Cell)
    BY <1>1, <1>2, <1>3, ConcatProperties
  <2>3. b \o (c \o d) \in Seq(Cell)
    BY <1>3, <2>2, ConcatProperties
  <2>4. a \o (b \o (c \o d)) \in Seq(Cell)
    BY <1>2, <2>3, ConcatProperties
  <2>5. a \o b \o c \o d = (a \o b) \o (c \o d)
    <3>1. a \o b \in Seq(Cell) /\ c \in Seq(Cell) /\ d \in Seq(Cell)
      BY <1>1, <1>3, <2>2
    <3> PICK ab : ab = a \o b
      OBVIOUS
    <3>2. ab \o c \o d = ab \o (c \o d)
      BY <3>1, Associative
    <3> QED BY <3>2
  <2>6. (a \o b) \o (c \o d) = a \o (b \o (c \o d))
    BY <1>2, <1>3, <2>2, Associative
  <2>7. ValueText(h) = a \o (b \o (c \o d))
    BY <2>1, <2>5, <2>6
  <2>8. ValueText(h) \in Seq(Cell)
    BY <2>4, <2>7
  <2> QED BY <1>1, <1>2, <1>3, <1>5, <2>2, <2>3, <2>7, <2>8 DEF a, b, c, d
<1> QED BY <1>4, <1>5

LEMMA HeaderTextIs ==
  ASSUME NEW h, HeaderIsClear(h)
  PROVE  /\ HeaderText(h) = h.name \o (ValueText(h) \o h.eol)
         /\ ValueText(h) \o h.eol \in Seq(Cell) /\ HeaderText(h) \in Seq(Cell)
<1> PICK a : a = h.name
  OBVIOUS
<1> PICK b : b = ValueText(h)
  OBVIOUS
<1> PICK c : c = h.eol
  OBVIOUS
<1>1. a \in Seq(Cell) /\ b \in Seq(Cell) /\ c \in Seq(Cell)
  BY ValueTexts
<1>2. HeaderText(h) = a \o b \o c
  BY DEF HeaderText
<1>3. b \o c \in Seq(Cell)
  BY <1>1, ConcatProperties
<1>4. a \o (b \o c) \in Seq(Cell)
  BY <1>1, <1>3, ConcatProperties
<1>5. a \o b \o c = a \o (b \o c)
  BY <1>1, Associative, ZenonT(30)
<1> QED BY <1>2, <1>3, <1>4, <1>5

(* The parts of a header line that is in t from s on are at their places.  *)
LEMMA HeaderLayout ==
  ASSUME NEW h, HeaderIsClear(h), NEW t, NEW s \in Nat, NEW e, Spans(t, s, e, HeaderText(h))
  PROVE  e = HeaderEnd(h, s) /\ HeaderIn(h, t, s)
<1> PICK n : n = h.name
  OBVIOUS
<1> PICK v : v = ValueText(h)
  OBVIOUS
<1> PICK m : m = NameEnd(h, s) + Len(v)
  OBVIOUS
<1>1. n \in Seq(Cell) /\ v \in Seq(Cell) /\ h.eol \in Seq(Cell) /\ v \o h.eol \in Seq(Cell)
  BY ValueTexts, HeaderTextIs
<1>2. Spans(t, s, e, n \o (v \o h.eol))
  BY HeaderTextIs
<1>3. Spans(t, s, s + Len(n), n) /\ s + Len(n) \in Nat /\ Spans(t, s + Len(n), e, v \o h.eol)
  BY <1>1, <1>2, Apart
<1>4. Spans(t, s, NameEnd(h, s), n) /\ NameEnd(h, s) \in Nat /\ Spans(t, NameEnd(h, s), e, v \o h.eol)
  BY <1>3 DEF NameEnd
<1>5. Spans(t, NameEnd(h, s), m, v) /\ m \in Nat /\ Spans(t, m, e, h.eol)
  BY <1>1, <1>4, Apart
<1>6. CASE ~h.colon
  <2>1. v = <<>> /\ h.value = <<>> /\ Len(v) = 0
    <3>1. v = <<>> /\ h.value = <<>>
      BY <1>6, ValueTexts
    <3> QED BY <3>1
  <2>2. m = NameEnd(h, s) /\ ValueAt(h, s) = NameEnd(h, s) /\ ValueEnd(h, s) = NameEnd(h, s) /\ HeaderEol(h, s) = m
    BY <1>4, <1>6, <2>1 DEF ValueAt, ValueEnd, HeaderEol
  <2>3. Spans(t, m, e, h.eol) /\ e = HeaderEnd(h, s)
    BY <1>5, <2>2 DEF Spans, HeaderEnd
  <2>4. Spans(t, ValueAt(h, s), ValueEnd(h, s), h.value)
    BY <1>5, <2>1, <2>2
  <2> QED BY <1>4, <1>6, <2>2, <2>3, <2>4 DEF HeaderIn
<1>7. CASE h.colon
  <2> PICK c : c = <<":">>
    OBVIOUS
  <2> PICK g : g = Spaces(h.gap)
    OBVIOUS
  <2> PICK w : w = h.value
    OBVIOUS
  <2> PICK x : x = Spaces(h.trail)
    OBVIOUS
  <2> PICK wx : wx = w \o x
    OBVIOUS
  <2> PICK gwx : gwx = g \o wx
    OBVIOUS
  <2>1. /\ c \in Seq(Cell) /\ g \in Seq(Cell) /\ w \in Seq(Cell) /\ x \in Seq(Cell) /\ wx \in Seq(Cell) /\ gwx \in Seq(Cell)
        /\ v = c \o gwx /\ Len(c) = 1 /\ Len(g) = h.gap /\ Len(x) = h.trail
    BY <1>7, ValueTexts
  <2>2. Spans(t, NameEnd(h, s), AfterColon(h, s), c) /\ AfterColon(h, s) \in Nat /\ Spans(t, AfterColon(h, s), m, gwx)
    <3>1. Spans(t, NameEnd(h, s), m, c \o gwx)
      BY <1>5, <2>1
    <3>2. /\ Spans(t, NameEnd(h, s), NameEnd(h, s) + Len(c), c) /\ NameEnd(h, s) + Len(c) \in Nat
          /\ Spans(t, NameEnd(h, s) + Len(c), m, gwx)
      BY <1>4, <2>1, <3>1, Apart
    <3> QED BY <2>1, <3>2 DEF AfterColon
  <2>3. Spans(t, AfterColon(h, s), ValueAt(h, s), g) /\ ValueAt(h, s) \in Nat /\ Spans(t, ValueAt(h, s), m, wx)
    <3>1. /\ Spans(t, AfterColon(h, s), AfterColon(h, s) + Len(g), g) /\ AfterColon(h, s) + Len(g) \in Nat
          /\ Spans(t, AfterColon(h, s) + Len(g), m, wx)
      BY <2>1, <2>2, Apart
    <3> QED BY <1>7, <2>1, <3>1 DEF ValueAt
  <2>4. Spans(t, ValueAt(h, s), ValueEnd(h, s), w) /\ ValueEnd(h, s) \in Nat /\ Spans(t, ValueEnd(h, s), m, x)
    <3>1. /\ Spans(t, ValueAt(h, s), ValueAt(h, s) + Len(w), w) /\ ValueAt(h, s) + Len(w) \in Nat
          /\ Spans(t, ValueAt(h, s) + Len(w), m, x)
      BY <2>1, <2>3, Apart
    <3> QED BY <3>1 DEF ValueEnd
  <2>5. m = HeaderEol(h, s)
    BY <1>7, <2>1, <2>4 DEF Spans, HeaderEol
  <2>6. e = HeaderEnd(h, s)
    BY <1>5, <2>5 DEF Spans, HeaderEnd
  <2> QED BY <1>4, <1>5, <2>2, <2>3, <2>4, <2>5, <2>6 DEF HeaderIn
<1> QED BY <1>6, <1>7

(* A place plus a length is a place, and not before it.                    *)
LEMMA AtLeast ==
  ASSUME NEW a \in Nat, NEW b \in Nat
  PROVE  a + b \in Nat /\ a <= a + b
OBVIOUS

(* The text of the first k headers and the text of the next one.           *)
LEMMA TextLayout ==
  ASSUME NEW q, IsClear(q)
  PROVE  /\ LineIn(q.line, Text(q)) /\ KeptIn(q.line, Text(q)) /\ LineEnd(q.line) \in Nat
         /\ \A k \in 0 .. Len(q.lines) : From(q, k) \in Nat /\ LineEnd(q.line) <= From(q, k)
         /\ From(q, 0) = LineEnd(q.line)
         /\ \A k \in 0 .. Len(q.lines) - 1 :
              HeaderIn(q.lines[k + 1], Text(q), From(q, k)) /\ From(q, k + 1) = HeaderEnd(q.lines[k + 1], From(q, k))
         /\ Spans(Text(q), From(q, Len(q.lines)), 1 + Len(Text(q)), q.end)
         /\ Text(q) \in Seq(Cell)
<1> PICK n : n = Len(q.lines)
  OBVIOUS
<1> PICK lines : lines = q.lines
  OBVIOUS
<1> PICK line : line = LineText(q.line)
  OBVIOUS
<1> PICK all : all = HeadersText(lines)
  OBVIOUS
<1>1. LineIsClear(q.line) /\ n \in Nat /\ q.end \in Seq(Cell) /\ \A j \in 1 .. n : HeaderIsClear(lines[j])
  BY DEF IsClear
<1>2. line \in Seq(Cell) /\ \A j \in 1 .. n : HeaderText(lines[j]) \in Seq(Cell)
  BY <1>1, LineTextIs, HeaderTextIs
<1>3. /\ all[0] = <<>> /\ \A k \in 0 .. n : all[k] \in Seq(Cell)
      /\ \A k \in 1 .. n : all[k] = all[k - 1] \o HeaderText(lines[k])
  BY <1>1, <1>2, TextOfHeaders
<1> PICK t : t = Text(q)
  OBVIOUS
<1>4. t = line \o (all[n] \o q.end) /\ all[n] \o q.end \in Seq(Cell) /\ all[n] \in Seq(Cell) /\ t \in Seq(Cell)
  <2>1. t = line \o all[n] \o q.end
    BY DEF Text
  <2>2. all[n] \in Seq(Cell)
    BY <1>1, <1>3
  <2>3. all[n] \o q.end \in Seq(Cell)
    BY <1>1, <2>2, ConcatProperties
  <2>4. line \o (all[n] \o q.end) \in Seq(Cell)
    BY <1>2, <2>3, ConcatProperties
  <2>5. line \o all[n] \o q.end = line \o (all[n] \o q.end)
    <3>1. line \in Seq(Cell) /\ all[n] \in Seq(Cell) /\ q.end \in Seq(Cell)
      BY <1>1, <1>2, <2>2
    <3> QED BY ONLY <3>1, Associative
  <2> QED BY <2>1, <2>2, <2>3, <2>4, <2>5
<1>0. Len(t) \in Nat
  BY <1>4, LenProperties
<1> PICK e \in Nat : e = 1 + Len(t)
  BY <1>0
<1>5. Spans(t, 1, e, t)
  <2>1. e = 1 + Len(t) /\ \A j \in 1 .. e - 1 : j - 1 + 1 = j
    BY <1>0
  <2> QED BY <2>1 DEF Spans
<1>6. /\ Spans(t, 1, 1 + Len(line), line) /\ 1 + Len(line) \in Nat
      /\ Spans(t, 1 + Len(line), e, all[n] \o q.end)
  <2>1. Spans(t, 1, e, line \o (all[n] \o q.end)) /\ 1 \in Nat
    BY <1>4, <1>5
  <2> QED BY <1>2, <1>4, <2>1, Apart
<1> PICK f \in Nat : f = 1 + Len(line)
  BY <1>6
<1>7. f = LineEnd(q.line) /\ LineIn(q.line, t) /\ KeptIn(q.line, t)
  BY <1>1, <1>6, LineLayout
<1>8. Spans(t, f, f + Len(all[n]), all[n]) /\ Spans(t, f + Len(all[n]), e, q.end)
  BY <1>1, <1>4, <1>6, Apart
<1>9. \A k \in 0 .. n : From(q, k) = f + Len(all[k])
  BY <1>7 DEF From
<1>10. From(q, 0) = f /\ \A k \in 0 .. n : From(q, k) \in Nat /\ f <= From(q, k)
  <2>1. \A k \in 0 .. n : Len(all[k]) \in Nat
    BY <1>3, LenProperties
  <2>2. Len(all[0]) = 0 /\ 0 \in 0 .. n
    BY <1>1, <1>3
  <2>3. f + Len(all[0]) = f
    BY <2>2
  <2>4. \A k \in 0 .. n : f + Len(all[k]) \in Nat /\ f <= f + Len(all[k])
    <3> TAKE k \in 0 .. n
    <3>1. Len(all[k]) \in Nat
      BY <2>1
    <3> QED BY <3>1, AtLeast
  <2> QED BY <1>9, <2>2, <2>3, <2>4
<1> DEFINE Reached == {k \in 0 .. n : Spans(t, f, From(q, k), all[k])}
           Down == {j \in 0 .. n : n - j \in Reached}
<1>11. ASSUME NEW k \in 1 .. n, k \in Reached
       PROVE  k - 1 \in Reached /\ Spans(t, From(q, k - 1), From(q, k), HeaderText(lines[k]))
  <2> PICK j \in 0 .. n : j = k - 1
    BY <1>1
  <2> PICK a : a = all[j]
    OBVIOUS
  <2> PICK b : b = HeaderText(lines[k])
    OBVIOUS
  <2>1. a \in Seq(Cell) /\ b \in Seq(Cell) /\ all[k] = a \o b
    BY <1>2, <1>3
  <2>2. Spans(t, f, From(q, k), a \o b)
    BY <1>11, <2>1
  <2>3. Spans(t, f, f + Len(a), a) /\ Spans(t, f + Len(a), From(q, k), b)
    BY <2>1, <2>2, Apart
  <2> QED BY <1>9, <2>3
<1>12. 0 \in Down
  <2>1. n \in 0 .. n /\ n - 0 = n /\ 0 \in 0 .. n
    BY <1>1
  <2> QED BY <1>8, <1>9, <2>1
<1>13. ASSUME NEW j \in 0 .. n - 1, j \in Down PROVE j + 1 \in Down
  <2>1. n - j \in 1 .. n /\ n - (j + 1) = n - j - 1 /\ j + 1 \in 0 .. n
    BY <1>1
  <2> HIDE DEF Reached
  <2>2. n - j - 1 \in Reached
    BY <1>11, <1>13, <2>1
  <2> QED BY <2>1, <2>2
<1>14. \A k \in 0 .. n : k \in Reached
  <2> HIDE DEF Down
  <2>1. \A j \in 0 .. n : j \in Down
    BY <1>1, <1>12, <1>13, Steps
  <2> HIDE DEF Reached
  <2> TAKE k \in 0 .. n
  <2>2. n - k \in 0 .. n /\ n - (n - k) = k
    BY <1>1
  <2> QED BY <2>1, <2>2 DEF Down
<1>15. ASSUME NEW k \in 0 .. n - 1
       PROVE  HeaderIn(lines[k + 1], t, From(q, k)) /\ From(q, k + 1) = HeaderEnd(lines[k + 1], From(q, k))
  <2> PICK j \in 1 .. n : j = k + 1 /\ j - 1 = k
    BY <1>1
  <2>1. Spans(t, From(q, k), From(q, j), HeaderText(lines[j])) /\ HeaderIsClear(lines[j]) /\ From(q, k) \in Nat
    <3> HIDE DEF Reached
    <3> QED BY <1>1, <1>10, <1>11, <1>14
  <2> QED BY <2>1, HeaderLayout
<1>16. Spans(t, From(q, n), 1 + Len(t), q.end)
  <2>1. n \in 0 .. n
    BY <1>1
  <2> QED BY <1>8, <1>9, <2>1
<1> HIDE DEF Reached, Down
<1> QED BY <1>4, <1>7, <1>10, <1>15, <1>16

-------------------------------------------------------------------------------
(* The places in a line are in order, and which cells are there.           *)

LEMMA LineOffsets ==
  ASSUME NEW l, LineIsClear(l)
  PROVE  /\ MethodAt(l) \in Nat \ {0} /\ MethodEnd(l) \in Nat /\ UriAt(l) \in Nat /\ UriEnd(l) \in Nat /\ ProtoAt(l) \in Nat
         /\ MethodAt(l) < MethodEnd(l) /\ MethodEnd(l) <= UriAt(l) /\ UriAt(l) < UriEnd(l) /\ UriEnd(l) <= ProtoAt(l)
         /\ EolAt(l) \in Nat /\ LineEnd(l) \in Nat /\ EolAt(l) < LineEnd(l) /\ ProtoAt(l) <= EolAt(l)
         /\ LineEnd(l) = EolAt(l) + Len(l.eol)
         /\ l.proto = <<>> => EolAt(l) = ProtoAt(l)
         /\ l.proto # <<>> =>
              /\ MajorAt(l) \in Nat /\ DotAt(l) \in Nat /\ MinorAt(l) \in Nat /\ MinorEnd(l) \in Nat
              /\ UriEnd(l) < ProtoAt(l) /\ MajorAt(l) = ProtoAt(l) + 5 /\ DotAt(l) = MajorAt(l) + Len(l.major)
              /\ MinorAt(l) = DotAt(l) + 1 /\ MajorAt(l) <= DotAt(l) /\ MinorAt(l) <= MinorEnd(l) /\ MinorEnd(l) <= EolAt(l)
<1>1. /\ l.lead \in Seq(Cell) /\ l.method \in Seq(Cell) /\ l.uri \in Seq(Cell) /\ l.proto \in Seq(Cell)
      /\ l.major \in Seq(Cell) /\ l.minor \in Seq(Cell) /\ l.eol \in Seq(Cell)
  BY LineTexts
<1>2. l.gap \in Nat /\ l.gap2 \in Nat /\ l.trail \in Nat /\ l.method # <<>> /\ l.uri # <<>> /\ l.eol # <<>>
  <2>1. Ended(l.eol) => l.eol # <<>>
    BY DEF Ended
  <2>2. Ended(l.eol) \/ l.eol # <<>>
    BY DEF LineIsClear
  <2>3. l.gap \in Nat /\ l.gap2 \in Nat /\ l.trail \in Nat /\ l.method # <<>> /\ l.uri # <<>>
    BY DEF LineIsClear
  <2> QED BY <2>1, <2>2, <2>3
<1>3. \A s \in Seq(Cell) : Len(s) \in Nat /\ (s # <<>> => Len(s) > 0)
  BY EmptySeq, LenProperties
<1>4. Len(l.method) > 0 /\ Len(l.uri) > 0 /\ Len(l.eol) > 0
  BY <1>1, <1>2, <1>3
<1>5. MethodAt(l) \in Nat \ {0}
  <2>1. Len(l.lead) \in Nat
    BY <1>1, <1>3
  <2> QED BY <2>1 DEF MethodAt
<1>6. MethodEnd(l) \in Nat /\ MethodAt(l) < MethodEnd(l)
  <2>1. Len(l.method) \in Nat
    BY <1>1, <1>3
  <2> QED BY <1>4, <1>5, <2>1 DEF MethodEnd
<1>7. UriAt(l) \in Nat /\ MethodEnd(l) <= UriAt(l)
  BY <1>2, <1>6 DEF UriAt
<1>8. UriEnd(l) \in Nat /\ UriAt(l) < UriEnd(l)
  <2>1. Len(l.uri) \in Nat
    BY <1>1, <1>3
  <2> QED BY <1>4, <1>7, <2>1 DEF UriEnd
<1>9. ProtoAt(l) \in Nat /\ UriEnd(l) <= ProtoAt(l) /\ (l.gap2 > 0 => UriEnd(l) < ProtoAt(l))
  BY <1>2, <1>8 DEF ProtoAt
<1>10. LineEnd(l) = EolAt(l) + Len(l.eol) /\ (EolAt(l) \in Nat => LineEnd(l) \in Nat /\ EolAt(l) < LineEnd(l))
  <2>1. Len(l.eol) \in Nat
    BY <1>1, <1>3
  <2> QED BY <1>4, <2>1 DEF LineEnd
<1>11. CASE l.proto = <<>>
  <2>1. EolAt(l) = ProtoAt(l)
    BY <1>11 DEF EolAt
  <2> QED BY <1>5, <1>6, <1>7, <1>8, <1>9, <1>10, <1>11, <2>1
<1>12. CASE l.proto # <<>>
  <2>1. Len(l.proto) = 5 /\ l.gap2 > 0
    BY <1>12 DEF LineIsClear
  <2>2. MajorAt(l) = ProtoAt(l) + 5 /\ MajorAt(l) \in Nat
    BY <1>9, <2>1 DEF MajorAt
  <2>3. DotAt(l) = MajorAt(l) + Len(l.major) /\ DotAt(l) \in Nat /\ MajorAt(l) <= DotAt(l)
    <3>1. Len(l.major) \in Nat
      BY <1>1, <1>3
    <3> QED BY <2>2, <3>1 DEF DotAt
  <2>4. MinorAt(l) = DotAt(l) + 1 /\ MinorAt(l) \in Nat
    BY <2>3 DEF MinorAt
  <2>5. MinorEnd(l) \in Nat /\ MinorAt(l) <= MinorEnd(l)
    <3>1. Len(l.minor) \in Nat
      BY <1>1, <1>3
    <3> QED BY <2>4, <3>1 DEF MinorEnd
  <2>6. EolAt(l) = MinorEnd(l) + l.trail
    BY <1>12 DEF EolAt
  <2>7. EolAt(l) \in Nat /\ MinorEnd(l) <= EolAt(l)
    BY <1>2, <2>5, <2>6
  <2>8. ProtoAt(l) <= EolAt(l)
    BY <1>9, <2>2, <2>3, <2>4, <2>5, <2>7
  <2> QED BY <1>5, <1>6, <1>7, <1>8, <1>9, <1>10, <1>12, <2>1, <2>2, <2>3, <2>4, <2>5, <2>7, <2>8
<1> QED BY <1>11, <1>12

LEMMA LineCells ==
  ASSUME NEW l, LineIsClear(l), NEW t, LineIn(l, t)
  PROVE  /\ \A n \in 1 .. MethodAt(l) - 1 : t[n] \in {"cr", "lf"}
         /\ t[MethodAt(l)] = l.method[1] /\ t[MethodAt(l)] \notin {"cr", "lf"}
         /\ \A n \in MethodEnd(l) .. UriAt(l) - 1 : t[n] = "sp"
         /\ \A n \in UriAt(l) .. UriEnd(l) - 1 : /\ n - UriAt(l) + 1 \in 1 .. Len(l.uri) /\ t[n] = l.uri[n - UriAt(l) + 1]
                                                 /\ t[n] \notin {"sp", "cr", "lf"}
         /\ UriEnd(l) = UriAt(l) + Len(l.uri)
         /\ \A n \in UriEnd(l) .. ProtoAt(l) - 1 : t[n] = "sp"
         /\ t[EolAt(l)] = l.eol[1] /\ (Len(l.eol) = 2 => t[EolAt(l) + 1] = l.eol[2])
<1>1. /\ MethodAt(l) \in Nat \ {0} /\ MethodEnd(l) \in Nat /\ MethodAt(l) < MethodEnd(l)
      /\ UriAt(l) \in Nat /\ UriEnd(l) \in Nat /\ EolAt(l) \in Nat /\ LineEnd(l) \in Nat /\ EolAt(l) < LineEnd(l)
      /\ LineEnd(l) = EolAt(l) + Len(l.eol) /\ ProtoAt(l) \in Nat
  BY LineOffsets
<1>2. ASSUME NEW n \in 1 .. MethodAt(l) - 1 PROVE t[n] \in {"cr", "lf"}
  <2>1. Spans(t, 1, MethodAt(l), l.lead) /\ \A j \in 1 .. Len(l.lead) : l.lead[j] \in {"cr", "lf"}
    BY DEF LineIn, LineIsClear
  <2>2. t[n] = l.lead[n - 1 + 1]
    BY <1>1, <2>1 DEF Spans
  <2>3. n - 1 + 1 \in 1 .. Len(l.lead)
    <3>1. Len(l.lead) \in Nat /\ MethodAt(l) = 1 + Len(l.lead)
      BY LineTexts, LenProperties DEF MethodAt
    <3> QED BY <3>1
  <2> QED BY <2>1, <2>2, <2>3
<1>3. t[MethodAt(l)] = l.method[1] /\ t[MethodAt(l)] \notin {"cr", "lf"}
  <2>1. Spans(t, MethodAt(l), MethodEnd(l), l.method) /\ l.method[1] \notin {"cr", "lf"}
    BY DEF LineIn, LineIsClear
  <2>2. MethodAt(l) \in MethodAt(l) .. MethodEnd(l) - 1 /\ MethodAt(l) - MethodAt(l) + 1 = 1
    BY <1>1
  <2> QED BY <2>1, <2>2 DEF Spans
<1>4. \A n \in MethodEnd(l) .. UriAt(l) - 1 : t[n] = "sp"
  <2>1. Spans(t, MethodEnd(l), UriAt(l), Spaces(l.gap)) /\ l.gap \in Nat
    BY DEF LineIn, LineIsClear
  <2> QED BY <1>1, <2>1, SpansSpaces
<1>5. UriEnd(l) = UriAt(l) + Len(l.uri)
  BY DEF UriEnd
<1>6. ASSUME NEW n \in UriAt(l) .. UriEnd(l) - 1
      PROVE  /\ n - UriAt(l) + 1 \in 1 .. Len(l.uri) /\ t[n] = l.uri[n - UriAt(l) + 1]
             /\ t[n] \notin {"sp", "cr", "lf"}
  <2>1. Spans(t, UriAt(l), UriEnd(l), l.uri) /\ \A j \in 1 .. Len(l.uri) : l.uri[j] \notin {"sp", "cr", "lf"}
    BY DEF LineIn, LineIsClear, Without
  <2>2. n - UriAt(l) + 1 \in 1 .. Len(l.uri)
    <3>1. Len(l.uri) \in Nat
      BY LineTexts, LenProperties
    <3> QED BY <1>1, <1>5, <3>1, SMTT(20)
  <2>3. t[n] = l.uri[n - UriAt(l) + 1]
    BY <1>1, <2>1 DEF Spans
  <2> QED BY <2>1, <2>2, <2>3
<1>7. \A n \in UriEnd(l) .. ProtoAt(l) - 1 : t[n] = "sp"
  <2>1. Spans(t, UriEnd(l), ProtoAt(l), Spaces(l.gap2)) /\ l.gap2 \in Nat
    BY DEF LineIn, LineIsClear
  <2> QED BY <1>1, <2>1, SpansSpaces
<1>8. t[EolAt(l)] = l.eol[1] /\ (Len(l.eol) = 2 => t[EolAt(l) + 1] = l.eol[2])
  <2>1. Spans(t, EolAt(l), LineEnd(l), l.eol)
    BY DEF LineIn
  <2>2. EolAt(l) \in EolAt(l) .. LineEnd(l) - 1 /\ EolAt(l) - EolAt(l) + 1 = 1
    BY <1>1
  <2>3. Len(l.eol) = 2 => EolAt(l) + 1 \in EolAt(l) .. LineEnd(l) - 1 /\ (EolAt(l) + 1) - EolAt(l) + 1 = 2
    BY <1>1
  <2> QED BY <2>1, <2>2, <2>3 DEF Spans
<1> QED BY <1>2, <1>3, <1>4, <1>5, <1>6, <1>7, <1>8

LEMMA ProtocolCells ==
  ASSUME NEW l, LineIsClear(l), NEW t, LineIn(l, t), l.proto # <<>>
  PROVE  /\ \A j \in 1 .. 5 : t[ProtoAt(l) + j - 1] = l.proto[j]
         /\ \A n \in MajorAt(l) .. DotAt(l) - 1 : t[n] = l.major[n - MajorAt(l) + 1] /\ t[n] # "."
         /\ t[DotAt(l)] = "."
         /\ \A n \in MinorAt(l) .. MinorEnd(l) - 1 :
              n - MinorAt(l) + 1 \in 1 .. Len(l.minor) /\ t[n] = l.minor[n - MinorAt(l) + 1] /\ t[n] \notin {"sp", "cr", "lf"}
         /\ MinorEnd(l) = MinorAt(l) + Len(l.minor)
         /\ \A n \in MinorEnd(l) .. EolAt(l) - 1 : t[n] = "sp"
<1>1. /\ MajorAt(l) \in Nat /\ DotAt(l) \in Nat /\ MinorAt(l) \in Nat /\ MinorEnd(l) \in Nat /\ EolAt(l) \in Nat
      /\ MajorAt(l) = ProtoAt(l) + 5 /\ DotAt(l) = MajorAt(l) + Len(l.major) /\ MinorAt(l) = DotAt(l) + 1
      /\ ProtoAt(l) \in Nat
  BY LineOffsets
<1>2. ASSUME NEW j \in 1 .. 5 PROVE t[ProtoAt(l) + j - 1] = l.proto[j]
  <2>1. Spans(t, ProtoAt(l), MajorAt(l), l.proto)
    BY DEF LineIn
  <2> PICK n : n = ProtoAt(l) + j - 1
    OBVIOUS
  <2>2. n \in ProtoAt(l) .. MajorAt(l) - 1 /\ n - ProtoAt(l) + 1 = j
    BY <1>1, SMTT(20)
  <2>3. t[n] = l.proto[n - ProtoAt(l) + 1]
    BY <2>1, <2>2 DEF Spans
  <2> QED BY <2>2, <2>3
<1>3. ASSUME NEW n \in MajorAt(l) .. DotAt(l) - 1 PROVE t[n] = l.major[n - MajorAt(l) + 1] /\ t[n] # "."
  <2>1. Spans(t, MajorAt(l), DotAt(l), l.major) /\ \A j \in 1 .. Len(l.major) : l.major[j] \notin {"."}
    BY DEF LineIn, LineIsClear, Without
  <2>2. n - MajorAt(l) + 1 \in 1 .. Len(l.major)
    <3>1. Len(l.major) \in Nat
      BY LineTexts, LenProperties
    <3> QED BY <1>1, <3>1, SMTT(20)
  <2>3. t[n] = l.major[n - MajorAt(l) + 1]
    BY <1>1, <2>1 DEF Spans
  <2> QED BY <2>1, <2>2, <2>3
<1>4. t[DotAt(l)] = "."
  <2>1. Spans(t, DotAt(l), MinorAt(l), <<".">>)
    BY DEF LineIn
  <2>2. DotAt(l) \in DotAt(l) .. MinorAt(l) - 1 /\ DotAt(l) - DotAt(l) + 1 = 1
    BY <1>1
  <2>3. t[DotAt(l)] = <<".">>[DotAt(l) - DotAt(l) + 1]
    BY <2>1, <2>2 DEF Spans
  <2> QED BY <2>2, <2>3
<1>5. MinorEnd(l) = MinorAt(l) + Len(l.minor)
  BY DEF MinorEnd
<1>6. ASSUME NEW n \in MinorAt(l) .. MinorEnd(l) - 1
      PROVE  n - MinorAt(l) + 1 \in 1 .. Len(l.minor) /\ t[n] = l.minor[n - MinorAt(l) + 1] /\ t[n] \notin {"sp", "cr", "lf"}
  <2>1. Spans(t, MinorAt(l), MinorEnd(l), l.minor) /\ \A j \in 1 .. Len(l.minor) : l.minor[j] \notin {"sp", "cr", "lf"}
    BY DEF LineIn, LineIsClear, Without
  <2>2. n - MinorAt(l) + 1 \in 1 .. Len(l.minor)
    <3>1. Len(l.minor) \in Nat
      BY LineTexts, LenProperties
    <3>2. MinorAt(l) \in Nat
      BY <1>1
    <3> QED BY <1>5, <3>1, <3>2
  <2>3. t[n] = l.minor[n - MinorAt(l) + 1]
    BY <1>1, <2>1 DEF Spans
  <2> QED BY <2>1, <2>2, <2>3
<1>7. \A n \in MinorEnd(l) .. EolAt(l) - 1 : t[n] = "sp"
  <2>1. Spans(t, MinorEnd(l), EolAt(l), Spaces(l.trail)) /\ l.trail \in Nat
    BY DEF LineIn, LineIsClear
  <2> QED BY <1>1, <2>1, SpansSpaces
<1> QED BY <1>2, <1>3, <1>4, <1>5, <1>6, <1>7

-------------------------------------------------------------------------------
(* What has been understood of the line, when it is read up to a part.     *)

MethodRead(l, c) == l.method = Get /\ c.method /\ c.request_start = MethodAt(l)
UriRead(l, c) ==
  /\ MethodRead(l, c)
  /\ l.uri[1] = "/" /\ (\A j \in 1 .. Len(l.uri) : l.uri[j] # "nul")
  /\ c.uri_start = UriAt(l) /\ c.uri_end = UriEnd(l)
ProtoRead(l, c) == UriRead(l, c) /\ l.proto = <<"H", "T", "T", "P", "/">> /\ c.http_protocol = ProtoAt(l)
MajorRead(l, c) == ProtoRead(l, c) /\ l.major = <<"1">> /\ c.http_major = 1
MinorRead(l, c) ==
  /\ MajorRead(l, c)
  /\ l.minor # <<>> /\ (\A j \in 1 .. Len(l.minor) : IsDigit(l.minor[j]))
  /\ c.http_minor = Number(l.minor)

(* n characters of the protocol's name.                                    *)
InName(l, c, at, n) ==
  /\ UriRead(l, c) /\ c.http_major = 0 /\ c.http_protocol = ProtoAt(l) /\ l.proto # <<>> /\ at = ProtoAt(l) + n
  /\ \A j \in 1 .. n : l.proto[j] = <<"H", "T", "T", "P", "/">>[j]

(* What the parser of the line has understood in state st before at.       *)
LinePlace(l, c, st, at) ==
  \/ st = "start" /\ c.http_major = 0 /\ at \in 1 .. MethodAt(l)
  \/ /\ st = "method" /\ c.http_major = 0 /\ at = MethodAt(l) + 1
     /\ l.method[1] = "G" /\ c.request_start = MethodAt(l)
  \/ st = "spaces_before_uri" /\ c.http_major = 0 /\ MethodRead(l, c) /\ at \in MethodAt(l) + 3 .. UriAt(l)
  \/ /\ st = "after_slash_in_uri" /\ c.http_major = 0 /\ MethodRead(l, c)
     /\ l.uri[1] = "/" /\ c.uri_start = UriAt(l) /\ at \in UriAt(l) + 1 .. UriEnd(l)
     /\ \A j \in 1 .. at - UriAt(l) : l.uri[j] # "nul"
  \/ st = "check_uri_http_09" /\ c.http_major = 0 /\ UriRead(l, c) /\ at \in UriEnd(l) + 1 .. ProtoAt(l)
  \/ st = "http_H" /\ InName(l, c, at, 1)
  \/ st = "http_HT" /\ InName(l, c, at, 2)
  \/ st = "http_HTT" /\ InName(l, c, at, 3)
  \/ st = "http_HTTP" /\ InName(l, c, at, 4)
  \/ st = "first_major_digit" /\ ProtoRead(l, c) /\ at = MajorAt(l)
  \/ /\ st = "major_digit" /\ ProtoRead(l, c) /\ at = MajorAt(l) + 1
     /\ l.major # <<>> /\ l.major[1] = "1" /\ c.http_major = 1
  \/ st = "first_minor_digit" /\ MajorRead(l, c) /\ at = MinorAt(l)
  \/ /\ st = "minor_digit" /\ MajorRead(l, c) /\ at \in MinorAt(l) + 1 .. MinorEnd(l)
     /\ \A j \in 1 .. at - MinorAt(l) : IsDigit(l.minor[j])
     /\ c.http_minor = NumberOf(l.minor)[at - MinorAt(l)]
  \/ st = "spaces_after_digit" /\ MinorRead(l, c) /\ at \in MinorEnd(l) + 1 .. EolAt(l)
  \/ /\ st = "almost_done" /\ at = EolAt(l) + 1 /\ Len(l.eol) = 2 /\ l.eol[1] = "cr"
     /\ \/ l.proto = <<>> /\ c.http_major = 0 /\ c.http_minor = 9
        \/ MinorRead(l, c)

(* The line's parser before its first cells: line ends are skipped, and    *)
(* anything but G is refused.                                              *)
LEMMA AfterStart ==
  ASSUME NEW l, LineIsClear(l), NEW t, LineIn(l, t), NEW c \in RequestType, NEW at \in Nat, LinePlace(l, c, "start", at)
  PROVE  /\ t[at] \in {"cr", "lf"} => LinePlace(l, [c EXCEPT !.request_start = at], "start", at + 1)
         /\ t[at] = "G" => LinePlace(l, [c EXCEPT !.request_start = at], "method", at + 1)
         /\ t[at] \notin {"cr", "lf", "G"} => ~GoodLine(l)
<1>1. c.http_major = 0 /\ at \in 1 .. MethodAt(l) /\ MethodAt(l) \in Nat
  BY LineOffsets DEF LinePlace
<1>2. /\ t[MethodAt(l)] = l.method[1] /\ t[MethodAt(l)] \notin {"cr", "lf"}
      /\ \A n \in 1 .. MethodAt(l) - 1 : t[n] \in {"cr", "lf"}
  BY LineCells
<1> PICK d : d = [c EXCEPT !.request_start = at]
  OBVIOUS
<1>3. d.http_major = 0 /\ d.request_start = at
  BY <1>1 DEF RequestType
<1>4. ASSUME t[at] \in {"cr", "lf"} PROVE LinePlace(l, d, "start", at + 1)
  <2>1. at + 1 \in 1 .. MethodAt(l)
    BY <1>1, <1>2, <1>4
  <2> QED BY <1>3, <2>1 DEF LinePlace
<1>5. ASSUME t[at] \notin {"cr", "lf"} PROVE at = MethodAt(l)
  BY <1>1, <1>2, <1>5
<1>6. ASSUME t[at] = "G" PROVE LinePlace(l, d, "method", at + 1)
  BY <1>2, <1>3, <1>5, <1>6 DEF LinePlace
<1>7. ASSUME t[at] \notin {"cr", "lf", "G"} PROVE ~GoodLine(l)
  <2>1. l.method[1] # "G"
    BY <1>2, <1>5, <1>7
  <2> QED BY <2>1 DEF GoodLine, Get
<1> QED BY <1>4, <1>6, <1>7

(* After a G the four cells of the method are compared at once.            *)
LEMMA AfterMethod ==
  ASSUME NEW l, LineIsClear(l), NEW t, LineIn(l, t), NEW c \in RequestType, NEW at \in Nat, LinePlace(l, c, "method", at)
  PROVE  /\ c.request_start = MethodAt(l) /\ MethodEnd(l) = MethodAt(l) + 4 /\ at = MethodAt(l) + 1
         /\ \A j \in 1 .. 4 : t[MethodAt(l) + j - 1] = l.method[j]
         /\ (\A j \in 1 .. 4 : l.method[j] = Get[j]) => LinePlace(l, [c EXCEPT !.method = TRUE], "spaces_before_uri", at + 2)
         /\ (\E j \in 1 .. 4 : l.method[j] # Get[j]) => ~GoodLine(l)
<1>1. c.http_major = 0 /\ at = MethodAt(l) + 1 /\ l.method[1] = "G" /\ c.request_start = MethodAt(l)
  BY DEF LinePlace
<1>2. MethodAt(l) \in Nat /\ MethodEnd(l) \in Nat /\ MethodEnd(l) <= UriAt(l) /\ UriAt(l) \in Nat
  BY LineOffsets
<1>3. Len(l.method) = 4 /\ l.method \in Seq(Cell)
  BY <1>1 DEF LineIsClear
<1>4. MethodEnd(l) = MethodAt(l) + 4
  BY <1>3 DEF MethodEnd
<1>5. ASSUME NEW j \in 1 .. 4 PROVE t[MethodAt(l) + j - 1] = l.method[j]
  <2>1. Spans(t, MethodAt(l), MethodEnd(l), l.method)
    BY DEF LineIn
  <2> PICK n : n = MethodAt(l) + j - 1
    OBVIOUS
  <2>2. n \in MethodAt(l) .. MethodEnd(l) - 1 /\ n - MethodAt(l) + 1 = j
    BY <1>2, <1>4
  <2>3. t[n] = l.method[n - MethodAt(l) + 1]
    BY <2>1, <2>2 DEF Spans
  <2> QED BY <2>2, <2>3
<1>6. ASSUME \A j \in 1 .. 4 : l.method[j] = Get[j]
      PROVE  LinePlace(l, [c EXCEPT !.method = TRUE], "spaces_before_uri", at + 2)
  <2>1. l.method = Get
    <3>1. Get \in Seq(Cell) /\ Len(Get) = 4
      BY DEF Get, Cell
    <3> QED BY <1>3, <1>6, <3>1, SeqEqual
  <2> PICK d : d = [c EXCEPT !.method = TRUE]
    OBVIOUS
  <2>2. d.http_major = 0 /\ d.request_start = MethodAt(l) /\ d.method = TRUE
    BY <1>1 DEF RequestType
  <2>3. at + 2 \in MethodAt(l) + 3 .. UriAt(l)
    BY <1>1, <1>2, <1>4
  <2> QED BY <2>1, <2>2, <2>3 DEF LinePlace, MethodRead
<1>7. ASSUME \E j \in 1 .. 4 : l.method[j] # Get[j] PROVE ~GoodLine(l)
  BY <1>7 DEF GoodLine
<1> QED BY <1>1, <1>4, <1>5, <1>6, <1>7

(* Before the uri there are spaces, and it starts with a slash.            *)
LEMMA AfterSpacesBeforeUri ==
  ASSUME NEW l, LineIsClear(l), NEW t, LineIn(l, t), NEW c \in RequestType, NEW at \in Nat,
         LinePlace(l, c, "spaces_before_uri", at)
  PROVE  /\ t[at] = "sp" => LinePlace(l, c, "spaces_before_uri", at + 1)
         /\ t[at] = "/" => LinePlace(l, [c EXCEPT !.uri_start = at], "after_slash_in_uri", at + 1)
         /\ t[at] \notin {"/", "sp"} => ~GoodLine(l)
<1>1. c.http_major = 0 /\ MethodRead(l, c) /\ at \in MethodAt(l) + 3 .. UriAt(l)
  BY DEF LinePlace
<1>2. /\ MethodAt(l) \in Nat /\ MethodEnd(l) \in Nat /\ MethodEnd(l) <= UriAt(l) /\ UriAt(l) \in Nat
      /\ UriEnd(l) \in Nat /\ UriAt(l) < UriEnd(l)
  BY LineOffsets
<1>3. Len(l.method) = 4 /\ l.method[4] = "sp"
  BY <1>1 DEF MethodRead, Get
<1>4. MethodEnd(l) = MethodAt(l) + 4
  BY <1>3 DEF MethodEnd
<1>5. ASSUME at < UriAt(l) PROVE t[at] = "sp"
  <2>1. CASE at = MethodAt(l) + 3
    <3>1. Spans(t, MethodAt(l), MethodEnd(l), l.method)
      BY DEF LineIn
    <3>2. at \in MethodAt(l) .. MethodEnd(l) - 1 /\ at - MethodAt(l) + 1 = 4
      BY <1>2, <1>4, <2>1
    <3>3. t[at] = l.method[at - MethodAt(l) + 1]
      BY <3>1, <3>2 DEF Spans
    <3> QED BY <1>3, <3>2, <3>3
  <2>2. CASE at # MethodAt(l) + 3
    <3>1. at \in MethodEnd(l) .. UriAt(l) - 1
      BY <1>1, <1>2, <1>4, <1>5, <2>2
    <3> QED BY <3>1, LineCells
  <2> QED BY <2>1, <2>2
<1>6. t[UriAt(l)] = l.uri[1] /\ t[UriAt(l)] \notin {"sp", "cr", "lf"}
  <2>1. UriAt(l) \in UriAt(l) .. UriEnd(l) - 1 /\ UriAt(l) - UriAt(l) + 1 = 1
    BY <1>2
  <2> QED BY <2>1, LineCells
<1>7. ASSUME t[at] = "sp" PROVE LinePlace(l, c, "spaces_before_uri", at + 1)
  <2>1. at + 1 \in MethodAt(l) + 3 .. UriAt(l)
    BY <1>1, <1>2, <1>6, <1>7
  <2> QED BY <1>1, <2>1 DEF LinePlace
<1>8. ASSUME t[at] # "sp" PROVE at = UriAt(l)
  BY <1>1, <1>2, <1>5, <1>8
<1>9. ASSUME t[at] = "/" PROVE LinePlace(l, [c EXCEPT !.uri_start = at], "after_slash_in_uri", at + 1)
  <2> PICK d : d = [c EXCEPT !.uri_start = at]
    OBVIOUS
  <2>1. d.http_major = 0 /\ d.request_start = c.request_start /\ d.method = c.method /\ d.uri_start = at
    BY <1>1 DEF RequestType
  <2>2. MethodRead(l, d)
    BY <1>1, <2>1 DEF MethodRead
  <2>3. at = UriAt(l) /\ l.uri[1] = "/"
    BY <1>6, <1>8, <1>9
  <2>4. at + 1 \in UriAt(l) + 1 .. UriEnd(l) /\ \A j \in 1 .. at + 1 - UriAt(l) : l.uri[j] # "nul"
    BY <1>2, <2>3
  <2> QED BY <2>1, <2>2, <2>3, <2>4 DEF LinePlace
<1>10. ASSUME t[at] \notin {"/", "sp"} PROVE ~GoodLine(l)
  BY <1>6, <1>8, <1>10 DEF GoodLine
<1> QED BY <1>7, <1>9, <1>10

(* Without a protocol the line ends at its end.                            *)
LEMMA EndOfShortLine ==
  ASSUME NEW l, LineIsClear(l), NEW t, LineIn(l, t), l.proto = <<>>
  PROVE  /\ EolAt(l) = ProtoAt(l) /\ t[EolAt(l)] = l.eol[1] /\ t[EolAt(l)] \in {"cr", "lf"}
         /\ t[EolAt(l)] = "cr" => Len(l.eol) = 2 /\ l.eol[1] = "cr"
         /\ ~GoodLine(l)
<1>1. Ended(l.eol)
  BY DEF LineIsClear
<1>2. l.eol[1] \in {"cr", "lf"} /\ (l.eol[1] = "cr" => Len(l.eol) = 2)
  BY <1>1 DEF Ended
<1>3. t[EolAt(l)] = l.eol[1]
  BY LineCells
<1>4. EolAt(l) = ProtoAt(l)
  BY DEF EolAt
<1>5. ~GoodLine(l)
  BY DEF GoodLine
<1> QED BY <1>2, <1>3, <1>4, <1>5

(* In the uri: a space or a line end ends it, a NUL is refused.            *)
LEMMA AfterSlash ==
  ASSUME NEW l, LineIsClear(l), NEW t, LineIn(l, t), NEW c \in RequestType, NEW at \in Nat,
         LinePlace(l, c, "after_slash_in_uri", at)
  PROVE  /\ t[at] = "sp" => LinePlace(l, [c EXCEPT !.uri_end = at], "check_uri_http_09", at + 1)
         /\ t[at] = "cr" => LinePlace(l, [c EXCEPT !.uri_end = at, !.http_minor = 9], "almost_done", at + 1)
         /\ t[at] = "lf" => c.http_major = 0 /\ ~GoodLine(l)
         /\ t[at] = "nul" => ~GoodLine(l)
         /\ t[at] \notin {"sp", "cr", "lf", "nul"} => LinePlace(l, c, "after_slash_in_uri", at + 1)
<1>1. /\ c.http_major = 0 /\ MethodRead(l, c) /\ l.uri[1] = "/" /\ c.uri_start = UriAt(l)
      /\ at \in UriAt(l) + 1 .. UriEnd(l) /\ \A j \in 1 .. at - UriAt(l) : l.uri[j] # "nul"
  BY DEF LinePlace
<1>2. UriAt(l) \in Nat /\ UriEnd(l) \in Nat /\ UriEnd(l) <= ProtoAt(l) /\ ProtoAt(l) \in Nat
  BY LineOffsets
<1>3. UriEnd(l) = UriAt(l) + Len(l.uri)
  BY LineCells
<1>4. ASSUME at < UriEnd(l)
      PROVE  at - UriAt(l) + 1 \in 1 .. Len(l.uri) /\ t[at] = l.uri[at - UriAt(l) + 1] /\ t[at] \notin {"sp", "cr", "lf"}
  <2>1. at \in UriAt(l) .. UriEnd(l) - 1
    BY <1>1, <1>2, <1>4
  <2> QED BY <2>1, LineCells
<1>5. ASSUME t[at] \in {"sp", "cr", "lf"} PROVE at = UriEnd(l) /\ \A j \in 1 .. Len(l.uri) : l.uri[j] # "nul"
  <2>1. at = UriEnd(l)
    BY <1>1, <1>2, <1>4, <1>5
  <2>2. Len(l.uri) \in Nat
    BY LineTexts, LenProperties
  <2>3. at - UriAt(l) = Len(l.uri)
    BY <1>2, <1>3, <2>1, <2>2
  <2> QED BY <1>1, <2>1, <2>3
<1>6. ASSUME at = UriEnd(l), UriEnd(l) < ProtoAt(l) PROVE t[at] = "sp"
  <2>1. at \in UriEnd(l) .. ProtoAt(l) - 1
    BY <1>2, <1>6
  <2> QED BY <2>1, LineCells
<1>7. ASSUME at = UriEnd(l), UriEnd(l) = ProtoAt(l)
      PROVE  /\ l.proto = <<>> /\ at = EolAt(l) /\ t[at] \in {"cr", "lf"} /\ ~GoodLine(l)
             /\ t[at] = "cr" => Len(l.eol) = 2 /\ l.eol[1] = "cr"
  <2>1. l.proto = <<>>
    BY <1>2, <1>7, LineOffsets
  <2> QED BY <1>7, <2>1, EndOfShortLine
<1>8. ASSUME t[at] = "sp" PROVE LinePlace(l, [c EXCEPT !.uri_end = at], "check_uri_http_09", at + 1)
  <2> PICK d : d = [c EXCEPT !.uri_end = at]
    OBVIOUS
  <2>1. /\ d.http_major = 0 /\ d.request_start = c.request_start /\ d.method = c.method /\ d.uri_start = c.uri_start
        /\ d.uri_end = at
    BY <1>1 DEF RequestType
  <2>2. MethodRead(l, d)
    BY <1>1, <2>1 DEF MethodRead
  <2>3. UriRead(l, d)
    BY <1>1, <1>5, <1>8, <2>1, <2>2 DEF UriRead
  <2>4. at + 1 \in UriEnd(l) + 1 .. ProtoAt(l)
    <3>1. at = UriEnd(l)
      BY <1>5, <1>8
    <3>2. UriEnd(l) # ProtoAt(l)
      BY <1>7, <1>8, <3>1
    <3> QED BY <1>2, <3>1, <3>2
  <2> QED BY <2>1, <2>3, <2>4 DEF LinePlace
<1>9. ASSUME t[at] \in {"cr", "lf"} PROVE at = UriEnd(l) /\ UriEnd(l) = ProtoAt(l)
  <2>1. at = UriEnd(l)
    BY <1>5, <1>9
  <2>2. ~(UriEnd(l) < ProtoAt(l))
    BY <1>6, <1>9, <2>1
  <2> QED BY <1>2, <2>1, <2>2
<1>10. ASSUME t[at] = "cr" PROVE LinePlace(l, [c EXCEPT !.uri_end = at, !.http_minor = 9], "almost_done", at + 1)
  <2> PICK d : d = [c EXCEPT !.uri_end = at, !.http_minor = 9]
    OBVIOUS
  <2>1. d.http_major = 0 /\ d.http_minor = 9
    BY <1>1 DEF RequestType
  <2>2. l.proto = <<>> /\ at = EolAt(l) /\ Len(l.eol) = 2 /\ l.eol[1] = "cr"
    BY <1>7, <1>9, <1>10
  <2> QED BY <2>1, <2>2 DEF LinePlace
<1>11. ASSUME t[at] = "lf" PROVE ~GoodLine(l)
  BY <1>7, <1>9, <1>11
<1>12. ASSUME t[at] \notin {"sp", "cr", "lf"} PROVE at < UriEnd(l)
  BY <1>1, <1>2, <1>6, <1>7, <1>12
<1>13. ASSUME t[at] = "nul" PROVE ~GoodLine(l)
  <2>1. at - UriAt(l) + 1 \in 1 .. Len(l.uri) /\ l.uri[at - UriAt(l) + 1] = "nul"
    BY <1>4, <1>12, <1>13
  <2> QED BY <2>1 DEF GoodLine, Characters
<1>14. ASSUME t[at] \notin {"sp", "cr", "lf", "nul"} PROVE LinePlace(l, c, "after_slash_in_uri", at + 1)
  <2> PICK next \in Nat : next = at + 1
    OBVIOUS
  <2>1. next \in UriAt(l) + 1 .. UriEnd(l) /\ at - UriAt(l) + 1 = next - UriAt(l)
    BY <1>1, <1>2, <1>12, <1>14
  <2>2. l.uri[next - UriAt(l)] # "nul"
    BY <1>4, <1>12, <1>14, <2>1
  <2>3. \A j \in 1 .. next - UriAt(l) : j = next - UriAt(l) \/ j \in 1 .. at - UriAt(l)
    BY <1>1, <1>2
  <2>4. \A j \in 1 .. next - UriAt(l) : l.uri[j] # "nul"
    BY <1>1, <2>2, <2>3
  <2>5. c.http_major = 0 /\ MethodRead(l, c) /\ l.uri[1] = "/" /\ c.uri_start = UriAt(l)
    BY <1>1
  <2>6. LinePlace(l, c, "after_slash_in_uri", next)
    BY <2>1, <2>4, <2>5 DEF LinePlace
  <2> QED BY <2>6
<1> QED BY <1>1, <1>8, <1>10, <1>11, <1>13, <1>14

(* After the uri: spaces, the end of the line or the protocol.             *)
LEMMA AfterUri ==
  ASSUME NEW l, LineIsClear(l), NEW t, LineIn(l, t), NEW c \in RequestType, NEW at \in Nat,
         LinePlace(l, c, "check_uri_http_09", at)
  PROVE  /\ t[at] = "sp" => LinePlace(l, c, "check_uri_http_09", at + 1)
         /\ t[at] = "cr" => LinePlace(l, [c EXCEPT !.http_minor = 9], "almost_done", at + 1)
         /\ t[at] = "lf" => c.http_major = 0 /\ ~GoodLine(l)
         /\ t[at] = "H" => LinePlace(l, [c EXCEPT !.http_protocol = at], "http_H", at + 1)
         /\ t[at] \notin {"sp", "cr", "lf", "H"} => ~GoodLine(l)
<1>1. c.http_major = 0 /\ UriRead(l, c) /\ at \in UriEnd(l) + 1 .. ProtoAt(l)
  BY DEF LinePlace
<1>2. UriEnd(l) \in Nat /\ ProtoAt(l) \in Nat
  BY LineOffsets
<1>3. ASSUME at < ProtoAt(l) PROVE t[at] = "sp"
  <2>1. at \in UriEnd(l) .. ProtoAt(l) - 1
    BY <1>1, <1>2, <1>3
  <2> QED BY <2>1, LineCells
<1>4. ASSUME at = ProtoAt(l), l.proto # <<>> PROVE t[at] = l.proto[1] /\ t[at] \notin {"sp", "cr", "lf"}
  <2>1. ProtoAt(l) + 1 - 1 = ProtoAt(l)
    BY <1>2
  <2>2. t[ProtoAt(l) + 1 - 1] = l.proto[1]
    BY <1>4, ProtocolCells
  <2>3. l.proto[1] \notin {"sp", "cr", "lf"}
    BY <1>4 DEF LineIsClear
  <2> QED BY <1>4, <2>1, <2>2, <2>3
<1>5. ASSUME at = ProtoAt(l), l.proto = <<>>
      PROVE  /\ at = EolAt(l) /\ t[at] \in {"cr", "lf"} /\ ~GoodLine(l)
             /\ t[at] = "cr" => Len(l.eol) = 2 /\ l.eol[1] = "cr"
  BY <1>5, EndOfShortLine
<1>6. at < ProtoAt(l) \/ at = ProtoAt(l)
  BY <1>1, <1>2
<1>7. ASSUME t[at] = "sp" PROVE LinePlace(l, c, "check_uri_http_09", at + 1)
  <2>1. at < ProtoAt(l)
    BY <1>4, <1>5, <1>6, <1>7
  <2>2. at + 1 \in UriEnd(l) + 1 .. ProtoAt(l)
    BY <1>1, <1>2, <2>1
  <2> QED BY <1>1, <2>2 DEF LinePlace
<1>8. ASSUME t[at] = "cr" PROVE LinePlace(l, [c EXCEPT !.http_minor = 9], "almost_done", at + 1)
  <2> PICK d : d = [c EXCEPT !.http_minor = 9]
    OBVIOUS
  <2>1. d.http_major = 0 /\ d.http_minor = 9
    BY <1>1 DEF RequestType
  <2>2. l.proto = <<>> /\ at = EolAt(l) /\ Len(l.eol) = 2 /\ l.eol[1] = "cr"
    BY <1>3, <1>4, <1>5, <1>6, <1>8
  <2> QED BY <2>1, <2>2 DEF LinePlace
<1>9. ASSUME t[at] = "lf" PROVE ~GoodLine(l)
  BY <1>3, <1>4, <1>5, <1>6, <1>9
<1>10. ASSUME t[at] \notin {"sp", "cr", "lf"} PROVE at = ProtoAt(l) /\ l.proto # <<>> /\ t[at] = l.proto[1]
  BY <1>3, <1>4, <1>5, <1>6, <1>10
<1>11. ASSUME t[at] = "H" PROVE LinePlace(l, [c EXCEPT !.http_protocol = at], "http_H", at + 1)
  <2> PICK d : d = [c EXCEPT !.http_protocol = at]
    OBVIOUS
  <2>1. /\ d.http_major = 0 /\ d.request_start = c.request_start /\ d.method = c.method /\ d.uri_start = c.uri_start
        /\ d.uri_end = c.uri_end /\ d.http_protocol = at
    BY <1>1 DEF RequestType
  <2>2. UriRead(l, d)
    BY <1>1, <2>1 DEF UriRead, MethodRead
  <2>3. at = ProtoAt(l) /\ l.proto # <<>> /\ l.proto[1] = "H"
    BY <1>10, <1>11
  <2>4. \A j \in 1 .. 1 : l.proto[j] = <<"H", "T", "T", "P", "/">>[j]
    BY <2>3
  <2>5. InName(l, d, at + 1, 1)
    BY <2>1, <2>2, <2>3, <2>4 DEF InName
  <2> QED BY <2>5 DEF LinePlace
<1>12. ASSUME t[at] \notin {"sp", "cr", "lf", "H"} PROVE ~GoodLine(l)
  BY <1>10, <1>12 DEF GoodLine
<1> QED BY <1>1, <1>7, <1>8, <1>9, <1>11, <1>12

(* The name of the protocol is compared cell by cell.                      *)
LEMMA AfterNameCell ==
  ASSUME NEW l, LineIsClear(l), NEW t, LineIn(l, t), NEW c, NEW at \in Nat, NEW n \in 1 .. 4, InName(l, c, at, n)
  PROVE  /\ t[at] # <<"H", "T", "T", "P", "/">>[n + 1] => ~GoodLine(l)
         /\ t[at] = <<"H", "T", "T", "P", "/">>[n + 1] => InName(l, c, at + 1, n + 1)
         /\ t[at] = <<"H", "T", "T", "P", "/">>[n + 1] /\ n = 4 => ProtoRead(l, c) /\ at + 1 = MajorAt(l)
<1> DEFINE name == <<"H", "T", "T", "P", "/">>
<1>1. /\ UriRead(l, c) /\ c.http_major = 0 /\ c.http_protocol = ProtoAt(l) /\ l.proto # <<>> /\ at = ProtoAt(l) + n
      /\ \A j \in 1 .. n : l.proto[j] = name[j]
  BY DEF InName
<1>2. ProtoAt(l) \in Nat /\ MajorAt(l) = ProtoAt(l) + 5
  BY <1>1, LineOffsets
<1> PICK m \in 1 .. 5 : m = n + 1
  OBVIOUS
<1>3. t[at] = l.proto[m]
  <2>1. at = ProtoAt(l) + m - 1
    BY <1>1, <1>2
  <2> QED BY <1>1, <2>1, ProtocolCells
<1>4. ASSUME t[at] # name[m] PROVE ~GoodLine(l)
  BY <1>3, <1>4 DEF GoodLine
<1>5. ASSUME t[at] = name[m] PROVE InName(l, c, at + 1, n + 1)
  <2>1. \A j \in 1 .. n + 1 : j = m \/ j \in 1 .. n
    OBVIOUS
  <2>2. \A j \in 1 .. n + 1 : l.proto[j] = name[j]
    BY <1>1, <1>3, <1>5, <2>1
  <2>3. at + 1 = ProtoAt(l) + (n + 1)
    BY <1>1, <1>2
  <2> QED BY <1>1, <2>2, <2>3 DEF InName
<1>6. ASSUME t[at] = name[m], n = 4 PROVE ProtoRead(l, c) /\ at + 1 = MajorAt(l)
  <2>1. \A j \in 1 .. 5 : j \in 1 .. n \/ j = m
    BY <1>6
  <2>2. \A j \in 1 .. 5 : l.proto[j] = name[j]
    BY <1>1, <1>3, <1>6, <2>1
  <2>3. l.proto \in Seq(Cell) /\ Len(l.proto) = 5
    BY <1>1 DEF LineIsClear
  <2>4. name \in Seq(Cell) /\ Len(name) = 5
    BY DEF Cell
  <2>5. l.proto = name
    BY <2>2, <2>3, <2>4, SeqEqual
  <2> QED BY <1>1, <1>2, <1>6, <2>5 DEF ProtoRead
<1> QED BY <1>4, <1>5, <1>6

(* The major version is 1, ...                                             *)
LEMMA AfterProtocol ==
  ASSUME NEW l, LineIsClear(l), NEW t, LineIn(l, t), NEW c \in RequestType, NEW at \in Nat,
         LinePlace(l, c, "first_major_digit", at)
  PROVE  /\ t[at] = "1" => LinePlace(l, [c EXCEPT !.http_major = 1], "major_digit", at + 1)
         /\ t[at] # "1" => ~GoodLine(l)
<1>1. ProtoRead(l, c) /\ at = MajorAt(l)
  BY DEF LinePlace
<1>2. l.proto # <<>>
  BY <1>1 DEF ProtoRead
<1>3. MajorAt(l) \in Nat /\ DotAt(l) \in Nat /\ DotAt(l) = MajorAt(l) + Len(l.major) /\ MajorAt(l) <= DotAt(l)
  BY <1>2, LineOffsets
<1>4. ASSUME l.major # <<>> PROVE t[at] = l.major[1]
  <2>1. Len(l.major) \in Nat /\ Len(l.major) > 0
    BY <1>4, LineTexts, EmptySeq, LenProperties
  <2>2. at \in MajorAt(l) .. DotAt(l) - 1 /\ at - MajorAt(l) + 1 = 1
    BY <1>1, <1>3, <2>1
  <2>3. t[at] = l.major[at - MajorAt(l) + 1]
    BY <1>2, <2>2, ProtocolCells
  <2> QED BY <2>2, <2>3
<1>5. ASSUME l.major = <<>> PROVE t[at] = "."
  <2>1. at = DotAt(l)
    BY <1>1, <1>3, <1>5
  <2> QED BY <1>2, <2>1, ProtocolCells
<1>6. ASSUME t[at] = "1" PROVE LinePlace(l, [c EXCEPT !.http_major = 1], "major_digit", at + 1)
  <2> PICK d : d = [c EXCEPT !.http_major = 1]
    OBVIOUS
  <2>1. /\ d.http_major = 1 /\ d.request_start = c.request_start /\ d.method = c.method /\ d.uri_start = c.uri_start
        /\ d.uri_end = c.uri_end /\ d.http_protocol = c.http_protocol
    BY DEF RequestType
  <2>2. ProtoRead(l, d)
    BY <1>1, <2>1 DEF ProtoRead, UriRead, MethodRead
  <2>3. l.major # <<>> /\ l.major[1] = "1"
    BY <1>4, <1>5, <1>6
  <2> QED BY <1>1, <2>1, <2>2, <2>3 DEF LinePlace
<1>7. ASSUME t[at] # "1" PROVE ~GoodLine(l)
  <2>1. l.major = <<>> \/ l.major[1] # "1"
    BY <1>4, <1>7
  <2>2. l.major # <<"1">>
    BY <2>1
  <2> QED BY <2>2 DEF GoodLine
<1> QED BY <1>6, <1>7

(* What is above 0 and not above 1 is 1.                                   *)
LEMMA One ==
  ASSUME NEW n \in Nat, n > 0, ~(n > 1)
  PROVE  n = 1
OBVIOUS

(* ... one digit, and behind it is the point.                              *)
LEMMA AfterMajor ==
  ASSUME NEW l, LineIsClear(l), NEW t, LineIn(l, t), NEW c \in RequestType, NEW at \in Nat,
         LinePlace(l, c, "major_digit", at)
  PROVE  /\ c.http_major = 1
         /\ t[at] = "." => LinePlace(l, c, "first_minor_digit", at + 1)
         /\ t[at] # "." => ~GoodLine(l)
<1>1. ProtoRead(l, c) /\ at = MajorAt(l) + 1 /\ l.major # <<>> /\ l.major[1] = "1" /\ c.http_major = 1
  BY DEF LinePlace
<1>2. l.proto # <<>>
  BY <1>1 DEF ProtoRead
<1>3. /\ MajorAt(l) \in Nat /\ DotAt(l) \in Nat /\ DotAt(l) = MajorAt(l) + Len(l.major) /\ MajorAt(l) <= DotAt(l)
      /\ MinorAt(l) = DotAt(l) + 1
  BY <1>2, LineOffsets
<1>4. Len(l.major) \in Nat /\ Len(l.major) > 0 /\ l.major \in Seq(Cell)
  BY <1>1, LineTexts, EmptySeq, LenProperties
<1>5. ASSUME Len(l.major) > 1 PROVE t[at] # "."
  <2>1. at \in MajorAt(l) .. DotAt(l) - 1
    BY <1>1, <1>3, <1>4, <1>5
  <2> QED BY <1>2, <2>1, ProtocolCells
<1>6. ASSUME Len(l.major) = 1 PROVE t[at] = "." /\ at = DotAt(l) /\ l.major = <<"1">>
  <2>1. at = DotAt(l)
    BY <1>1, <1>3, <1>6
  <2>2. l.major = <<"1">>
    <3>1. <<"1">> \in Seq(Cell) /\ Len(<<"1">>) = 1 /\ <<"1">>[1] = "1"
      BY DEF Cell
    <3>2. \A j \in 1 .. Len(l.major) : l.major[j] = <<"1">>[j]
      BY <1>1, <1>6, <3>1
    <3> QED BY <1>4, <1>6, <3>1, <3>2, SeqEqual
  <2> QED BY <1>2, <2>1, <2>2, ProtocolCells
<1>7. ASSUME t[at] = "." PROVE LinePlace(l, c, "first_minor_digit", at + 1)
  <2>1. Len(l.major) = 1
    <3>1. ~(Len(l.major) > 1)
      BY <1>5, <1>7
    <3>2. Len(l.major) \in Nat /\ Len(l.major) > 0
      BY <1>4
    <3> QED BY <3>1, <3>2, One
  <2>2. MajorRead(l, c) /\ at + 1 = MinorAt(l)
    BY <1>1, <1>3, <1>6, <2>1 DEF MajorRead
  <2> QED BY <2>2 DEF LinePlace
<1>8. ASSUME t[at] # "." PROVE ~GoodLine(l)
  <2>1. Len(l.major) # 1
    BY <1>6, <1>8
  <2>2. l.major # <<"1">>
    BY <2>1
  <2> QED BY <2>2 DEF GoodLine
<1> QED BY <1>1, <1>7, <1>8

(* The cell behind the number of the minor version.                        *)
LEMMA EndOfNumber ==
  ASSUME NEW l, LineIsClear(l), NEW t, LineIn(l, t), l.proto # <<>>
  PROVE  /\ ~IsDigit(t[EolAt(l)]) /\ t[EolAt(l)] # "sp"
         /\ t[EolAt(l)] = "cr" => Len(l.eol) = 2 /\ l.eol[1] = "cr"
         /\ t[EolAt(l)] = "lf" => l.eol = <<"lf">>
         /\ t[EolAt(l)] \notin {"cr", "lf"} => ~GoodLine(l)
<1>1. t[EolAt(l)] = l.eol[1]
  BY LineCells
<1>2. Ended(l.eol) \/ (l.eol # <<>> /\ l.eol[1] \notin {"sp", "cr", "lf", "0", "1", "2", "9"})
  BY DEF LineIsClear
<1>3. CASE Ended(l.eol)
  <2>1. CASE l.eol = <<"lf">>
    BY <1>1, <2>1 DEF IsDigit
  <2>2. CASE Len(l.eol) = 2 /\ l.eol[1] = "cr"
    BY <1>1, <2>2 DEF IsDigit
  <2> QED BY <1>3, <2>1, <2>2 DEF Ended
<1>4. CASE l.eol # <<>> /\ l.eol[1] \notin {"sp", "cr", "lf", "0", "1", "2", "9"}
  <2>1. ~GoodLine(l)
    BY <1>4 DEF GoodLine
  <2> QED BY <1>1, <1>4, <2>1 DEF IsDigit
<1> QED BY <1>2, <1>3, <1>4

(* The minor version starts with a digit, ...                              *)
LEMMA AfterDot ==
  ASSUME NEW l, LineIsClear(l), NEW t, LineIn(l, t), NEW c \in RequestType, NEW at \in Nat,
         LinePlace(l, c, "first_minor_digit", at)
  PROVE  /\ IsDigit(t[at]) => LinePlace(l, [c EXCEPT !.http_minor = Digit(t[at])], "minor_digit", at + 1)
         /\ ~IsDigit(t[at]) => ~GoodLine(l)
<1>1. MajorRead(l, c) /\ at = MinorAt(l)
  BY DEF LinePlace
<1>2. l.proto # <<>>
  BY <1>1 DEF MajorRead, ProtoRead
<1>3. MinorAt(l) \in Nat /\ MinorEnd(l) \in Nat /\ EolAt(l) \in Nat /\ MinorAt(l) <= MinorEnd(l) /\ MinorEnd(l) <= EolAt(l)
  BY <1>2, LineOffsets
<1>4. Len(l.minor) \in Nat /\ MinorEnd(l) = MinorAt(l) + Len(l.minor)
  BY <1>2, LineTexts, LenProperties, ProtocolCells
<1>5. ASSUME Len(l.minor) > 0 PROVE t[at] = l.minor[1] /\ at + 1 \in MinorAt(l) + 1 .. MinorEnd(l)
  <2>1. at \in MinorAt(l) .. MinorEnd(l) - 1 /\ at - MinorAt(l) + 1 = 1
    BY <1>1, <1>3, <1>4, <1>5
  <2>2. t[at] = l.minor[at - MinorAt(l) + 1]
    BY <1>2, <2>1, ProtocolCells
  <2> QED BY <1>3, <2>1, <2>2
<1>6. ASSUME Len(l.minor) = 0 PROVE ~IsDigit(t[at]) /\ ~GoodLine(l)
  <2>1. at = MinorEnd(l)
    BY <1>1, <1>3, <1>4, <1>6
  <2>2. CASE at < EolAt(l)
    <3>1. at \in MinorEnd(l) .. EolAt(l) - 1
      BY <1>3, <2>1, <2>2
    <3>2. t[at] = "sp"
      BY <1>2, <3>1, ProtocolCells
    <3> QED BY <1>6, <3>2 DEF IsDigit, GoodLine
  <2>3. CASE at = EolAt(l)
    BY <1>2, <1>6, <2>3, EndOfNumber DEF GoodLine
  <2> QED BY <1>3, <2>1, <2>2, <2>3
<1>7. ASSUME IsDigit(t[at]) PROVE LinePlace(l, [c EXCEPT !.http_minor = Digit(t[at])], "minor_digit", at + 1)
  <2>1. Len(l.minor) > 0
    BY <1>4, <1>6, <1>7
  <2> PICK d : d = [c EXCEPT !.http_minor = Digit(t[at])]
    OBVIOUS
  <2>2. /\ d.http_major = c.http_major /\ d.request_start = c.request_start /\ d.method = c.method
        /\ d.uri_start = c.uri_start /\ d.uri_end = c.uri_end /\ d.http_protocol = c.http_protocol
        /\ d.http_minor = Digit(t[at])
    BY DEF RequestType
  <2>3. MajorRead(l, d)
    BY <1>1, <2>2 DEF MajorRead, ProtoRead, UriRead, MethodRead
  <2> PICK next \in Nat : next = at + 1
    OBVIOUS
  <2>4. next \in MinorAt(l) + 1 .. MinorEnd(l) /\ next - MinorAt(l) = 1
    BY <1>1, <1>3, <1>5, <2>1
  <2>5. NumberOf(l.minor)[1] = Digit(l.minor[1])
    <3>1. /\ NumberOf(l.minor)[0] = 0
          /\ \A n \in 1 .. Len(l.minor) : NumberOf(l.minor)[n] = 10 * NumberOf(l.minor)[n - 1] + Digit(l.minor[n])
      BY <1>4, NumberOfDigits
    <3>2. 1 \in 1 .. Len(l.minor) /\ 1 - 1 = 0
      BY <1>4, <2>1
    <3>3. NumberOf(l.minor)[1] = 10 * NumberOf(l.minor)[0] + Digit(l.minor[1])
      BY <3>1, <3>2
    <3>4. Digit(l.minor[1]) \in Nat
      BY DEF Digit
    <3> QED BY <3>1, <3>3, <3>4
  <2>6. t[at] = l.minor[1]
    BY <1>5, <2>1
  <2>7. /\ \A j \in 1 .. next - MinorAt(l) : IsDigit(l.minor[j])
        /\ d.http_minor = NumberOf(l.minor)[next - MinorAt(l)]
    BY <1>7, <2>2, <2>4, <2>5, <2>6
  <2>8. LinePlace(l, d, "minor_digit", next)
    BY <2>3, <2>4, <2>7 DEF LinePlace
  <2> QED BY <2>8
<1>8. ASSUME ~IsDigit(t[at]) PROVE ~GoodLine(l)
  <2>1. CASE Len(l.minor) > 0
    <3>1. 1 \in 1 .. Len(l.minor) /\ ~IsDigit(l.minor[1])
      BY <1>4, <1>5, <1>8, <2>1
    <3> QED BY <3>1 DEF GoodLine
  <2>2. CASE Len(l.minor) = 0
    BY <1>6, <2>2
  <2> QED BY <1>4, <2>1, <2>2
<1> QED BY <1>7, <1>8

(* A number of three digits and one more is too large.                     *)
LEMMA NumberTooLarge ==
  ASSUME NEW digits, Len(digits) \in Nat, NEW n \in 0 .. Len(digits) - 1, NumberOf(digits)[n] > 99
  PROVE  Number(digits) > 999
<1> PICK f : f = NumberOf(digits)
  OBVIOUS
<1> PICK top \in Nat : top = Len(digits)
  OBVIOUS
<1>1. /\ \A m \in 1 .. top : f[m] = 10 * f[m - 1] + Digit(digits[m])
      /\ \A m \in 0 .. top : f[m] \in Nat
  BY NumberOfDigits
<1> DEFINE Large == {m \in 0 .. top : m > n => f[m] > 999}
<1>2. 0 \in Large
  OBVIOUS
<1>3. ASSUME NEW m \in 0 .. top - 1, m \in Large PROVE m + 1 \in Large
  <2> PICK k \in 1 .. top : k = m + 1 /\ k - 1 = m
    OBVIOUS
  <2>1. f[k] = 10 * f[m] + Digit(digits[k]) /\ f[m] \in Nat
    BY <1>1
  <2>2. Digit(digits[k]) \in Nat
    BY DEF Digit
  <2>3. m >= n => f[m] > 99
    <3>1. m > n => f[m] > 999
      BY <1>3
    <3>2. f[n] > 99
      OBVIOUS
    <3> QED BY <2>1, <3>1, <3>2
  <2>4. m >= n => f[k] > 999
    BY <2>1, <2>2, <2>3
  <2> QED BY <2>4
<1>4. \A m \in 0 .. top : m \in Large
  <2> HIDE DEF Large
  <2> QED BY <1>2, <1>3, Steps
<1> QED BY <1>4 DEF Number

(* ... goes on with digits while it fits, and ends with a space or the     *)
(* line.                                                                   *)
LEMMA AfterMinor ==
  ASSUME NEW l, LineIsClear(l), NEW t, LineIn(l, t), NEW c \in RequestType, NEW at \in Nat,
         LinePlace(l, c, "minor_digit", at)
  PROVE  /\ t[at] = "cr" => LinePlace(l, c, "almost_done", at + 1)
         /\ t[at] = "lf" => MinorRead(l, c) /\ at = EolAt(l) /\ l.eol = <<"lf">>
         /\ t[at] = "sp" => LinePlace(l, c, "spaces_after_digit", at + 1)
         /\ IsDigit(t[at]) /\ c.http_minor <= 99 =>
              LinePlace(l, [c EXCEPT !.http_minor = 10 * @ + Digit(t[at])], "minor_digit", at + 1)
         /\ t[at] \notin {"cr", "lf", "sp"} /\ ~(IsDigit(t[at]) /\ c.http_minor <= 99) => ~GoodLine(l)
<1>1. /\ MajorRead(l, c) /\ at \in MinorAt(l) + 1 .. MinorEnd(l)
      /\ \A j \in 1 .. at - MinorAt(l) : IsDigit(l.minor[j])
      /\ c.http_minor = NumberOf(l.minor)[at - MinorAt(l)]
  BY DEF LinePlace
<1>2. l.proto # <<>>
  BY <1>1 DEF MajorRead, ProtoRead
<1>3. MinorAt(l) \in Nat /\ MinorEnd(l) \in Nat /\ EolAt(l) \in Nat /\ MinorAt(l) <= MinorEnd(l) /\ MinorEnd(l) <= EolAt(l)
  BY <1>2, LineOffsets
<1>4. Len(l.minor) \in Nat /\ MinorEnd(l) = MinorAt(l) + Len(l.minor)
  BY <1>2, LineTexts, LenProperties, ProtocolCells
<1> PICK size \in Nat : size = Len(l.minor)
  BY <1>4
<1> PICK m \in 1 .. size : m = at - MinorAt(l)
  BY <1>1, <1>3, <1>4
<1>5. ASSUME at < MinorEnd(l)
      PROVE  m + 1 \in 1 .. size /\ t[at] = l.minor[m + 1] /\ t[at] \notin {"sp", "cr", "lf"}
  <2>1. at \in MinorAt(l) .. MinorEnd(l) - 1 /\ at - MinorAt(l) + 1 = m + 1
    BY <1>1, <1>3, <1>5
  <2>2. t[at] = l.minor[at - MinorAt(l) + 1] /\ at - MinorAt(l) + 1 \in 1 .. Len(l.minor) /\ t[at] \notin {"sp", "cr", "lf"}
    BY <1>2, <2>1, ProtocolCells
  <2> QED BY <2>1, <2>2
<1>6. ASSUME at = MinorEnd(l)
      PROVE  /\ MinorRead(l, c) /\ ~IsDigit(t[at])
             /\ at < EolAt(l) => t[at] = "sp"
             /\ t[at] # "sp" => at = EolAt(l)
             /\ t[at] = "sp" => at < EolAt(l)
             /\ t[at] = "cr" => Len(l.eol) = 2 /\ l.eol[1] = "cr"
             /\ t[at] = "lf" => l.eol = <<"lf">>
             /\ t[at] \notin {"cr", "lf", "sp"} => ~GoodLine(l)
  <2>1. m = size
    BY <1>3, <1>4, <1>6
  <2>2. MinorRead(l, c)
    <3>1. c.http_minor = Number(l.minor) /\ \A j \in 1 .. Len(l.minor) : IsDigit(l.minor[j])
      BY <1>1, <2>1 DEF Number
    <3>2. l.minor # <<>>
      BY <2>1
    <3> QED BY <1>1, <3>1, <3>2 DEF MinorRead
  <2>3. CASE at < EolAt(l)
    <3>1. at \in MinorEnd(l) .. EolAt(l) - 1
      BY <1>3, <1>6, <2>3
    <3>2. t[at] = "sp"
      BY <1>2, <3>1, ProtocolCells
    <3>3. ~IsDigit(t[at])
      BY <3>2 DEF IsDigit
    <3> QED BY <2>2, <2>3, <3>2, <3>3
  <2>4. CASE at = EolAt(l)
    <3>1. ~(at < EolAt(l))
      BY <1>3, <2>4
    <3> QED BY <1>2, <2>2, <2>4, <3>1, EndOfNumber
  <2> QED BY <1>3, <1>6, <2>3, <2>4
<1>7. at < MinorEnd(l) \/ at = MinorEnd(l)
  BY <1>1, <1>3
<1>8. ASSUME t[at] = "cr" PROVE LinePlace(l, c, "almost_done", at + 1)
  <2>1. at = MinorEnd(l)
    BY <1>5, <1>7, <1>8
  <2>2. MinorRead(l, c) /\ at = EolAt(l) /\ Len(l.eol) = 2 /\ l.eol[1] = "cr"
    BY <1>6, <1>8, <2>1
  <2> QED BY <2>2 DEF LinePlace
<1>9. ASSUME t[at] = "lf" PROVE MinorRead(l, c) /\ at = EolAt(l) /\ l.eol = <<"lf">>
  <2>1. at = MinorEnd(l)
    BY <1>5, <1>7, <1>9
  <2> QED BY <1>6, <1>9, <2>1
<1>10. ASSUME t[at] = "sp" PROVE LinePlace(l, c, "spaces_after_digit", at + 1)
  <2>1. at = MinorEnd(l)
    BY <1>5, <1>7, <1>10
  <2>2. MinorRead(l, c) /\ at + 1 \in MinorEnd(l) + 1 .. EolAt(l)
    BY <1>3, <1>6, <1>10, <2>1
  <2> QED BY <2>2 DEF LinePlace
<1>11. ASSUME IsDigit(t[at]) PROVE at < MinorEnd(l)
  BY <1>6, <1>7, <1>11
<1>12. ASSUME IsDigit(t[at]), c.http_minor <= 99
       PROVE  LinePlace(l, [c EXCEPT !.http_minor = 10 * @ + Digit(t[at])], "minor_digit", at + 1)
  <2>1. m + 1 \in 1 .. size /\ t[at] = l.minor[m + 1]
    BY <1>5, <1>11, <1>12
  <2> PICK k \in 1 .. size : k = m + 1 /\ k - 1 = m
    BY <2>1
  <2> PICK next \in Nat : next = at + 1
    OBVIOUS
  <2>2. next - MinorAt(l) = k /\ next \in MinorAt(l) + 1 .. MinorEnd(l)
    BY <1>1, <1>3, <1>4
  <2> PICK d : d = [c EXCEPT !.http_minor = 10 * @ + Digit(t[at])]
    OBVIOUS
  <2>3. /\ d.http_major = c.http_major /\ d.request_start = c.request_start /\ d.method = c.method
        /\ d.uri_start = c.uri_start /\ d.uri_end = c.uri_end /\ d.http_protocol = c.http_protocol
        /\ d.http_minor = 10 * c.http_minor + Digit(t[at])
    BY DEF RequestType
  <2>4. MajorRead(l, d)
    BY <1>1, <2>3 DEF MajorRead, ProtoRead, UriRead, MethodRead
  <2>5. NumberOf(l.minor)[k] = 10 * NumberOf(l.minor)[m] + Digit(l.minor[k])
    <3>1. \A n \in 1 .. Len(l.minor) : NumberOf(l.minor)[n] = 10 * NumberOf(l.minor)[n - 1] + Digit(l.minor[n])
      BY <1>4, NumberOfDigits
    <3> QED BY <3>1
  <2>6. c.http_minor = NumberOf(l.minor)[m]
    BY <1>1
  <2>7. d.http_minor = NumberOf(l.minor)[next - MinorAt(l)]
    BY <2>1, <2>2, <2>3, <2>5, <2>6
  <2>8. \A j \in 1 .. next - MinorAt(l) : IsDigit(l.minor[j])
    <3>1. \A j \in 1 .. next - MinorAt(l) : j = k \/ j \in 1 .. m
      BY <2>2
    <3>2. \A j \in 1 .. m : IsDigit(l.minor[j])
      BY <1>1
    <3>3. IsDigit(l.minor[k])
      BY <1>12, <2>1
    <3> QED BY <3>1, <3>2, <3>3
  <2>9. LinePlace(l, d, "minor_digit", next)
    BY <2>2, <2>4, <2>7, <2>8 DEF LinePlace
  <2> QED BY <2>9
<1>13. ASSUME t[at] \notin {"cr", "lf", "sp"}, ~(IsDigit(t[at]) /\ c.http_minor <= 99) PROVE ~GoodLine(l)
  <2>1. CASE at = MinorEnd(l)
    BY <1>6, <1>13, <2>1
  <2>2. CASE at < MinorEnd(l)
    <3>1. m + 1 \in 1 .. Len(l.minor) /\ t[at] = l.minor[m + 1]
      BY <1>5, <2>2
    <3>2. CASE ~IsDigit(t[at])
      BY <3>1, <3>2 DEF GoodLine
    <3>3. CASE ~(c.http_minor <= 99)
      <4>1. c.http_minor = NumberOf(l.minor)[m] /\ c.http_minor \in Nat
        <5>1. c.http_minor \in Nat
          <6>1. c.http_minor \in 0 .. 999
            BY DEF RequestType
          <6>2. \A n \in 0 .. 999 : n \in Nat
            OBVIOUS
          <6> QED BY <6>1, <6>2, ZenonT(30)
        <5> QED BY <1>1, <5>1
      <4>2. NumberOf(l.minor)[m] > 99 /\ m \in 0 .. Len(l.minor) - 1
        BY <3>1, <3>3, <4>1
      <4>3. Number(l.minor) > 999
        BY <1>4, <4>2, NumberTooLarge
      <4>4. Number(l.minor) \notin 1 .. 999
        <5>1. Number(l.minor) \in Nat
          BY <1>4, NumberOfDigits DEF Number
        <5> PICK v \in Nat : v = Number(l.minor)
          BY <5>1
        <5>2. v > 999
          BY <4>3
        <5>3. v \notin 1 .. 999
          BY ONLY <5>2, v \in Nat
        <5> QED BY <5>3
      <4> QED BY <4>4 DEF GoodLine
    <3> QED BY <1>13, <3>2, <3>3
  <2> QED BY <1>7, <2>1, <2>2
<1> QED BY <1>8, <1>9, <1>10, <1>12, <1>13

(* Behind the version only spaces and the end of the line are allowed.     *)
LEMMA AfterSpaces ==
  ASSUME NEW l, LineIsClear(l), NEW t, LineIn(l, t), NEW c \in RequestType, NEW at \in Nat,
         LinePlace(l, c, "spaces_after_digit", at)
  PROVE  /\ t[at] = "sp" => LinePlace(l, c, "spaces_after_digit", at + 1)
         /\ t[at] = "cr" => LinePlace(l, c, "almost_done", at + 1)
         /\ t[at] = "lf" => MinorRead(l, c) /\ at = EolAt(l) /\ l.eol = <<"lf">>
         /\ t[at] \notin {"sp", "cr", "lf"} => ~GoodLine(l)
<1>1. MinorRead(l, c) /\ at \in MinorEnd(l) + 1 .. EolAt(l)
  BY DEF LinePlace
<1>2. l.proto # <<>>
  BY <1>1 DEF MinorRead, MajorRead, ProtoRead
<1>3. MinorEnd(l) \in Nat /\ EolAt(l) \in Nat
  BY <1>2, LineOffsets
<1>4. CASE at < EolAt(l)
  <2>1. at \in MinorEnd(l) .. EolAt(l) - 1 /\ at + 1 \in MinorEnd(l) + 1 .. EolAt(l)
    BY <1>1, <1>3, <1>4
  <2>2. t[at] = "sp"
    BY <1>2, <2>1, ProtocolCells
  <2>3. LinePlace(l, c, "spaces_after_digit", at + 1)
    BY <1>1, <2>1 DEF LinePlace
  <2> QED BY <2>2, <2>3
<1>5. CASE at = EolAt(l)
  <2>1. /\ t[at] # "sp"
        /\ t[at] = "cr" => Len(l.eol) = 2 /\ l.eol[1] = "cr"
        /\ t[at] = "lf" => l.eol = <<"lf">>
        /\ t[at] \notin {"cr", "lf"} => ~GoodLine(l)
    BY <1>2, <1>5, EndOfNumber
  <2>2. t[at] = "cr" => LinePlace(l, c, "almost_done", at + 1)
    BY <1>1, <1>5, <2>1 DEF LinePlace
  <2> QED BY <1>1, <1>5, <2>1, <2>2
<1> QED BY <1>1, <1>3, <1>4, <1>5

(* Behind a CR the line is complete with LF, and bad with anything else.   *)
LEMMA AfterCr ==
  ASSUME NEW l, LineIsClear(l), NEW t, LineIn(l, t), NEW c \in RequestType, NEW at \in Nat,
         LinePlace(l, c, "almost_done", at)
  PROVE  /\ at = EolAt(l) + 1
         /\ t[at] = "lf" => \/ c.http_major = 0 /\ c.http_minor = 9 /\ ~GoodLine(l)
                            \/ MinorRead(l, c) /\ l.eol = <<"cr", "lf">>
         /\ t[at] # "lf" => ~GoodLine(l)
<1>1. /\ at = EolAt(l) + 1 /\ Len(l.eol) = 2 /\ l.eol[1] = "cr"
      /\ \/ l.proto = <<>> /\ c.http_major = 0 /\ c.http_minor = 9
         \/ MinorRead(l, c)
  BY DEF LinePlace
<1>2. t[at] = l.eol[2]
  BY <1>1, LineCells
<1>3. l.proto = <<>> => ~GoodLine(l)
  BY DEF GoodLine
<1>4. ASSUME t[at] = "lf" PROVE l.eol = <<"cr", "lf">>
  <2>1. <<"cr", "lf">> \in Seq(Cell) /\ Len(<<"cr", "lf">>) = 2 /\ l.eol \in Seq(Cell)
    BY LineTexts DEF Cell
  <2>2. \A j \in 1 .. 2 : l.eol[j] = <<"cr", "lf">>[j]
    <3>1. l.eol[1] = "cr" /\ l.eol[2] = "lf"
      BY <1>1, <1>2, <1>4
    <3>2. <<"cr", "lf">>[1] = "cr" /\ <<"cr", "lf">>[2] = "lf" /\ \A j \in 1 .. 2 : j = 1 \/ j = 2
      OBVIOUS
    <3> QED BY <3>1, <3>2
  <2> QED BY <1>1, <2>1, <2>2, SeqEqual
<1>5. ASSUME t[at] # "lf" PROVE ~GoodLine(l)
  <2>1. l.eol # <<"cr", "lf">> /\ l.eol # <<"lf">>
    BY <1>1, <1>2, <1>5
  <2> QED BY <2>1 DEF GoodLine
<1> QED BY <1>1, <1>3, <1>4, <1>5

-------------------------------------------------------------------------------
(* The places in a header line from s on, and which cells are there.       *)

LEMMA HeaderOffsets ==
  ASSUME NEW h, HeaderIsClear(h), NEW s \in Nat
  PROVE  /\ NameEnd(h, s) \in Nat /\ ValueAt(h, s) \in Nat /\ ValueEnd(h, s) \in Nat /\ HeaderEol(h, s) \in Nat
         /\ HeaderEnd(h, s) \in Nat /\ AfterColon(h, s) \in Nat
         /\ s < NameEnd(h, s) /\ NameEnd(h, s) <= ValueAt(h, s) /\ ValueAt(h, s) <= ValueEnd(h, s)
         /\ ValueEnd(h, s) <= HeaderEol(h, s) /\ HeaderEol(h, s) < HeaderEnd(h, s)
         /\ AfterColon(h, s) = NameEnd(h, s) + 1
         /\ h.colon => AfterColon(h, s) <= ValueAt(h, s)
         /\ ~h.colon => h.value = <<>> /\ ValueAt(h, s) = NameEnd(h, s) /\ HeaderEol(h, s) = NameEnd(h, s)
         /\ NameEnd(h, s) = s + Len(h.name) /\ ValueEnd(h, s) = ValueAt(h, s) + Len(h.value)
         /\ HeaderEnd(h, s) = HeaderEol(h, s) + Len(h.eol)
         /\ (h.value = <<>> <=> ValueEnd(h, s) = ValueAt(h, s))
         /\ Len(h.name) \in Nat /\ Len(h.value) \in Nat /\ Len(h.eol) \in Nat
<1>1. h.name \in Seq(Cell) /\ h.value \in Seq(Cell) /\ h.eol \in Seq(Cell) /\ h.gap \in Nat /\ h.trail \in Nat
  BY DEF HeaderIsClear
<1>2. Len(h.name) \in Nat /\ Len(h.value) \in Nat /\ Len(h.eol) \in Nat
  BY <1>1, LenProperties
<1>3. Len(h.name) > 0
  <2>1. h.name # <<>>
    BY DEF HeaderIsClear
  <2> QED BY <1>1, <1>2, <2>1, EmptySeq
<1>4. Len(h.eol) > 0
  <2>1. h.eol = <<"cr", "cr", "lf">> \/ h.eol = <<"lf">> \/ Len(h.eol) = 2
    BY DEF HeaderIsClear, Ended
  <2>2. Len(<<"cr", "cr", "lf">>) = 3 /\ Len(<<"lf">>) = 1
    OBVIOUS
  <2>3. h.eol = <<"cr", "cr", "lf">> => Len(h.eol) = 3
    BY <2>2
  <2>4. h.eol = <<"lf">> => Len(h.eol) = 1
    BY <2>2
  <2>5. Len(h.eol) \in {1, 2, 3}
    BY <2>1, <2>3, <2>4
  <2>6. \A n \in {1, 2, 3} : n > 0
    OBVIOUS
  <2> QED BY <2>5, <2>6
<1>5. h.value = <<>> <=> Len(h.value) = 0
  BY <1>1, EmptySeq
<1>6. NameEnd(h, s) = s + Len(h.name) /\ NameEnd(h, s) \in Nat /\ s < NameEnd(h, s)
  BY <1>2, <1>3 DEF NameEnd
<1>7. AfterColon(h, s) = NameEnd(h, s) + 1 /\ AfterColon(h, s) \in Nat
  BY <1>6 DEF AfterColon
<1>8. /\ h.colon => ValueAt(h, s) = AfterColon(h, s) + h.gap
      /\ ~h.colon => ValueAt(h, s) = NameEnd(h, s) /\ h.value = <<>>
  BY DEF ValueAt, HeaderIsClear
<1>9. ValueAt(h, s) \in Nat /\ NameEnd(h, s) <= ValueAt(h, s) /\ (h.colon => AfterColon(h, s) <= ValueAt(h, s))
  BY <1>1, <1>6, <1>7, <1>8
<1>10. ValueEnd(h, s) = ValueAt(h, s) + Len(h.value) /\ ValueEnd(h, s) \in Nat /\ ValueAt(h, s) <= ValueEnd(h, s)
  BY <1>2, <1>9 DEF ValueEnd
<1>11. h.value = <<>> <=> ValueEnd(h, s) = ValueAt(h, s)
  <2>1. \A a \in Nat, b \in Nat : b = 0 <=> a + b = a
    OBVIOUS
  <2>2. Len(h.value) = 0 <=> ValueAt(h, s) + Len(h.value) = ValueAt(h, s)
    BY <1>2, <1>9, <2>1
  <2> QED BY <1>5, <1>10, <2>2
<1>12. /\ h.colon => HeaderEol(h, s) = ValueEnd(h, s) + h.trail
       /\ ~h.colon => HeaderEol(h, s) = ValueEnd(h, s)
  BY DEF HeaderEol
<1>13. HeaderEol(h, s) \in Nat /\ ValueEnd(h, s) <= HeaderEol(h, s)
  BY <1>1, <1>10, <1>12
<1>14. HeaderEnd(h, s) = HeaderEol(h, s) + Len(h.eol) /\ HeaderEnd(h, s) \in Nat /\ HeaderEol(h, s) < HeaderEnd(h, s)
  BY <1>2, <1>4, <1>13 DEF HeaderEnd
<1>15. ~h.colon => HeaderEol(h, s) = NameEnd(h, s)
  BY <1>8, <1>11, <1>12
<1> QED BY <1>2, <1>6, <1>7, <1>8, <1>9, <1>10, <1>11, <1>13, <1>14, <1>15

LEMMA HeaderCells ==
  ASSUME NEW h, HeaderIsClear(h), NEW s \in Nat, NEW t, HeaderIn(h, t, s)
  PROVE  /\ \A n \in s .. NameEnd(h, s) - 1 :
              n - s + 1 \in 1 .. Len(h.name) /\ t[n] = h.name[n - s + 1] /\ t[n] \notin {":", "cr", "lf"}
         /\ h.colon => t[NameEnd(h, s)] = ":"
         /\ \A n \in AfterColon(h, s) .. ValueAt(h, s) - 1 : t[n] = "sp"
         /\ \A n \in ValueAt(h, s) .. ValueEnd(h, s) - 1 :
              /\ n - ValueAt(h, s) + 1 \in 1 .. Len(h.value) /\ t[n] = h.value[n - ValueAt(h, s) + 1]
              /\ t[n] \notin {"cr", "lf"}
         /\ \A n \in ValueEnd(h, s) .. HeaderEol(h, s) - 1 : t[n] = "sp"
         /\ \A m \in 1 .. Len(h.eol) : t[HeaderEol(h, s) + m - 1] = h.eol[m]
<1>1. /\ NameEnd(h, s) \in Nat /\ ValueAt(h, s) \in Nat /\ ValueEnd(h, s) \in Nat /\ HeaderEol(h, s) \in Nat
      /\ HeaderEnd(h, s) \in Nat /\ AfterColon(h, s) \in Nat
      /\ NameEnd(h, s) = s + Len(h.name) /\ ValueEnd(h, s) = ValueAt(h, s) + Len(h.value)
      /\ HeaderEnd(h, s) = HeaderEol(h, s) + Len(h.eol)
      /\ Len(h.name) \in Nat /\ Len(h.value) \in Nat /\ Len(h.eol) \in Nat
      /\ AfterColon(h, s) = NameEnd(h, s) + 1
      /\ ~h.colon => ValueAt(h, s) = NameEnd(h, s) /\ HeaderEol(h, s) = NameEnd(h, s)
      /\ ValueAt(h, s) <= ValueEnd(h, s)
  BY HeaderOffsets
<1>2. ASSUME NEW n \in s .. NameEnd(h, s) - 1
      PROVE  n - s + 1 \in 1 .. Len(h.name) /\ t[n] = h.name[n - s + 1] /\ t[n] \notin {":", "cr", "lf"}
  <2>1. Spans(t, s, NameEnd(h, s), h.name) /\ \A j \in 1 .. Len(h.name) : h.name[j] \notin {":", "cr", "lf"}
    BY DEF HeaderIn, HeaderIsClear, Without
  <2>2. n - s + 1 \in 1 .. Len(h.name)
    BY <1>1
  <2>3. t[n] = h.name[n - s + 1]
    BY <1>1, <2>1 DEF Spans
  <2> QED BY <2>1, <2>2, <2>3
<1>3. ASSUME h.colon PROVE t[NameEnd(h, s)] = ":"
  <2>1. Spans(t, NameEnd(h, s), AfterColon(h, s), <<":">>)
    BY <1>3 DEF HeaderIn
  <2>2. NameEnd(h, s) \in NameEnd(h, s) .. AfterColon(h, s) - 1 /\ NameEnd(h, s) - NameEnd(h, s) + 1 = 1
    BY <1>1
  <2>3. t[NameEnd(h, s)] = <<":">>[NameEnd(h, s) - NameEnd(h, s) + 1]
    BY <2>1, <2>2 DEF Spans
  <2> QED BY <2>2, <2>3
<1>4. \A n \in AfterColon(h, s) .. ValueAt(h, s) - 1 : t[n] = "sp"
  <2>1. CASE h.colon
    <3>1. Spans(t, AfterColon(h, s), ValueAt(h, s), Spaces(h.gap)) /\ h.gap \in Nat
      BY <2>1 DEF HeaderIn, HeaderIsClear
    <3> QED BY <1>1, <3>1, SpansSpaces
  <2>2. CASE ~h.colon
    <3>1. AfterColon(h, s) = ValueAt(h, s) + 1 /\ ValueAt(h, s) \in Nat
      BY <1>1, <2>2
    <3>2. AfterColon(h, s) .. ValueAt(h, s) - 1 = {}
      BY <3>1
    <3> QED BY <3>2
  <2> QED BY <2>1, <2>2
<1>5. ASSUME NEW n \in ValueAt(h, s) .. ValueEnd(h, s) - 1
      PROVE  /\ n - ValueAt(h, s) + 1 \in 1 .. Len(h.value) /\ t[n] = h.value[n - ValueAt(h, s) + 1]
             /\ t[n] \notin {"cr", "lf"}
  <2>1. Spans(t, ValueAt(h, s), ValueEnd(h, s), h.value) /\ \A j \in 1 .. Len(h.value) : h.value[j] \notin {"cr", "lf"}
    BY DEF HeaderIn, HeaderIsClear, Without
  <2>2. n - ValueAt(h, s) + 1 \in 1 .. Len(h.value)
    <3>1. ValueAt(h, s) \in Nat /\ Len(h.value) \in Nat /\ ValueEnd(h, s) = ValueAt(h, s) + Len(h.value)
      BY <1>1
    <3> QED BY <3>1
  <2>3. t[n] = h.value[n - ValueAt(h, s) + 1]
    BY <1>1, <2>1 DEF Spans
  <2> QED BY <2>1, <2>2, <2>3
<1>6. \A n \in ValueEnd(h, s) .. HeaderEol(h, s) - 1 : t[n] = "sp"
  <2>1. CASE h.colon
    <3>1. Spans(t, ValueEnd(h, s), HeaderEol(h, s), Spaces(h.trail)) /\ h.trail \in Nat
      BY <2>1 DEF HeaderIn, HeaderIsClear
    <3> QED BY <1>1, <3>1, SpansSpaces
  <2>2. CASE ~h.colon
    <3>1. HeaderEol(h, s) = ValueAt(h, s) /\ ValueAt(h, s) \in Nat /\ ValueEnd(h, s) \in Nat /\ ValueAt(h, s) <= ValueEnd(h, s)
      BY <1>1, <2>2
    <3>2. ValueEnd(h, s) .. HeaderEol(h, s) - 1 = {}
      BY <3>1
    <3> QED BY <3>2
  <2> QED BY <2>1, <2>2
<1>7. ASSUME NEW m \in 1 .. Len(h.eol) PROVE t[HeaderEol(h, s) + m - 1] = h.eol[m]
  <2>1. Spans(t, HeaderEol(h, s), HeaderEnd(h, s), h.eol)
    BY DEF HeaderIn
  <2> PICK n \in Nat : n = HeaderEol(h, s) + m - 1
    BY <1>1
  <2>2. n \in HeaderEol(h, s) .. HeaderEnd(h, s) - 1 /\ n - HeaderEol(h, s) + 1 = m
    <3>1. HeaderEol(h, s) \in Nat /\ Len(h.eol) \in Nat /\ HeaderEnd(h, s) = HeaderEol(h, s) + Len(h.eol)
      BY <1>1
    <3> QED BY <3>1
  <2>3. t[n] = h.eol[n - HeaderEol(h, s) + 1]
    BY <2>1, <2>2 DEF Spans
  <2> QED BY <2>2, <2>3
<1> QED BY <1>2, <1>3, <1>4, <1>5, <1>6, <1>7

(* The end of a header line.                                               *)
LEMMA HeaderEols ==
  ASSUME NEW h, HeaderIsClear(h), NEW s \in Nat, NEW t, HeaderIn(h, t, s)
  PROVE  /\ t[HeaderEol(h, s)] = h.eol[1] /\ h.eol[1] \in {"cr", "lf"}
         /\ h.eol[1] = "lf" => h.eol = <<"lf">> /\ HeaderEol(h, s) + 1 = HeaderEnd(h, s)
         /\ h.eol[1] = "cr" => Len(h.eol) \in {2, 3}
<1>1. h.eol = <<"cr", "cr", "lf">> \/ h.eol = <<"lf">> \/ (Len(h.eol) = 2 /\ h.eol[1] = "cr")
  BY DEF HeaderIsClear, Ended
<1>2. HeaderEnd(h, s) = HeaderEol(h, s) + Len(h.eol) /\ HeaderEol(h, s) \in Nat
  BY HeaderOffsets
<1>3. t[HeaderEol(h, s)] = h.eol[1]
  <2>1. 1 \in 1 .. Len(h.eol)
    <3>1. Len(h.eol) \in Nat /\ HeaderEol(h, s) < HeaderEol(h, s) + Len(h.eol)
      BY HeaderOffsets
    <3> QED BY <1>2, <3>1
  <2>2. HeaderEol(h, s) + 1 - 1 = HeaderEol(h, s)
    BY <1>2
  <2>3. t[HeaderEol(h, s) + 1 - 1] = h.eol[1]
    BY <2>1, HeaderCells
  <2> QED BY <2>2, <2>3
<1>4. CASE h.eol = <<"cr", "cr", "lf">>
  BY <1>3, <1>4
<1>5. CASE h.eol = <<"lf">>
  BY <1>2, <1>3, <1>5
<1>6. CASE Len(h.eol) = 2 /\ h.eol[1] = "cr"
  BY <1>3, <1>6
<1> QED BY <1>1, <1>4, <1>5, <1>6

-------------------------------------------------------------------------------
(* What has been understood of a header line.                              *)

(* n characters of a name: if all are allowed, they are in the hash and,   *)
(* if they fit, in lowcase_header.                                         *)
CharactersRead(h, c, hs, j, n) ==
  /\ c.invalid_header = ~(\A m \in 1 .. n : Named(h.name[m]))
  /\ ~c.invalid_header =>
       /\ Len(hs) = n /\ (\A m \in 1 .. n : hs[m] = Lowcase(h.name[m]))
       /\ n < LC => j = n /\ \A m \in 1 .. n : c.lowcase_header[m - 1] = Lowcase(h.name[m])
  /\ \A m \in 1 .. n : h.name[m] # "nul"

NameRead(h, s, c, hs, j) ==
  CharactersRead(h, c, hs, j, Len(h.name)) /\ c.name_start = s /\ c.name_end = NameEnd(h, s)

ValueRead(h, s, c) ==
  /\ c.header_end = c.header_start + Len(h.value)
  /\ h.value # <<>> => c.header_start = ValueAt(h, s)
  /\ NameEnd(h, s) <= c.header_start /\ c.header_end <= HeaderEol(h, s)
  /\ \A m \in 1 .. Len(h.value) : h.value[m] # "nul"

(* Before at nothing of the value is NUL.                                  *)
ValueUpTo(h, s, at) == \A m \in 1 .. Len(h.value) : ValueAt(h, s) + m - 1 < at => h.value[m] # "nul"

HeaderPlace(h, s, c, hs, j, st, at) ==
  \/ st = "start" /\ at = s
  \/ st = "name" /\ at \in s + 1 .. NameEnd(h, s) /\ CharactersRead(h, c, hs, j, at - s) /\ c.name_start = s
  \/ /\ st = "space_before_value" /\ NameRead(h, s, c, hs, j) /\ h.colon
     /\ at \in NameEnd(h, s) + 1 .. HeaderEol(h, s) /\ (h.value # <<>> => at <= ValueAt(h, s))
  \/ /\ st = "value" /\ NameRead(h, s, c, hs, j) /\ h.value # <<>> /\ c.header_start = ValueAt(h, s)
     /\ at \in ValueAt(h, s) + 1 .. ValueEnd(h, s) /\ ValueUpTo(h, s, at)
  \/ /\ st = "space_after_value" /\ NameRead(h, s, c, hs, j) /\ h.value # <<>> /\ c.header_start = ValueAt(h, s)
     /\ c.header_end \in ValueAt(h, s) + 1 .. ValueEnd(h, s) /\ at \in c.header_end + 1 .. HeaderEol(h, s)
     /\ (\A m \in 1 .. Len(h.value) : ValueAt(h, s) + m - 1 \in c.header_end .. at - 1 => h.value[m] = "sp")
     /\ ValueUpTo(h, s, at)
  \/ /\ st = "almost_done" /\ NameRead(h, s, c, hs, j) /\ ValueRead(h, s, c)
     /\ at \in HeaderEol(h, s) + 1 .. HeaderEol(h, s) + Len(h.eol) - 1
     /\ \A m \in 1 .. at - HeaderEol(h, s) : h.eol[m] = "cr"

(* A remainder where nothing is divided off.                               *)
LEMMA SmallRemainder ==
  ASSUME NEW a \in Nat, NEW b \in Nat \ {0}, a < b
  PROVE  a % b = a
OBVIOUS

(* One more character of a name: it is in the hash and in lowcase_header,  *)
(* or the name is invalid.                                                 *)
LEMMA NextCharacter ==
  ASSUME NEW h, NEW c \in RequestType, NEW hs \in Seq(Cell), NEW j \in 0 .. LC - 1, NEW n \in Nat,
         CharactersRead(h, c, hs, j, n), NEW ch \in Cell, h.name[n + 1] = ch
  PROVE  /\ Named(ch) =>
              CharactersRead(h, [c EXCEPT !.lowcase_header[j] = Lowcase(ch)], Append(hs, Lowcase(ch)), (j + 1) % LC, n + 1)
         /\ ~Named(ch) /\ ch # "nul" => CharactersRead(h, [c EXCEPT !.invalid_header = TRUE], hs, j, n + 1)
<1> PICK k \in Nat : k = n + 1 /\ k - 1 = n
  OBVIOUS
<1>1. \A m \in 1 .. k : m = k \/ m \in 1 .. n
  OBVIOUS
<1>2. /\ c.invalid_header = ~(\A m \in 1 .. n : Named(h.name[m]))
      /\ ~c.invalid_header =>
           /\ Len(hs) = n /\ (\A m \in 1 .. n : hs[m] = Lowcase(h.name[m]))
           /\ n < LC => j = n /\ \A m \in 1 .. n : c.lowcase_header[m - 1] = Lowcase(h.name[m])
      /\ \A m \in 1 .. n : h.name[m] # "nul"
  BY DEF CharactersRead
<1>3. ASSUME Named(ch)
      PROVE  CharactersRead(h, [c EXCEPT !.lowcase_header[j] = Lowcase(ch)], Append(hs, Lowcase(ch)), (j + 1) % LC, k)
  <2> PICK d : d = [c EXCEPT !.lowcase_header[j] = Lowcase(ch)]
    OBVIOUS
  <2> PICK g : g = Append(hs, Lowcase(ch))
    OBVIOUS
  <2>1. d.invalid_header = c.invalid_header /\ d.lowcase_header = [c.lowcase_header EXCEPT ![j] = Lowcase(ch)]
    BY DEF RequestType
  <2>2. c.lowcase_header \in [0 .. LC - 1 -> Cell]
    BY DEF RequestType, Kept
  <2>3. ch # "nul"
    BY <1>3 DEF Named, Capitals, IsDigit
  <2>4. d.invalid_header = ~(\A m \in 1 .. k : Named(h.name[m]))
    <3>1. (\A m \in 1 .. k : Named(h.name[m])) <=> (\A m \in 1 .. n : Named(h.name[m]))
      <4>1. \A m \in 1 .. n : m \in 1 .. k
        OBVIOUS
      <4> QED BY <1>1, <1>3, <4>1
    <3> QED BY <1>2, <2>1, <3>1
  <2>5. \A m \in 1 .. k : h.name[m] # "nul"
    BY <1>1, <1>2, <2>3
  <2>6. ASSUME ~d.invalid_header PROVE Len(g) = k /\ \A m \in 1 .. k : g[m] = Lowcase(h.name[m])
    <3>1. Len(hs) = n /\ \A m \in 1 .. n : hs[m] = Lowcase(h.name[m])
      BY <1>2, <2>1, <2>6
    <3>2. Lowcase(ch) \in Cell
      BY DEF Lowcase, Capitals, Cell
    <3>3. Len(g) = Len(hs) + 1 /\ (\A m \in 1 .. Len(hs) : g[m] = hs[m]) /\ g[Len(hs) + 1] = Lowcase(ch)
      BY <3>2, AppendProperties
    <3>4. Len(g) = k /\ (\A m \in 1 .. n : g[m] = hs[m]) /\ g[k] = Lowcase(ch)
      BY <3>1, <3>3
    <3> QED BY <1>1, <3>1, <3>4
  <2>7. ASSUME ~d.invalid_header, k < LC
        PROVE  (j + 1) % LC = k /\ \A m \in 1 .. k : d.lowcase_header[m - 1] = Lowcase(h.name[m])
    <3>1. j = n /\ \A m \in 1 .. n : c.lowcase_header[m - 1] = Lowcase(h.name[m])
      <4>1. n < LC
        BY <2>7, HttpAssumption
      <4> QED BY <1>2, <2>1, <2>7, <4>1
    <3>2. k % LC = k
      <4>1. LC \in Nat \ {0}
        BY HttpAssumption
      <4> QED BY <2>7, <4>1, SmallRemainder
    <3>3. ASSUME NEW m \in 1 .. k PROVE d.lowcase_header[m - 1] = Lowcase(h.name[m])
      <4>1. m - 1 \in 0 .. LC - 1 /\ (m - 1 = j <=> m = k)
        BY <2>7, <3>1, HttpAssumption
      <4>2. d.lowcase_header[m - 1] = IF m - 1 = j THEN Lowcase(ch) ELSE c.lowcase_header[m - 1]
        BY <2>1, <2>2, <4>1
      <4> QED BY <1>1, <3>1, <4>1, <4>2
    <3> QED BY <3>1, <3>2, <3>3
  <2> QED BY <2>4, <2>5, <2>6, <2>7 DEF CharactersRead
<1>4. ASSUME ~Named(ch), ch # "nul" PROVE CharactersRead(h, [c EXCEPT !.invalid_header = TRUE], hs, j, k)
  <2> PICK d : d = [c EXCEPT !.invalid_header = TRUE]
    OBVIOUS
  <2>1. d.invalid_header = TRUE
    BY DEF RequestType
  <2>2. k \in 1 .. k /\ ~Named(h.name[k])
    BY <1>4
  <2>3. \A m \in 1 .. k : h.name[m] # "nul"
    BY <1>1, <1>2, <1>4
  <2> QED BY <2>1, <2>2, <2>3 DEF CharactersRead
<1> QED BY <1>3, <1>4

(* A header line is complete with the cell at.                             *)
HeaderRead(h, s, c, hs, j, at) ==
  NameRead(h, s, c, hs, j) /\ ValueRead(h, s, c) /\ GoodHeader(h) /\ at + 1 = HeaderEnd(h, s)

(* A NUL makes a header line a bad one; without one and with a right end   *)
(* it is good.                                                             *)
LEMMA BadCell ==
  ASSUME NEW h, HeaderIsClear(h)
  PROVE  /\ (\E m \in 1 .. Len(h.name) : h.name[m] = "nul") => ~GoodHeader(h)
         /\ (\E m \in 1 .. Len(h.value) : h.value[m] = "nul") => ~GoodHeader(h)
         /\ (\A m \in 1 .. Len(h.name) : h.name[m] # "nul") /\ (\A m \in 1 .. Len(h.value) : h.value[m] # "nul")
              /\ h.eol \in {<<"cr", "lf">>, <<"lf">>, <<"cr", "cr", "lf">>} => GoodHeader(h)
<1> PICK a : a = h.name
  OBVIOUS
<1> PICK b : b = h.value
  OBVIOUS
<1> PICK w : w = a \o b
  OBVIOUS
<1>1. a \in Seq(Cell) /\ b \in Seq(Cell)
  BY DEF HeaderIsClear
<1>2. /\ Len(a) \in Nat /\ Len(b) \in Nat /\ Len(w) = Len(a) + Len(b)
      /\ \A n \in 1 .. Len(a) + Len(b) : w[n] = IF n <= Len(a) THEN a[n] ELSE b[n - Len(a)]
  BY <1>1, ConcatProperties, LenProperties
<1>0. \A u \in Nat, v \in Nat : \A n \in 1 .. u + v : (~(n <= u) => n - u \in 1 .. v) /\ (n <= u => n \in 1 .. u)
  OBVIOUS
<1>3. ASSUME NEW m \in 1 .. Len(a), a[m] = "nul" PROVE "nul" \in Characters(w)
  <2>1. m \in 1 .. Len(a) + Len(b) /\ m <= Len(a)
    <3>1. Len(a) \in Nat /\ Len(b) \in Nat
      BY <1>2
    <3>2. \A u \in Nat, v \in Nat : \A n \in 1 .. u : n \in 1 .. u + v /\ n <= u
      OBVIOUS
    <3> QED BY <3>1, <3>2
  <2>2. w[m] = "nul" /\ m \in 1 .. Len(w)
    BY <1>2, <1>3, <2>1
  <2> QED BY <2>2 DEF Characters
<1>4. ASSUME NEW m \in 1 .. Len(b), b[m] = "nul" PROVE "nul" \in Characters(w)
  <2>1. Len(a) + m \in 1 .. Len(a) + Len(b) /\ ~(Len(a) + m <= Len(a)) /\ (Len(a) + m) - Len(a) = m
    <3>1. Len(a) \in Nat /\ Len(b) \in Nat
      BY <1>2
    <3>2. \A u \in Nat, v \in Nat : \A n \in 1 .. v : u + n \in 1 .. u + v /\ ~(u + n <= u) /\ (u + n) - u = n
      OBVIOUS
    <3> QED BY <3>1, <3>2
  <2>2. w[Len(a) + m] = "nul" /\ Len(a) + m \in 1 .. Len(w)
    BY <1>2, <1>4, <2>1
  <2> QED BY <2>2 DEF Characters
<1>5. ASSUME \A m \in 1 .. Len(a) : a[m] # "nul", \A m \in 1 .. Len(b) : b[m] # "nul", "nul" \in Characters(w) PROVE FALSE
  <2>1. PICK n \in 1 .. Len(w) : w[n] = "nul"
    BY <1>5 DEF Characters
  <2>0. n \in 1 .. Len(a) + Len(b)
    BY <1>2
  <2>2. CASE n <= Len(a)
    <3>1. n \in 1 .. Len(a)
      BY <1>0, <1>2, <2>0, <2>2
    <3> QED BY <1>2, <1>5, <2>0, <2>1, <2>2, <3>1
  <2>3. CASE ~(n <= Len(a))
    <3>1. n - Len(a) \in 1 .. Len(b)
      BY <1>0, <1>2, <2>0, <2>3
    <3> QED BY <1>2, <1>5, <2>0, <2>1, <2>3, <3>1
  <2> QED BY <2>2, <2>3
<1>6. GoodHeader(h) <=> "nul" \notin Characters(w) /\ h.eol \in {<<"cr", "lf">>, <<"lf">>, <<"cr", "cr", "lf">>}
  BY DEF GoodHeader
<1> QED BY <1>3, <1>4, <1>5, <1>6

(* The first cell behind the name or the value, at the end of the line.    *)
LEMMA AtHeaderEol ==
  ASSUME NEW h, HeaderIsClear(h), NEW s \in Nat, NEW t, HeaderIn(h, t, s), NEW c, NEW hs, NEW j,
         NameRead(h, s, c, hs, j), ValueRead(h, s, c)
  PROVE  /\ t[HeaderEol(h, s)] \in {"cr", "lf"}
         /\ t[HeaderEol(h, s)] = "cr" => HeaderPlace(h, s, c, hs, j, "almost_done", HeaderEol(h, s) + 1)
         /\ t[HeaderEol(h, s)] = "lf" => HeaderRead(h, s, c, hs, j, HeaderEol(h, s))
<1>1. /\ t[HeaderEol(h, s)] = h.eol[1] /\ h.eol[1] \in {"cr", "lf"}
      /\ h.eol[1] = "lf" => h.eol = <<"lf">> /\ HeaderEol(h, s) + 1 = HeaderEnd(h, s)
      /\ h.eol[1] = "cr" => Len(h.eol) \in {2, 3}
  BY HeaderEols
<1>2. HeaderEol(h, s) \in Nat
  BY HeaderOffsets
<1>3. ASSUME t[HeaderEol(h, s)] = "cr" PROVE HeaderPlace(h, s, c, hs, j, "almost_done", HeaderEol(h, s) + 1)
  <2>1. Len(h.eol) \in {2, 3} /\ h.eol[1] = "cr"
    BY <1>1, <1>3
  <2> PICK at \in Nat : at = HeaderEol(h, s) + 1
    BY <1>2
  <2>2. at \in HeaderEol(h, s) + 1 .. HeaderEol(h, s) + Len(h.eol) - 1 /\ at - HeaderEol(h, s) = 1
    <3>1. \A e \in Nat : \A n \in {2, 3} : e + 1 \in e + 1 .. e + n - 1 /\ (e + 1) - e = 1
      OBVIOUS
    <3> QED BY <1>2, <2>1, <3>1
  <2>3. \A m \in 1 .. at - HeaderEol(h, s) : h.eol[m] = "cr"
    BY <2>1, <2>2
  <2>4. HeaderPlace(h, s, c, hs, j, "almost_done", at)
    BY <2>2, <2>3 DEF HeaderPlace
  <2> QED BY <2>4
<1>4. ASSUME t[HeaderEol(h, s)] = "lf" PROVE HeaderRead(h, s, c, hs, j, HeaderEol(h, s))
  <2>1. GoodHeader(h)
    <3>1. \A m \in 1 .. Len(h.name) : h.name[m] # "nul"
      BY DEF NameRead, CharactersRead
    <3>2. \A m \in 1 .. Len(h.value) : h.value[m] # "nul"
      BY DEF ValueRead
    <3> QED BY <1>1, <1>4, <3>1, <3>2, BadCell
  <2> QED BY <1>1, <1>4, <2>1 DEF HeaderRead
<1> QED BY <1>1, <1>3, <1>4

(* The first cell of a header line that is not its end.                    *)
LEMMA AfterHeaderStart ==
  ASSUME NEW h, HeaderIsClear(h), NEW s \in Nat, NEW t, HeaderIn(h, t, s), s \in 0 .. End, t[s] \in Cell,
         NEW c \in RequestType, NEW d, d = [c EXCEPT !.name_start = s, !.invalid_header = FALSE]
  PROVE  /\ t[s] \notin {":", "cr", "lf"}
         /\ Named(t[s]) => HeaderPlace(h, s, [d EXCEPT !.lowcase_header[0] = Lowcase(t[s])], Append(<<>>, Lowcase(t[s])),
                                       (0 + 1) % LC, "name", s + 1)
         /\ t[s] = "nul" => ~GoodHeader(h)
         /\ t[s] # "nul" /\ ~Named(t[s]) =>
              \A hs \in Seq(Cell), j \in 0 .. LC - 1 :
                HeaderPlace(h, s, [d EXCEPT !.invalid_header = TRUE], hs, j, "name", s + 1)
<1>1. NameEnd(h, s) \in Nat /\ s < NameEnd(h, s)
  BY HeaderOffsets
<1>2. 1 \in 1 .. Len(h.name) /\ t[s] = h.name[1] /\ t[s] \notin {":", "cr", "lf"}
  <2>1. s \in s .. NameEnd(h, s) - 1 /\ s - s + 1 = 1
    BY <1>1
  <2> QED BY <2>1, HeaderCells
<1>3. d \in RequestType /\ d.invalid_header = FALSE /\ d.name_start = s
  <2> PICK b : b = [c EXCEPT !.name_start = s]
    OBVIOUS
  <2>1. b \in RequestType /\ b.name_start = s
    BY DEF RequestType
  <2>2. d = [b EXCEPT !.invalid_header = FALSE]
    OBVIOUS
  <2>3. \A q \in RequestType : [q EXCEPT !.invalid_header = FALSE] \in RequestType
    BY SetInvalid
  <2>4. \A q \in RequestType : /\ [q EXCEPT !.invalid_header = FALSE].invalid_header = FALSE
                               /\ [q EXCEPT !.invalid_header = FALSE].name_start = q.name_start
    BY DEF RequestType
  <2> QED BY <2>1, <2>2, <2>3, <2>4
<1>4. CharactersRead(h, d, <<>>, 0, 0)
  <2>1. 1 .. 0 = {} /\ Len(<<>>) = 0
    OBVIOUS
  <2> QED BY <1>3, <2>1 DEF CharactersRead
<1>5. s + 1 \in s + 1 .. NameEnd(h, s) /\ (s + 1) - s = 1 /\ 0 + 1 = 1 /\ 0 \in Nat
  BY <1>1
<1>6. h.name[0 + 1] = t[s] /\ <<>> \in Seq(Cell) /\ 0 \in 0 .. LC - 1
  BY <1>2, <1>5, HttpAssumption
<1>7. ASSUME Named(t[s])
      PROVE  HeaderPlace(h, s, [d EXCEPT !.lowcase_header[0] = Lowcase(t[s])], Append(<<>>, Lowcase(t[s])),
                         (0 + 1) % LC, "name", s + 1)
  <2> PICK e : e = [d EXCEPT !.lowcase_header[0] = Lowcase(t[s])]
    OBVIOUS
  <2> PICK hs : hs = Append(<<>>, Lowcase(t[s]))
    OBVIOUS
  <2> PICK j : j = (0 + 1) % LC
    OBVIOUS
  <2>1. CharactersRead(h, e, hs, j, 1)
    <3>1. CharactersRead(h, e, hs, j, 0 + 1)
      <4> PICK ch \in Cell : ch = t[s]
        OBVIOUS
      <4> PICK z \in Nat : z = 0
        OBVIOUS
      <4>1. Named(ch) /\ h.name[z + 1] = ch /\ z \in 0 .. LC - 1 /\ CharactersRead(h, d, <<>>, z, z)
        BY <1>4, <1>6, <1>7
      <4>2. CharactersRead(h, [d EXCEPT !.lowcase_header[z] = Lowcase(ch)], Append(<<>>, Lowcase(ch)), (z + 1) % LC, z + 1)
        BY <1>3, <1>6, <4>1, NextCharacter
      <4> QED BY <4>2
    <3> QED BY <3>1
  <2>2. e.name_start = s
    BY <1>3 DEF RequestType
  <2>3. HeaderPlace(h, s, e, hs, j, "name", s + 1)
    BY <1>5, <2>1, <2>2 DEF HeaderPlace
  <2> QED BY <2>3
<1>8. ASSUME t[s] = "nul" PROVE ~GoodHeader(h)
  BY <1>2, <1>8, BadCell
<1>9. ASSUME t[s] # "nul", ~Named(t[s]), NEW hs \in Seq(Cell), NEW j \in 0 .. LC - 1
      PROVE  HeaderPlace(h, s, [d EXCEPT !.invalid_header = TRUE], hs, j, "name", s + 1)
  <2> PICK e : e = [d EXCEPT !.invalid_header = TRUE]
    OBVIOUS
  <2>1. e.invalid_header = TRUE /\ e.name_start = s
    BY <1>3 DEF RequestType
  <2>2. CharactersRead(h, e, hs, j, 1)
    <3>1. (\A m \in 1 .. 1 : m = 1) /\ 1 \in 1 .. 1
      OBVIOUS
    <3>2. ~(\A m \in 1 .. 1 : Named(h.name[m])) /\ \A m \in 1 .. 1 : h.name[m] # "nul"
      BY <1>2, <1>9, <3>1
    <3> QED BY <2>1, <3>2 DEF CharactersRead
  <2>3. HeaderPlace(h, s, e, hs, j, "name", s + 1)
    BY <1>5, <2>1, <2>2 DEF HeaderPlace
  <2> QED BY <2>3
<1> QED BY <1>2, <1>7, <1>8, <1>9

(* In the name: a colon or a line end ends it, a NUL is refused.           *)
LEMMA AfterName ==
  ASSUME NEW h, HeaderIsClear(h), NEW s \in Nat, NEW t, HeaderIn(h, t, s), NEW at \in Nat, t[at] \in Cell,
         NEW c \in RequestType, NEW hs \in Seq(Cell), NEW j \in 0 .. LC - 1, HeaderPlace(h, s, c, hs, j, "name", at),
         NEW none, none = [c EXCEPT !.name_end = at, !.header_start = at, !.header_end = at]
  PROVE  /\ Named(t[at]) => HeaderPlace(h, s, [c EXCEPT !.lowcase_header[j] = Lowcase(t[at])],
                                        Append(hs, Lowcase(t[at])), (j + 1) % LC, "name", at + 1)
         /\ t[at] = ":" => HeaderPlace(h, s, [c EXCEPT !.name_end = at], hs, j, "space_before_value", at + 1)
         /\ t[at] = "cr" => HeaderPlace(h, s, none, hs, j, "almost_done", at + 1)
         /\ t[at] = "lf" => HeaderRead(h, s, none, hs, j, at)
         /\ t[at] = "nul" => ~GoodHeader(h)
         /\ t[at] \notin {":", "cr", "lf", "nul"} /\ ~Named(t[at]) =>
              HeaderPlace(h, s, [c EXCEPT !.invalid_header = TRUE], hs, j, "name", at + 1)
<1>1. at \in s + 1 .. NameEnd(h, s) /\ CharactersRead(h, c, hs, j, at - s) /\ c.name_start = s
  BY DEF HeaderPlace
<1>2. /\ NameEnd(h, s) \in Nat /\ NameEnd(h, s) = s + Len(h.name) /\ Len(h.name) \in Nat
      /\ AfterColon(h, s) \in Nat /\ AfterColon(h, s) = NameEnd(h, s) + 1
      /\ h.colon => AfterColon(h, s) <= ValueAt(h, s)
      /\ ValueAt(h, s) \in Nat /\ HeaderEol(h, s) \in Nat /\ ValueAt(h, s) <= HeaderEol(h, s)
      /\ ~h.colon => h.value = <<>> /\ HeaderEol(h, s) = NameEnd(h, s) /\ ValueAt(h, s) = NameEnd(h, s)
  BY HeaderOffsets
<1> PICK n \in Nat : n = at - s
  BY <1>1
<1>3. ASSUME at < NameEnd(h, s)
      PROVE  /\ t[at] \notin {":", "cr", "lf"} /\ n + 1 \in 1 .. Len(h.name) /\ h.name[n + 1] = t[at]
             /\ at + 1 \in s + 1 .. NameEnd(h, s) /\ (at + 1) - s = n + 1
  <2>0. NameEnd(h, s) \in Nat /\ at \in s + 1 .. NameEnd(h, s)
    BY <1>1, <1>2
  <2>1. at \in s .. NameEnd(h, s) - 1 /\ at - s + 1 = n + 1
    BY <1>3, <2>0
  <2>2. at + 1 \in s + 1 .. NameEnd(h, s) /\ (at + 1) - s = n + 1
    BY <1>3, <2>0
  <2> QED BY <2>1, <2>2, HeaderCells
<1>4. ASSUME at = NameEnd(h, s)
      PROVE  /\ n = Len(h.name)
             /\ h.colon => t[at] = ":"
             /\ ~h.colon => t[at] \in {"cr", "lf"} /\ at = HeaderEol(h, s)
  <2>1. n = Len(h.name)
    BY <1>2, <1>4
  <2>2. h.colon => t[at] = ":"
    BY <1>4, HeaderCells
  <2>3. ~h.colon => t[at] \in {"cr", "lf"} /\ at = HeaderEol(h, s)
    BY <1>2, <1>4, HeaderEols
  <2> QED BY <2>1, <2>2, <2>3
<1>5. at < NameEnd(h, s) \/ at = NameEnd(h, s)
  BY <1>1, <1>2
<1>6. ASSUME Named(t[at])
      PROVE  HeaderPlace(h, s, [c EXCEPT !.lowcase_header[j] = Lowcase(t[at])],
                         Append(hs, Lowcase(t[at])), (j + 1) % LC, "name", at + 1)
  <2>1. at < NameEnd(h, s)
    BY <1>4, <1>5, <1>6 DEF Named, Capitals, IsDigit
  <2> PICK e : e = [c EXCEPT !.lowcase_header[j] = Lowcase(t[at])]
    OBVIOUS
  <2> PICK gs : gs = Append(hs, Lowcase(t[at]))
    OBVIOUS
  <2> PICK k : k = (j + 1) % LC
    OBVIOUS
  <2>2. CharactersRead(h, e, gs, k, n + 1)
    BY <1>1, <1>3, <1>6, <2>1, NextCharacter
  <2>3. e.name_start = s
    BY <1>1 DEF RequestType
  <2>4. at + 1 \in s + 1 .. NameEnd(h, s) /\ (at + 1) - s = n + 1
    BY <1>3, <2>1
  <2>5. HeaderPlace(h, s, e, gs, k, "name", at + 1)
    BY <2>2, <2>3, <2>4 DEF HeaderPlace
  <2> QED BY <2>5
<1>7. ASSUME at = NameEnd(h, s) PROVE CharactersRead(h, c, hs, j, Len(h.name))
  BY <1>1, <1>4, <1>7
<1>8. ASSUME t[at] = ":" PROVE HeaderPlace(h, s, [c EXCEPT !.name_end = at], hs, j, "space_before_value", at + 1)
  <2>1. at = NameEnd(h, s) /\ h.colon
    BY <1>3, <1>4, <1>5, <1>8
  <2> PICK d : d = [c EXCEPT !.name_end = at]
    OBVIOUS
  <2>2. /\ d.name_end = at /\ d.name_start = s /\ d.invalid_header = c.invalid_header
        /\ d.lowcase_header = c.lowcase_header
    BY <1>1 DEF RequestType
  <2>3. NameRead(h, s, d, hs, j)
    BY <1>7, <2>1, <2>2 DEF NameRead, CharactersRead
  <2>4. at + 1 \in NameEnd(h, s) + 1 .. HeaderEol(h, s) /\ at + 1 <= ValueAt(h, s)
    BY <1>2, <2>1
  <2> QED BY <2>1, <2>3, <2>4 DEF HeaderPlace
<1>9. ASSUME at = NameEnd(h, s), ~h.colon PROVE NameRead(h, s, none, hs, j) /\ ValueRead(h, s, none) /\ at = HeaderEol(h, s)
  <2>1. /\ none.name_end = at /\ none.name_start = s /\ none.invalid_header = c.invalid_header
        /\ none.lowcase_header = c.lowcase_header /\ none.header_start = at /\ none.header_end = at
    BY <1>1 DEF RequestType
  <2>2. NameRead(h, s, none, hs, j)
    BY <1>7, <1>9, <2>1 DEF NameRead, CharactersRead
  <2>3. h.value = <<>> /\ HeaderEol(h, s) = NameEnd(h, s)
    BY <1>2, <1>9
  <2>4. ValueRead(h, s, none)
    BY <1>9, <2>1, <2>3 DEF ValueRead
  <2> QED BY <1>9, <2>2, <2>3, <2>4
<1>10. ASSUME t[at] \in {"cr", "lf"} PROVE at = NameEnd(h, s) /\ ~h.colon
  BY <1>3, <1>4, <1>5, <1>10
<1>11. ASSUME t[at] = "cr" PROVE HeaderPlace(h, s, none, hs, j, "almost_done", at + 1)
  <2>1. NameRead(h, s, none, hs, j) /\ ValueRead(h, s, none) /\ at = HeaderEol(h, s)
    BY <1>9, <1>10, <1>11
  <2> QED BY <1>11, <2>1, AtHeaderEol
<1>12. ASSUME t[at] = "lf" PROVE HeaderRead(h, s, none, hs, j, at)
  <2>1. NameRead(h, s, none, hs, j) /\ ValueRead(h, s, none) /\ at = HeaderEol(h, s)
    BY <1>9, <1>10, <1>12
  <2> QED BY <1>12, <2>1, AtHeaderEol
<1>13. ASSUME t[at] \notin {":", "cr", "lf"} PROVE at < NameEnd(h, s)
  BY <1>4, <1>5, <1>13
<1>14. ASSUME t[at] = "nul" PROVE ~GoodHeader(h)
  <2>1. n + 1 \in 1 .. Len(h.name) /\ h.name[n + 1] = "nul"
    BY <1>3, <1>13, <1>14
  <2> QED BY <2>1, BadCell
<1>15. ASSUME t[at] \notin {":", "cr", "lf", "nul"}, ~Named(t[at])
       PROVE  HeaderPlace(h, s, [c EXCEPT !.invalid_header = TRUE], hs, j, "name", at + 1)
  <2>1. at < NameEnd(h, s)
    BY <1>13, <1>15
  <2> PICK e : e = [c EXCEPT !.invalid_header = TRUE]
    OBVIOUS
  <2>2. CharactersRead(h, e, hs, j, n + 1)
    BY <1>1, <1>3, <1>15, <2>1, NextCharacter
  <2>3. e.name_start = s
    BY <1>1 DEF RequestType
  <2>4. at + 1 \in s + 1 .. NameEnd(h, s) /\ (at + 1) - s = n + 1
    BY <1>3, <2>1
  <2>5. HeaderPlace(h, s, e, hs, j, "name", at + 1)
    BY <2>2, <2>3, <2>4 DEF HeaderPlace
  <2> QED BY <2>5
<1> QED BY <1>6, <1>8, <1>11, <1>12, <1>14, <1>15

(* One more cell of the value is known.                                    *)
LEMMA ValueUpToNext ==
  ASSUME NEW h, HeaderIsClear(h), NEW s \in Nat, NEW t, HeaderIn(h, t, s), NEW at \in Nat, ValueUpTo(h, s, at),
         ValueAt(h, s) <= at, at < ValueEnd(h, s) => t[at] # "nul"
  PROVE  ValueUpTo(h, s, at + 1)
<1>1. ValueAt(h, s) \in Nat /\ Len(h.value) \in Nat /\ ValueEnd(h, s) = ValueAt(h, s) + Len(h.value)
  BY HeaderOffsets
<1>2. ASSUME NEW m \in 1 .. Len(h.value), ValueAt(h, s) + m - 1 < at + 1 PROVE h.value[m] # "nul"
  <2>1. ValueAt(h, s) + m - 1 < at \/ (ValueAt(h, s) + m - 1 = at /\ at < ValueEnd(h, s) /\ at - ValueAt(h, s) + 1 = m)
    BY <1>1, <1>2
  <2>2. CASE ValueAt(h, s) + m - 1 < at
    BY <2>2 DEF ValueUpTo
  <2>3. CASE ValueAt(h, s) + m - 1 = at /\ at < ValueEnd(h, s) /\ at - ValueAt(h, s) + 1 = m
    <3>1. at \in ValueAt(h, s) .. ValueEnd(h, s) - 1
      BY <1>1, <2>3
    <3>2. t[at] = h.value[m]
      BY <2>3, <3>1, HeaderCells
    <3> QED BY <2>3, <3>2
  <2> QED BY <2>1, <2>2, <2>3
<1> QED BY <1>2 DEF ValueUpTo

(* Before the value spaces are skipped; a value may be empty.              *)
LEMMA AfterSpaceBeforeValue ==
  ASSUME NEW h, HeaderIsClear(h), NEW s \in Nat, NEW t, HeaderIn(h, t, s), NEW at \in Nat, t[at] \in Cell,
         NEW c \in RequestType, NEW hs, NEW j, HeaderPlace(h, s, c, hs, j, "space_before_value", at),
         NEW none, none = [c EXCEPT !.header_start = at, !.header_end = at]
  PROVE  /\ t[at] = "sp" => HeaderPlace(h, s, c, hs, j, "space_before_value", at + 1)
         /\ t[at] = "cr" => HeaderPlace(h, s, none, hs, j, "almost_done", at + 1)
         /\ t[at] = "lf" => HeaderRead(h, s, none, hs, j, at)
         /\ t[at] = "nul" => ~GoodHeader(h)
         /\ t[at] \notin {"sp", "cr", "lf", "nul"} =>
              HeaderPlace(h, s, [c EXCEPT !.header_start = at], hs, j, "value", at + 1)
<1>1. /\ NameRead(h, s, c, hs, j) /\ h.colon /\ at \in NameEnd(h, s) + 1 .. HeaderEol(h, s)
      /\ h.value # <<>> => at <= ValueAt(h, s)
  BY DEF HeaderPlace
<1>2. /\ NameEnd(h, s) \in Nat /\ AfterColon(h, s) = NameEnd(h, s) + 1 /\ Len(h.value) \in Nat
      /\ ValueAt(h, s) \in Nat /\ ValueEnd(h, s) \in Nat /\ HeaderEol(h, s) \in Nat /\ AfterColon(h, s) \in Nat
      /\ ValueEnd(h, s) = ValueAt(h, s) + Len(h.value) /\ ValueEnd(h, s) <= HeaderEol(h, s)
  BY HeaderOffsets
<1>3. h.value = <<>> <=> Len(h.value) = 0
  BY DEF HeaderIsClear
<1>4. ASSUME at < ValueAt(h, s) PROVE t[at] = "sp" /\ at + 1 <= ValueAt(h, s) /\ at + 1 \in NameEnd(h, s) + 1 .. HeaderEol(h, s)
  <2>1. at \in AfterColon(h, s) .. ValueAt(h, s) - 1
    BY <1>1, <1>2, <1>4
  <2>2. at + 1 <= ValueAt(h, s) /\ at + 1 \in NameEnd(h, s) + 1 .. HeaderEol(h, s)
    BY <1>1, <1>2, <1>4
  <2> QED BY <2>1, <2>2, HeaderCells
<1>5. ASSUME ~(at < ValueAt(h, s)), h.value # <<>>
      PROVE  /\ at = ValueAt(h, s) /\ t[at] = h.value[1] /\ t[at] \notin {"sp", "cr", "lf"} /\ 1 \in 1 .. Len(h.value)
             /\ at + 1 \in ValueAt(h, s) + 1 .. ValueEnd(h, s)
  <2>1. at = ValueAt(h, s)
    BY <1>1, <1>2, <1>5
  <2>2. at \in ValueAt(h, s) .. ValueEnd(h, s) - 1 /\ at - ValueAt(h, s) + 1 = 1
    BY <1>2, <1>3, <1>5, <2>1
  <2>3. 1 \in 1 .. Len(h.value) /\ t[at] = h.value[1] /\ t[at] \notin {"cr", "lf"}
    BY <2>2, HeaderCells
  <2>4. h.value[1] # "sp"
    BY <1>5 DEF HeaderIsClear
  <2>5. at + 1 \in ValueAt(h, s) + 1 .. ValueEnd(h, s)
    BY <1>2, <2>1, <2>2
  <2> QED BY <2>1, <2>3, <2>4, <2>5
<1>6. ASSUME ~(at < ValueAt(h, s)), h.value = <<>>
      PROVE  /\ at < HeaderEol(h, s) => t[at] = "sp" /\ at + 1 \in NameEnd(h, s) + 1 .. HeaderEol(h, s)
             /\ ~(at < HeaderEol(h, s)) => t[at] \in {"cr", "lf"} /\ at = HeaderEol(h, s)
  <2>1. ValueEnd(h, s) = ValueAt(h, s)
    BY <1>2, <1>3, <1>6
  <2>2. ASSUME at < HeaderEol(h, s) PROVE t[at] = "sp" /\ at + 1 \in NameEnd(h, s) + 1 .. HeaderEol(h, s)
    <3>1. at \in ValueEnd(h, s) .. HeaderEol(h, s) - 1 /\ at + 1 \in NameEnd(h, s) + 1 .. HeaderEol(h, s)
      BY <1>1, <1>2, <1>6, <2>1, <2>2
    <3> QED BY <3>1, HeaderCells
  <2>3. ~(at < HeaderEol(h, s)) => at = HeaderEol(h, s)
    BY <1>1, <1>2
  <2>4. t[HeaderEol(h, s)] \in {"cr", "lf"}
    BY HeaderEols
  <2> QED BY <2>2, <2>3, <2>4
<1>7. ASSUME t[at] = "sp" PROVE HeaderPlace(h, s, c, hs, j, "space_before_value", at + 1)
  <2>1. at + 1 \in NameEnd(h, s) + 1 .. HeaderEol(h, s) /\ (h.value # <<>> => at + 1 <= ValueAt(h, s))
    BY <1>4, <1>5, <1>6, <1>7
  <2> QED BY <1>1, <2>1 DEF HeaderPlace
<1>8. ASSUME t[at] \in {"cr", "lf"} PROVE NameRead(h, s, none, hs, j) /\ ValueRead(h, s, none) /\ at = HeaderEol(h, s)
  <2>1. h.value = <<>> /\ at = HeaderEol(h, s)
    BY <1>4, <1>5, <1>6, <1>8
  <2>2. /\ none.header_start = at /\ none.header_end = at /\ none.name_start = c.name_start
        /\ none.name_end = c.name_end /\ none.invalid_header = c.invalid_header
        /\ none.lowcase_header = c.lowcase_header
    BY DEF RequestType
  <2>3. NameRead(h, s, none, hs, j)
    BY <1>1, <2>2 DEF NameRead, CharactersRead
  <2>4. at = at + Len(h.value) /\ NameEnd(h, s) <= at /\ at <= HeaderEol(h, s) /\ 1 .. Len(h.value) = {}
    <3>1. Len(h.value) = 0
      BY <1>3, <2>1
    <3> QED BY <1>1, <1>2, <2>1, <3>1
  <2>5. ValueRead(h, s, none)
    BY <2>1, <2>2, <2>4 DEF ValueRead
  <2> QED BY <2>1, <2>3, <2>5
<1>9. ASSUME t[at] = "cr" PROVE HeaderPlace(h, s, none, hs, j, "almost_done", at + 1)
  <2>1. NameRead(h, s, none, hs, j) /\ ValueRead(h, s, none) /\ at = HeaderEol(h, s)
    BY <1>8, <1>9
  <2> QED BY <1>9, <2>1, AtHeaderEol
<1>10. ASSUME t[at] = "lf" PROVE HeaderRead(h, s, none, hs, j, at)
  <2>1. NameRead(h, s, none, hs, j) /\ ValueRead(h, s, none) /\ at = HeaderEol(h, s)
    BY <1>8, <1>10
  <2> QED BY <1>10, <2>1, AtHeaderEol
<1>11. ASSUME t[at] \notin {"sp", "cr", "lf"} PROVE ~(at < ValueAt(h, s)) /\ h.value # <<>>
  BY <1>4, <1>6, <1>11
<1>12. ASSUME t[at] = "nul" PROVE ~GoodHeader(h)
  <2>1. 1 \in 1 .. Len(h.value) /\ h.value[1] = "nul"
    BY <1>5, <1>11, <1>12
  <2> QED BY <2>1, BadCell
<1>13. ASSUME t[at] \notin {"sp", "cr", "lf", "nul"}
       PROVE  HeaderPlace(h, s, [c EXCEPT !.header_start = at], hs, j, "value", at + 1)
  <2> PICK d : d = [c EXCEPT !.header_start = at]
    OBVIOUS
  <2>1. at = ValueAt(h, s) /\ h.value # <<>> /\ at + 1 \in ValueAt(h, s) + 1 .. ValueEnd(h, s)
    BY <1>5, <1>11, <1>13
  <2>2. /\ d.header_start = at /\ d.name_start = c.name_start
        /\ d.name_end = c.name_end /\ d.invalid_header = c.invalid_header
        /\ d.lowcase_header = c.lowcase_header
    BY DEF RequestType
  <2>3. NameRead(h, s, d, hs, j)
    BY <1>1, <2>2 DEF NameRead, CharactersRead
  <2>4. ValueUpTo(h, s, at)
    <3>1. \A m \in 1 .. Len(h.value) : ~(ValueAt(h, s) + m - 1 < at)
      BY <1>2, <2>1
    <3> QED BY <3>1 DEF ValueUpTo
  <2>5. ValueUpTo(h, s, at + 1)
    BY <1>13, <2>1, <2>4, <1>2, ValueUpToNext
  <2>6. HeaderPlace(h, s, d, hs, j, "value", at + 1)
    BY <2>1, <2>2, <2>3, <2>5 DEF HeaderPlace
  <2> QED BY <2>6
<1> QED BY <1>7, <1>9, <1>10, <1>12, <1>13

(* In the value: a space or a line end may end it, a NUL is refused.       *)
LEMMA AfterValueCell ==
  ASSUME NEW h, HeaderIsClear(h), NEW s \in Nat, NEW t, HeaderIn(h, t, s), NEW at \in Nat, t[at] \in Cell,
         NEW c \in RequestType, NEW hs, NEW j, HeaderPlace(h, s, c, hs, j, "value", at),
         NEW d, d = [c EXCEPT !.header_end = at]
  PROVE  /\ t[at] = "sp" => HeaderPlace(h, s, d, hs, j, "space_after_value", at + 1)
         /\ t[at] = "cr" => HeaderPlace(h, s, d, hs, j, "almost_done", at + 1)
         /\ t[at] = "lf" => HeaderRead(h, s, d, hs, j, at)
         /\ t[at] = "nul" => ~GoodHeader(h)
         /\ t[at] \notin {"sp", "cr", "lf", "nul"} => HeaderPlace(h, s, c, hs, j, "value", at + 1)
<1>1. /\ NameRead(h, s, c, hs, j) /\ h.value # <<>> /\ c.header_start = ValueAt(h, s)
      /\ at \in ValueAt(h, s) + 1 .. ValueEnd(h, s) /\ ValueUpTo(h, s, at)
  BY DEF HeaderPlace
<1>2. /\ NameEnd(h, s) \in Nat /\ NameEnd(h, s) <= ValueAt(h, s) /\ Len(h.value) \in Nat
      /\ ValueAt(h, s) \in Nat /\ ValueEnd(h, s) \in Nat /\ HeaderEol(h, s) \in Nat
      /\ ValueEnd(h, s) = ValueAt(h, s) + Len(h.value) /\ ValueEnd(h, s) <= HeaderEol(h, s)
  BY HeaderOffsets
<1>3. /\ d.header_end = at /\ d.header_start = ValueAt(h, s) /\ d.name_start = c.name_start
      /\ d.name_end = c.name_end /\ d.invalid_header = c.invalid_header
      /\ d.lowcase_header = c.lowcase_header
  BY <1>1 DEF RequestType
<1>4. NameRead(h, s, d, hs, j)
  BY <1>1, <1>3 DEF NameRead, CharactersRead
<1> PICK m \in Nat : m = at - ValueAt(h, s) + 1
  BY <1>1, <1>2
<1>5. ASSUME at < ValueEnd(h, s)
      PROVE  m \in 1 .. Len(h.value) /\ t[at] = h.value[m] /\ t[at] \notin {"cr", "lf"}
  <2>1. at \in ValueAt(h, s) .. ValueEnd(h, s) - 1
    BY <1>1, <1>2, <1>5
  <2> QED BY <2>1, HeaderCells
<1>6. ASSUME ~(at < ValueEnd(h, s))
      PROVE  /\ at = ValueEnd(h, s)
             /\ at < HeaderEol(h, s) => t[at] = "sp"
             /\ ~(at < HeaderEol(h, s)) => t[at] \in {"cr", "lf"} /\ at = HeaderEol(h, s)
  <2>1. at = ValueEnd(h, s)
    BY <1>1, <1>2, <1>6
  <2>2. at < HeaderEol(h, s) => at \in ValueEnd(h, s) .. HeaderEol(h, s) - 1
    BY <1>2, <2>1
  <2>3. ~(at < HeaderEol(h, s)) => at = HeaderEol(h, s)
    BY <1>2, <2>1
  <2>4. at < HeaderEol(h, s) => t[at] = "sp"
    BY <2>2, HeaderCells
  <2>5. t[HeaderEol(h, s)] \in {"cr", "lf"}
    BY HeaderEols
  <2> QED BY <2>1, <2>3, <2>4, <2>5
<1>7. ASSUME t[at] # "nul" PROVE ValueUpTo(h, s, at + 1)
  BY <1>1, <1>2, <1>7, ValueUpToNext
<1>8. ASSUME t[at] = "sp" PROVE HeaderPlace(h, s, d, hs, j, "space_after_value", at + 1)
  <2>1. at < HeaderEol(h, s)
    BY <1>2, <1>6, <1>8
  <2>2. at + 1 \in at + 1 .. HeaderEol(h, s)
    BY <1>2, <2>1
  <2>3. \A n \in 1 .. Len(h.value) : ValueAt(h, s) + n - 1 \in at .. at + 1 - 1 => h.value[n] = "sp"
    <3>1. ASSUME NEW n \in 1 .. Len(h.value), ValueAt(h, s) + n - 1 \in at .. at + 1 - 1
          PROVE  n = m /\ at < ValueEnd(h, s)
      BY <1>2, <3>1
    <3> QED BY <1>5, <1>8, <3>1
  <2>4. d.header_end \in ValueAt(h, s) + 1 .. ValueEnd(h, s) /\ at + 1 \in d.header_end + 1 .. HeaderEol(h, s)
    BY <1>1, <1>3, <2>2
  <2>5. \A n \in 1 .. Len(h.value) : ValueAt(h, s) + n - 1 \in d.header_end .. at + 1 - 1 => h.value[n] = "sp"
    BY <1>3, <2>3
  <2>6. ValueUpTo(h, s, at + 1)
    BY <1>7, <1>8
  <2> QED BY <1>1, <1>3, <1>4, <2>4, <2>5, <2>6 DEF HeaderPlace
<1>9. ASSUME t[at] \in {"cr", "lf"} PROVE at = HeaderEol(h, s) /\ ValueRead(h, s, d)
  <2>1. at = HeaderEol(h, s) /\ at = ValueEnd(h, s)
    BY <1>5, <1>6, <1>9
  <2>2. at = ValueAt(h, s) + Len(h.value) /\ NameEnd(h, s) <= ValueAt(h, s) /\ at <= HeaderEol(h, s)
    BY <1>2, <2>1
  <2>3. \A n \in 1 .. Len(h.value) : h.value[n] # "nul"
    <3>1. \A n \in 1 .. Len(h.value) : ValueAt(h, s) + n - 1 < at
      BY <1>2, <2>2
    <3> QED BY <1>1, <3>1 DEF ValueUpTo
  <2> QED BY <1>3, <2>1, <2>2, <2>3 DEF ValueRead
<1>10. ASSUME t[at] = "cr" PROVE HeaderPlace(h, s, d, hs, j, "almost_done", at + 1)
  <2>1. ValueRead(h, s, d) /\ at = HeaderEol(h, s)
    BY <1>9, <1>10
  <2> QED BY <1>4, <1>10, <2>1, AtHeaderEol
<1>11. ASSUME t[at] = "lf" PROVE HeaderRead(h, s, d, hs, j, at)
  <2>1. ValueRead(h, s, d) /\ at = HeaderEol(h, s)
    BY <1>9, <1>11
  <2> QED BY <1>4, <1>11, <2>1, AtHeaderEol
<1>12. ASSUME t[at] \notin {"sp", "cr", "lf"} PROVE at < ValueEnd(h, s)
  BY <1>6, <1>12
<1>13. ASSUME t[at] = "nul" PROVE ~GoodHeader(h)
  BY <1>5, <1>12, <1>13, BadCell
<1>14. ASSUME t[at] \notin {"sp", "cr", "lf", "nul"} PROVE HeaderPlace(h, s, c, hs, j, "value", at + 1)
  <2>1. at + 1 \in ValueAt(h, s) + 1 .. ValueEnd(h, s)
    BY <1>1, <1>2, <1>12, <1>14
  <2>2. ValueUpTo(h, s, at + 1)
    BY <1>7, <1>14
  <2> QED BY <1>1, <2>1, <2>2 DEF HeaderPlace
<1> QED BY <1>8, <1>10, <1>11, <1>13, <1>14

(* Spaces behind the value are its end, unless more of it follows.         *)
LEMMA AfterSpaceAfterValue ==
  ASSUME NEW h, HeaderIsClear(h), NEW s \in Nat, NEW t, HeaderIn(h, t, s), NEW at \in Nat, t[at] \in Cell,
         NEW c \in RequestType, NEW hs, NEW j, HeaderPlace(h, s, c, hs, j, "space_after_value", at)
  PROVE  /\ t[at] = "sp" => HeaderPlace(h, s, c, hs, j, "space_after_value", at + 1)
         /\ t[at] = "cr" => HeaderPlace(h, s, c, hs, j, "almost_done", at + 1)
         /\ t[at] = "lf" => HeaderRead(h, s, c, hs, j, at)
         /\ t[at] = "nul" => ~GoodHeader(h)
         /\ t[at] \notin {"sp", "cr", "lf", "nul"} => HeaderPlace(h, s, c, hs, j, "value", at + 1)
<1>1. /\ NameRead(h, s, c, hs, j) /\ h.value # <<>> /\ c.header_start = ValueAt(h, s)
      /\ c.header_end \in ValueAt(h, s) + 1 .. ValueEnd(h, s) /\ at \in c.header_end + 1 .. HeaderEol(h, s)
      /\ (\A m \in 1 .. Len(h.value) : ValueAt(h, s) + m - 1 \in c.header_end .. at - 1 => h.value[m] = "sp")
      /\ ValueUpTo(h, s, at)
  BY DEF HeaderPlace
<1>2. /\ NameEnd(h, s) \in Nat /\ NameEnd(h, s) <= ValueAt(h, s) /\ Len(h.value) \in Nat
      /\ ValueAt(h, s) \in Nat /\ ValueEnd(h, s) \in Nat /\ HeaderEol(h, s) \in Nat
      /\ ValueEnd(h, s) = ValueAt(h, s) + Len(h.value) /\ ValueEnd(h, s) <= HeaderEol(h, s)
  BY HeaderOffsets
<1> PICK e \in Nat : e = c.header_end
  BY <1>1, <1>2
<1>3. e \in ValueAt(h, s) + 1 .. ValueEnd(h, s) /\ at \in e + 1 .. HeaderEol(h, s)
  BY <1>1
<1> PICK m \in Nat : m = at - ValueAt(h, s) + 1
  BY <1>2, <1>3
<1>5. ASSUME at < ValueEnd(h, s)
      PROVE  m \in 1 .. Len(h.value) /\ t[at] = h.value[m] /\ t[at] \notin {"cr", "lf"}
  <2>1. at \in ValueAt(h, s) .. ValueEnd(h, s) - 1
    BY <1>2, <1>3, <1>5, SMTT(20)
  <2> QED BY <2>1, HeaderCells
<1>6. ASSUME ~(at < ValueEnd(h, s))
      PROVE  /\ at < HeaderEol(h, s) => t[at] = "sp"
             /\ ~(at < HeaderEol(h, s)) => t[at] \in {"cr", "lf"} /\ at = HeaderEol(h, s)
  <2>2. at < HeaderEol(h, s) => at \in ValueEnd(h, s) .. HeaderEol(h, s) - 1
    BY <1>2, <1>6, SMTT(20)
  <2>3. ~(at < HeaderEol(h, s)) => at = HeaderEol(h, s)
    BY <1>2, <1>3
  <2>4. at < HeaderEol(h, s) => t[at] = "sp"
    BY <2>2, HeaderCells
  <2>5. t[HeaderEol(h, s)] \in {"cr", "lf"}
    BY HeaderEols
  <2> QED BY <2>3, <2>4, <2>5
<1>7. ASSUME t[at] # "nul" PROVE ValueUpTo(h, s, at + 1)
  <2>1. ValueAt(h, s) <= at
    BY <1>2, <1>3
  <2> QED BY <1>1, <1>7, <2>1, ValueUpToNext
<1>8. ASSUME t[at] = "sp" PROVE HeaderPlace(h, s, c, hs, j, "space_after_value", at + 1)
  <2>1. at < HeaderEol(h, s)
    <3>1. t[HeaderEol(h, s)] \in {"cr", "lf"}
      BY HeaderEols
    <3>2. at # HeaderEol(h, s)
      BY <1>8, <3>1
    <3> QED BY <1>2, <1>3, <3>2
  <2>2. at + 1 \in e + 1 .. HeaderEol(h, s)
    BY <1>2, <1>3, <2>1, SMTT(20)
  <2>3. ASSUME NEW n \in 1 .. Len(h.value), ValueAt(h, s) + n - 1 \in e .. at + 1 - 1 PROVE h.value[n] = "sp"
    <3>1. CASE ValueAt(h, s) + n - 1 \in e .. at - 1
      BY <1>1, <3>1
    <3>2. CASE ~(ValueAt(h, s) + n - 1 \in e .. at - 1)
      <4>1. \A x, y, g \in Nat : \A f \in 1 .. y :
              x + f - 1 \in e .. g + 1 - 1 /\ ~(x + f - 1 \in e .. g - 1) => f = g - x + 1 /\ g < x + y
        OBVIOUS
      <4>2. ValueAt(h, s) \in Nat /\ Len(h.value) \in Nat /\ at \in Nat /\ n \in 1 .. Len(h.value)
        BY <1>2
      <4>3. n = at - ValueAt(h, s) + 1 /\ at < ValueAt(h, s) + Len(h.value)
        BY <2>3, <3>2, <4>1, <4>2
      <4>4. n = m
        BY <4>3
      <4>5. at < ValueEnd(h, s)
        BY <1>2, <4>3
      <4> QED BY <1>5, <1>8, <4>4, <4>5
    <3> QED BY <3>1, <3>2
  <2>4. ValueUpTo(h, s, at + 1)
    BY <1>7, <1>8
  <2> QED BY <1>1, <2>2, <2>3, <2>4 DEF HeaderPlace
<1>9. ASSUME t[at] \in {"cr", "lf"} PROVE at = HeaderEol(h, s) /\ ValueRead(h, s, c)
  <2>1. at = HeaderEol(h, s) /\ ~(at < ValueEnd(h, s))
    BY <1>5, <1>6, <1>9
  <2>2. e = ValueEnd(h, s)
    <3>1. SUFFICES ASSUME e < ValueEnd(h, s) PROVE FALSE
      BY <1>2, <1>3
    <3> PICK n \in Nat : n = Len(h.value)
      BY <1>2
    <3>2. n \in 1 .. Len(h.value) /\ ValueAt(h, s) + n - 1 \in e .. at - 1
      <4>1. ValueEnd(h, s) = ValueAt(h, s) + n
        BY <1>2
      <4>2. \A u \in Nat, v \in Nat : \A k \in Nat : v = u + k /\ e >= u + 1 /\ e < v /\ v <= at
                                     => k \in 1 .. k /\ u + k - 1 \in e .. at - 1
        OBVIOUS
      <4>3. e >= ValueAt(h, s) + 1 /\ ValueEnd(h, s) <= at /\ ValueAt(h, s) \in Nat /\ ValueEnd(h, s) \in Nat
        BY <1>2, <1>3, <2>1, SMTT(20)
      <4>4. n \in 1 .. n /\ ValueAt(h, s) + n - 1 \in e .. at - 1
        BY <3>1, <4>1, <4>2, <4>3
      <4> QED BY <4>4
    <3>3. h.value[n] = "sp"
      BY <1>1, <3>2
    <3>4. h.value[Len(h.value)] # "sp"
      BY <1>1 DEF HeaderIsClear
    <3> QED BY <3>3, <3>4
  <2>3. e = ValueAt(h, s) + Len(h.value) /\ e <= HeaderEol(h, s)
    BY <1>2, <2>2
  <2>4. \A n \in 1 .. Len(h.value) : h.value[n] # "nul"
    <3>1. \A n \in 1 .. Len(h.value) : ValueAt(h, s) + n - 1 < at
      BY <1>2, <2>1
    <3> QED BY <1>1, <3>1 DEF ValueUpTo
  <2> QED BY <1>1, <1>2, <2>1, <2>3, <2>4 DEF ValueRead
<1>10. ASSUME t[at] = "cr" PROVE HeaderPlace(h, s, c, hs, j, "almost_done", at + 1)
  <2>1. ValueRead(h, s, c) /\ at = HeaderEol(h, s)
    BY <1>9, <1>10
  <2> QED BY <1>1, <1>10, <2>1, AtHeaderEol
<1>11. ASSUME t[at] = "lf" PROVE HeaderRead(h, s, c, hs, j, at)
  <2>1. ValueRead(h, s, c) /\ at = HeaderEol(h, s)
    BY <1>9, <1>11
  <2> QED BY <1>1, <1>11, <2>1, AtHeaderEol
<1>12. ASSUME t[at] \notin {"sp", "cr", "lf"} PROVE at < ValueEnd(h, s)
  BY <1>6, <1>12
<1>13. ASSUME t[at] = "nul" PROVE ~GoodHeader(h)
  BY <1>5, <1>12, <1>13, BadCell
<1>14. ASSUME t[at] \notin {"sp", "cr", "lf", "nul"} PROVE HeaderPlace(h, s, c, hs, j, "value", at + 1)
  <2>1. at + 1 \in ValueAt(h, s) + 1 .. ValueEnd(h, s)
    BY <1>2, <1>3, <1>12, <1>14, SMTT(20)
  <2>2. ValueUpTo(h, s, at + 1)
    BY <1>7, <1>14
  <2> QED BY <1>1, <2>1, <2>2 DEF HeaderPlace
<1> QED BY <1>8, <1>10, <1>11, <1>13, <1>14

(* A line ends with LF after one or two CR.                                *)
LEMMA AfterHeaderCr ==
  ASSUME NEW h, HeaderIsClear(h), NEW s \in Nat, NEW t, HeaderIn(h, t, s), NEW at \in Nat, t[at] \in Cell,
         NEW c, NEW hs, NEW j, HeaderPlace(h, s, c, hs, j, "almost_done", at)
  PROVE  /\ t[at] = "lf" => HeaderRead(h, s, c, hs, j, at)
         /\ t[at] = "cr" => HeaderPlace(h, s, c, hs, j, "almost_done", at + 1)
         /\ t[at] \notin {"lf", "cr"} => ~GoodHeader(h)
<1> PICK e \in Nat : e = HeaderEol(h, s)
  BY HeaderOffsets
<1>1. /\ NameRead(h, s, c, hs, j) /\ ValueRead(h, s, c)
      /\ at \in e + 1 .. e + Len(h.eol) - 1 /\ \A m \in 1 .. at - e : h.eol[m] = "cr"
  BY DEF HeaderPlace
<1>2. HeaderEnd(h, s) = e + Len(h.eol) /\ Len(h.eol) \in Nat
  BY HeaderOffsets
<1>3. \A m \in 1 .. Len(h.eol) : t[e + m - 1] = h.eol[m]
  BY HeaderCells
<1>4. h.eol = <<"cr", "cr", "lf">> \/ h.eol = <<"lf">> \/ (Len(h.eol) = 2 /\ h.eol[1] = "cr" /\ h.eol[2] # "cr")
  BY DEF HeaderIsClear, Ended
<1>5. h.eol # <<"lf">>
  <2>1. SUFFICES ASSUME Len(h.eol) = 1 PROVE FALSE
    OBVIOUS
  <2> QED BY <1>1, <2>1
<1>6. (\A m \in 1 .. Len(h.name) : h.name[m] # "nul") /\ (\A m \in 1 .. Len(h.value) : h.value[m] # "nul")
  BY <1>1 DEF NameRead, CharactersRead, ValueRead
<1>7. CASE h.eol = <<"cr", "cr", "lf">>
  <2>1. Len(h.eol) = 3 /\ h.eol[1] = "cr" /\ h.eol[2] = "cr" /\ h.eol[3] = "lf"
    BY <1>7
  <2>2. GoodHeader(h)
    BY <1>6, <1>7, BadCell
  <2>3. at = e + 1 \/ at = e + 2
    BY <1>1, <2>1
  <2>4. CASE at = e + 1
    <3>1. t[at] = "cr"
      BY <1>3, <2>1, <2>4
    <3>2. at + 1 \in e + 1 .. e + Len(h.eol) - 1 /\ at + 1 - e = 2
      BY <2>1, <2>4
    <3>3. \A m \in 1 .. at + 1 - e : h.eol[m] = "cr"
      <4>1. \A m \in 1 .. 2 : m = 1 \/ m = 2
        OBVIOUS
      <4> QED BY <2>1, <3>2, <4>1
    <3> QED BY <1>1, <3>1, <3>2, <3>3 DEF HeaderPlace
  <2>5. CASE at = e + 2
    <3>1. t[at] = "lf" /\ at + 1 = HeaderEnd(h, s)
      BY <1>2, <1>3, <2>1, <2>5
    <3> QED BY <1>1, <2>2, <3>1 DEF HeaderRead
  <2> QED BY <2>3, <2>4, <2>5
<1>8. CASE Len(h.eol) = 2 /\ h.eol[1] = "cr" /\ h.eol[2] # "cr"
  <2>1. at = e + 1 /\ at + 1 = HeaderEnd(h, s)
    BY <1>1, <1>2, <1>8
  <2>2. t[at] = h.eol[2]
    BY <1>3, <1>8, <2>1
  <2>3. CASE h.eol[2] = "lf"
    <3>1. h.eol = <<"cr", "lf">>
      <4>1. h.eol \in Seq(Cell)
        BY DEF HeaderIsClear
      <4> QED BY <1>8, <2>3, <4>1
    <3>2. GoodHeader(h)
      BY <1>6, <3>1, BadCell
    <3> QED BY <1>1, <2>1, <2>2, <2>3, <3>2 DEF HeaderRead
  <2>4. CASE h.eol[2] # "lf"
    <3>1. h.eol \notin {<<"cr", "lf">>, <<"lf">>, <<"cr", "cr", "lf">>}
      BY <1>8, <2>4
    <3>2. ~GoodHeader(h)
      BY <3>1 DEF GoodHeader
    <3> QED BY <1>8, <2>2, <2>4, <3>2
  <2> QED BY <2>3, <2>4
<1> QED BY <1>4, <1>5, <1>7, <1>8

-------------------------------------------------------------------------------
(* The invariant.  What has arrived, and what of it is as it arrived: the  *)
(* line, and what is behind the first k headers.                           *)
Arrived ==
  /\ last <= Len(Text(request)) + 1
  /\ Len(stream) = Len(Text(request)) - last + 1
  /\ \A j \in 1 .. Len(stream) : stream[j] = Text(request)[last + j - 1]

Untouched(k) ==
  \A n \in 1 .. last - 1 : n < LineEnd(request.line) \/ n >= From(request, k) => buffer[n] = Text(request)[n]

(* The line is good, and the pointers to its parts are right.              *)
LineRead(l, c) ==
  /\ GoodLine(l)
  /\ c.request_start = MethodAt(l) /\ c.uri_start = UriAt(l) /\ c.uri_end = UriEnd(l)
  /\ c.http_protocol = ProtoAt(l) /\ c.request_end = EolAt(l)

(* The parser of header lines, after k of them.                            *)
HeadersPlace(q, k, c, hs, j, st, at) ==
  \/ k < Len(q.lines) /\ HeaderPlace(q.lines[k + 1], From(q, k), c, hs, j, st, at)
  \/ /\ k = Len(q.lines)
     /\ \/ st = "start" /\ at = From(q, k)
        \/ st = "header_almost_done" /\ at = From(q, k) + 1 /\ Len(q.end) = 2 /\ q.end[1] = "cr"

(* The value v is at key, ends with a NUL, and is behind what is parsed.   *)
KeyRead(key, v, upto) ==
  /\ key \in 1 .. End /\ v \in Seq(Cell) /\ key + Len(v) < upto /\ upto <= last
  /\ \A m \in 1 .. Len(v) : v[m] # "nul" /\ buffer[key + m - 1] = v[m]
  /\ buffer[key + Len(v)] = "nul"

(* What the headers that were read mean.                                   *)
HeadersRead(k, upgrade, key) ==
  /\ headers = HeadersOf(request.lines)[k]
  /\ \A j \in 1 .. k : GoodHeader(request.lines[j])
  /\ ~overread => (upgrade <=> Upgrades(headers) # {})
  /\ (key # 0) <=> (Keys(headers) # {})
  /\ key # 0 => KeyRead(key, headers[Max(Keys(headers))].value, From(request, k))

Reached(k, c, hs, j, st, at) ==
  /\ at <= last
  /\ handler = "line" => k = 0 /\ c.request_end = 0 /\ LinePlace(request.line, c, st, at)
  /\ handler = "headers" => HeadersPlace(request, k, c, hs, j, st, at)

Understood(k) ==
  /\ Arrived /\ Untouched(k) /\ HeadersRead(k, r.upgrade, r.key)
  /\ handler = "headers" => LineRead(request.line, r) /\ LineEnd(request.line) <= last
  /\ pc = "read" => pos <= End /\ Reached(k, r, r.header_hash, r.lowcase_index, r.state, pos)
  /\ pc = "parse" => Reached(k, r, hash, i, state, p)
  /\ pc = "entry" =>
       /\ pos <= last /\ handler = "headers" /\ r.state = "start" /\ k < Len(request.lines)
       /\ HeaderRead(request.lines[k + 1], From(request, k), r, r.header_hash, r.lowcase_index, pos - 1)
  /\ pc # "done" => answer.status = "none"
  /\ answer.status = "101" => k = Len(request.lines)

ParseInv == ~cut => AnswerIsTheRequests /\ \E k \in 0 .. Len(request.lines) : Understood(k)

(* While a cell is read it is one of the text, where it is untouched.      *)
LEMMA CellRead ==
  ASSUME TypeOK, NEW k, Untouched(k), p < last, p < LineEnd(request.line) \/ p >= From(request, k)
  PROVE  buffer[p] = Text(request)[p] /\ Text(request)[p] \in Cell /\ p \in Nat /\ p + 1 <= last /\ p \in 1 .. End
<1>1. p \in 1 .. End /\ buffer[p] \in Cell
  BY Place
<1>2. p \in 1 .. last - 1 /\ p + 1 <= last
  BY HttpAssumption DEF TypeOK
<1> QED BY <1>1, <1>2 DEF Untouched

(* The parser goes on: what the handlers keep is left alone.               *)
LEMMA GoesOn ==
  ASSUME TypeOK, NEW k, Understood(k), pc = "parse", UNCHANGED clientVars, UNCHANGED bufferVars,
         UNCHANGED <<headers, handler, pc, answer, overread>>,
         r'.upgrade = r.upgrade, r'.key = r.key, handler = "headers" => LineRead(request.line, r'),
         Reached(k, r, hash, i, state, p)'
  PROVE  Understood(k)'
<1>1. Arrived'
  BY DEF Understood, Arrived, clientVars, bufferVars
<1>2. Untouched(k)'
  BY DEF Understood, Untouched, clientVars, bufferVars
<1>3. HeadersRead(k, r.upgrade, r.key)'
  BY DEF Understood, HeadersRead, KeyRead, clientVars, bufferVars
<1>4. handler' = "headers" => LineRead(request.line, r)' /\ (LineEnd(request.line) <= last)'
  BY DEF Understood, LineRead, clientVars, bufferVars
<1>5. answer'.status = "none" /\ pc' = "parse"
  BY DEF Understood
<1> QED BY <1>1, <1>2, <1>3, <1>4, <1>5 DEF Understood

(* A request that is not answered, or whose client has gone, was not       *)
(* answered wrongly.                                                       *)
LEMMA NotAnswered ==
  ASSUME answer'.status \in {"none", "gone"}
  PROVE  AnswerIsTheRequests'
BY DEF AnswerIsTheRequests

(* A request that is not for a websocket may be refused.                   *)
LEMMA Refused ==
  ASSUME TypeOK, NEW k, Understood(k), Refuse, ~ForWebsocket(request), UNCHANGED clientVars, UNCHANGED historyVars
  PROVE  Understood(k)' /\ AnswerIsTheRequests'
<1>1. /\ answer' = [status |-> "403", key |-> <<>>] /\ pc' = "done" /\ UNCHANGED bufferVars
      /\ UNCHANGED <<r, headers, handler, overread, request, stream>>
  BY DEF Refuse, Finish, clientVars, historyVars
<1>2. AnswerIsTheRequests'
  BY <1>1 DEF AnswerIsTheRequests
<1>3. Arrived' /\ Untouched(k)' /\ HeadersRead(k, r.upgrade, r.key)'
  BY <1>1 DEF Understood, Arrived, Untouched, HeadersRead, KeyRead, bufferVars
<1>4. handler' = "headers" => LineRead(request.line, r)' /\ (LineEnd(request.line) <= last)'
  BY <1>1 DEF Understood, LineRead, bufferVars
<1> QED BY <1>1, <1>2, <1>3, <1>4 DEF Understood

-------------------------------------------------------------------------------
(* The steps of the parser of the line.                                    *)

InLine(k) ==
  /\ TypeOK /\ IsClear(request) /\ k \in 0 .. Len(request.lines) /\ Understood(k)
  /\ pc = "parse" /\ handler = "line" /\ p < last
  /\ UNCHANGED clientVars /\ UNCHANGED overread

(* A place in the line is before its end.                                  *)
LEMMA LineBounds ==
  ASSUME NEW l, LineIsClear(l), NEW c, NEW st, NEW at \in Nat, LinePlace(l, c, st, at)
  PROVE  at < LineEnd(l)
<1>1. /\ MethodAt(l) \in Nat \ {0} /\ MethodEnd(l) \in Nat /\ UriAt(l) \in Nat /\ UriEnd(l) \in Nat /\ ProtoAt(l) \in Nat
      /\ MethodAt(l) < MethodEnd(l) /\ MethodEnd(l) <= UriAt(l) /\ UriAt(l) < UriEnd(l) /\ UriEnd(l) <= ProtoAt(l)
      /\ EolAt(l) \in Nat /\ LineEnd(l) \in Nat /\ EolAt(l) < LineEnd(l) /\ ProtoAt(l) <= EolAt(l)
  BY LineOffsets
<1>2. ASSUME l.proto # <<>>
      PROVE  /\ MajorAt(l) \in Nat /\ DotAt(l) \in Nat /\ MinorAt(l) \in Nat /\ MinorEnd(l) \in Nat
             /\ MajorAt(l) = ProtoAt(l) + 5 /\ DotAt(l) = MajorAt(l) + Len(l.major) /\ Len(l.major) \in Nat
             /\ MinorAt(l) = DotAt(l) + 1 /\ MajorAt(l) <= DotAt(l) /\ MinorAt(l) <= MinorEnd(l) /\ MinorEnd(l) <= EolAt(l)
  BY <1>2, LineOffsets, LineTexts, LenProperties
<1>3. LineEnd(l) = EolAt(l) + Len(l.eol)
  BY LineOffsets
<1>4. at <= UriAt(l) \/ at <= ProtoAt(l) => at < LineEnd(l)
  BY <1>1
<1>5. CASE st = "start" \/ st = "method" \/ st = "spaces_before_uri"
  <2>1. at <= UriAt(l)
    BY <1>1, <1>5 DEF LinePlace
  <2> QED BY <1>4, <2>1
<1>6. CASE st = "after_slash_in_uri" \/ st = "check_uri_http_09"
  <2>1. at <= ProtoAt(l)
    BY <1>1, <1>6 DEF LinePlace
  <2> QED BY <1>4, <2>1
<1>7. CASE st \in {"http_H", "http_HT", "http_HTT", "http_HTTP"}
  <2>1. l.proto # <<>> /\ \E n \in 1 .. 4 : at = ProtoAt(l) + n
    BY <1>7 DEF LinePlace, InName
  <2>2. at < MajorAt(l)
    BY <1>1, <1>2, <2>1, SMTT(20)
  <2>3. MajorAt(l) <= EolAt(l)
    BY <1>1, <1>2, <2>1, SMTT(20)
  <2> QED BY <1>1, <1>2, <2>1, <2>2, <2>3
<1>8. CASE st \in {"first_major_digit", "first_minor_digit"}
  <2>1. l.proto # <<>> /\ (at = MajorAt(l) \/ at = MinorAt(l))
    BY <1>8 DEF LinePlace, ProtoRead, MajorRead
  <2> QED BY <1>1, <1>2, <2>1
<1>9. CASE st = "major_digit"
  <2>0. ProtoRead(l, c) /\ at = MajorAt(l) + 1
    BY <1>9 DEF LinePlace
  <2>1. l.proto # <<>>
    BY <2>0 DEF ProtoRead
  <2> QED BY <1>1, <1>2, <2>0, <2>1, SMTT(20)
<1>10. CASE st \in {"minor_digit", "spaces_after_digit"}
  <2>1. l.proto # <<>> /\ (at \in MinorAt(l) + 1 .. MinorEnd(l) \/ at \in MinorEnd(l) + 1 .. EolAt(l))
    BY <1>10 DEF LinePlace, MinorRead, ProtoRead, MajorRead
  <2> QED BY <1>1, <1>2, <2>1
<1>11. CASE st = "almost_done"
  <2>1. at = EolAt(l) + 1 /\ Len(l.eol) = 2
    BY <1>11 DEF LinePlace
  <2> QED BY <1>1, <1>3, <2>1
<1>12. \/ st = "start" \/ st = "method" \/ st = "spaces_before_uri"
       \/ st = "after_slash_in_uri" \/ st = "check_uri_http_09"
       \/ st \in {"http_H", "http_HT", "http_HTT", "http_HTTP"}
       \/ st \in {"first_major_digit", "first_minor_digit"} \/ st = "major_digit"
       \/ st \in {"minor_digit", "spaces_after_digit"} \/ st = "almost_done"
  BY DEF LinePlace
<1> QED BY <1>5, <1>6, <1>7, <1>8, <1>9, <1>10, <1>11, <1>12

(* What is known while the parser of the line reads a cell.                *)
LEMMA LineFacts ==
  ASSUME NEW k, InLine(k)
  PROVE  /\ k = 0 /\ LineIsClear(request.line) /\ LineIn(request.line, Text(request)) /\ r.request_end = 0
         /\ LinePlace(request.line, r, state, p) /\ r \in RequestType /\ p < LineEnd(request.line)
         /\ buffer[p] = Text(request)[p] /\ Text(request)[p] \in Cell /\ p \in Nat /\ p + 1 <= last /\ p \in 1 .. End
<1>1. k = 0 /\ r.request_end = 0 /\ LinePlace(request.line, r, state, p) /\ Untouched(k)
  BY DEF InLine, Understood, Reached
<1>2. LineIsClear(request.line) /\ LineIn(request.line, Text(request)) /\ LineEnd(request.line) \in Nat
      /\ From(request, 0) = LineEnd(request.line)
  BY TextLayout DEF IsClear, InLine
<1>3. p \in 1 .. End
  BY Place DEF InLine
<1>4. p < LineEnd(request.line)
  BY <1>1, <1>2, <1>3, LineBounds
<1>5. r \in RequestType
  BY DEF InLine, TypeOK
<1> QED BY <1>1, <1>2, <1>4, <1>5, CellRead DEF InLine

(* A step within the line.                                                 *)
LEMMA LineGoesOn ==
  ASSUME NEW k, InLine(k), NEW st, NEW c, Step(st, c), c.request_end = 0, c.upgrade = r.upgrade, c.key = r.key,
         LinePlace(request.line, c, st, p + 1)
  PROVE  Understood(k)' /\ AnswerIsTheRequests'
<1>1. /\ state' = st /\ r' = c /\ p' = p + 1 /\ UNCHANGED bufferVars
      /\ UNCHANGED <<hash, i, headers, handler, pc, answer, overread>> /\ UNCHANGED clientVars
  BY DEF InLine, Step
<1>2. Reached(k, r, hash, i, state, p)'
  <2>1. k = 0 /\ p + 1 <= last /\ handler = "line"
    BY LineFacts DEF InLine
  <2> QED BY <1>1, <2>1 DEF Reached, clientVars, bufferVars
<1>3. Understood(k)'
  <2>1. TypeOK /\ Understood(k) /\ pc = "parse" /\ handler # "headers"
    BY DEF InLine
  <2> QED BY <1>1, <1>2, <2>1, GoesOn
<1>4. answer'.status = "none"
  BY <1>1 DEF InLine, Understood
<1> QED BY <1>3, <1>4, NotAnswered

(* A line that is not good is refused.                                     *)
LEMMA LineRefused ==
  ASSUME NEW k, InLine(k), UNCHANGED cut, Refuse, ~GoodLine(request.line)
  PROVE  Understood(k)' /\ AnswerIsTheRequests'
<1>1. ~ForWebsocket(request)
  BY DEF ForWebsocket
<1> QED BY <1>1, Refused DEF InLine, historyVars

-------------------------------------------------------------------------------
(* How far the text goes.                                                  *)
LEMMA Ends ==
  ASSUME NEW q, IsClear(q)
  PROVE  /\ Len(q.lines) \in Nat /\ Len(Text(q)) \in Nat /\ Len(q.end) \in Nat
         /\ From(q, Len(q.lines)) + Len(q.end) = 1 + Len(Text(q))
         /\ \A k \in 0 .. Len(q.lines) - 1 : From(q, k) < From(q, k + 1)
         /\ \A k \in 0 .. Len(q.lines) : From(q, k) <= From(q, Len(q.lines))
         /\ LineEnd(q.line) = 1 + Len(LineText(q.line)) /\ Len(LineText(q.line)) \in Nat
         /\ Complete(q) => From(q, Len(q.lines)) < 1 + Len(Text(q)) /\ LineEnd(q.line) < 1 + Len(Text(q))
<1> DEFINE top == Len(q.lines)
<1>1. top \in Nat /\ Len(q.end) \in Nat /\ LineIsClear(q.line) /\ \A j \in 1 .. top : HeaderIsClear(q.lines[j])
  BY LenProperties DEF IsClear
<1>2. /\ \A k \in 0 .. top : From(q, k) \in Nat /\ LineEnd(q.line) <= From(q, k)
      /\ \A k \in 0 .. top - 1 : From(q, k + 1) = HeaderEnd(q.lines[k + 1], From(q, k))
      /\ Spans(Text(q), From(q, top), 1 + Len(Text(q)), q.end) /\ Text(q) \in Seq(Cell) /\ LineEnd(q.line) \in Nat
  BY TextLayout
<1> HIDE DEF top
<1>3. Len(Text(q)) \in Nat /\ From(q, top) + Len(q.end) = 1 + Len(Text(q))
  BY <1>2, LenProperties DEF Spans
<1>4. ASSUME NEW k \in 0 .. top - 1 PROVE From(q, k) < From(q, k + 1)
  <2>1. k \in 0 .. top /\ k + 1 \in 1 .. top /\ k + 1 \in 0 .. top
    BY <1>1
  <2>2. From(q, k) \in Nat /\ HeaderIsClear(q.lines[k + 1]) /\ From(q, k + 1) = HeaderEnd(q.lines[k + 1], From(q, k))
    BY <1>1, <1>2, <2>1
  <2> PICK h : h = q.lines[k + 1]
    OBVIOUS
  <2> PICK s \in Nat : s = From(q, k)
    BY <2>2
  <2>3. /\ s < NameEnd(h, s) /\ NameEnd(h, s) <= ValueAt(h, s) /\ ValueAt(h, s) <= ValueEnd(h, s)
        /\ ValueEnd(h, s) <= HeaderEol(h, s) /\ HeaderEol(h, s) < HeaderEnd(h, s)
        /\ NameEnd(h, s) \in Nat /\ ValueAt(h, s) \in Nat /\ ValueEnd(h, s) \in Nat /\ HeaderEol(h, s) \in Nat
        /\ HeaderEnd(h, s) \in Nat
    BY <2>2, HeaderOffsets
  <2>4. s < HeaderEnd(h, s)
    BY <2>3
  <2> QED BY <2>2, <2>4
<1>5. ASSUME NEW k \in 0 .. top PROVE From(q, k) <= From(q, top)
  <2> DEFINE S == {m \in Nat : k + m <= top => From(q, k) <= From(q, k + m)}
  <2>1. 0 \in S
    <3>1. k + 0 = k /\ From(q, k) \in Nat
      BY <1>1, <1>2
    <3> QED BY <3>1
  <2>2. ASSUME NEW m \in 0 .. top - k - 1, m \in S PROVE m + 1 \in S
    <3>1. k + m \in 0 .. top - 1 /\ k + (m + 1) = (k + m) + 1 /\ k + m \in 0 .. top /\ (k + m) + 1 \in 0 .. top /\ k + m <= top
      BY <1>1
    <3>2. From(q, k) <= From(q, k + m) /\ From(q, k + m) < From(q, (k + m) + 1)
      BY <1>4, <2>2, <3>1
    <3>3. From(q, k) \in Nat /\ From(q, k + m) \in Nat /\ From(q, (k + m) + 1) \in Nat
      BY <1>2, <3>1
    <3>4. From(q, k) <= From(q, (k + m) + 1)
      BY <3>2, <3>3
    <3> QED BY <3>1, <3>4
  <2>3. top - k \in Nat /\ top - k \in 0 .. top - k /\ k + (top - k) = top
    BY <1>1
  <2> HIDE DEF S
  <2>4. \A n \in 0 .. top - k : n \in S
    BY <2>1, <2>2, <2>3, Steps
  <2>5. top - k \in S
    BY <2>3, <2>4
  <2> QED BY <2>3, <2>5 DEF S
<1>6. LineEnd(q.line) = 1 + Len(LineText(q.line)) /\ Len(LineText(q.line)) \in Nat
  <2> DEFINE t == LineText(q.line)
  <2>1. Len(t) \in Nat
    BY <1>1, LineTextIs, LenProperties
  <2>2. \A n \in 1 .. (1 + Len(t)) - 1 : t[n] = t[n - 1 + 1]
    BY <2>1
  <2>3. Spans(t, 1, 1 + Len(t), LineText(q.line))
    BY <2>2 DEF Spans
  <2> HIDE DEF t
  <2>4. 1 + Len(t) = LineEnd(q.line)
    BY <1>1, <2>3, LineLayout
  <2> QED BY <2>1, <2>4 DEF t
<1>7. Complete(q) => From(q, top) < 1 + Len(Text(q)) /\ LineEnd(q.line) < 1 + Len(Text(q))
  <2>1. SUFFICES ASSUME Complete(q) PROVE From(q, top) < 1 + Len(Text(q)) /\ LineEnd(q.line) < 1 + Len(Text(q))
    OBVIOUS
  <2>2. Len(q.end) > 0
    <3>1. CASE q.end = <<"cr", "lf">>
      BY ONLY <3>1
    <3>2. CASE q.end = <<"lf">>
      BY ONLY <3>2
    <3> QED BY <2>1, <3>1, <3>2 DEF Complete
  <2>3. From(q, top) \in Nat /\ LineEnd(q.line) <= From(q, top) /\ LineEnd(q.line) \in Nat
    BY <1>1, <1>2
  <2> QED BY <1>1, <1>3, <2>2, <2>3
<1> QED BY <1>1, <1>3, <1>4, <1>5, <1>6, <1>7 DEF top

(* The end of the line.                                                    *)
LEMMA LineDoneKept ==
  ASSUME NEW k, InLine(k), UNCHANGED cut, NEW c \in RequestType, LineDone(c), c.upgrade = r.upgrade, c.key = r.key,
         IF c.request_end = 0 THEN p = EolAt(request.line) ELSE c.request_end = EolAt(request.line),
         \/ c.http_major = 0 /\ ~GoodLine(request.line)
         \/ MinorRead(request.line, c) /\ request.line.eol \in {<<"cr", "lf">>, <<"lf">>} /\ p + 1 = LineEnd(request.line)
  PROVE  Understood(k)' /\ AnswerIsTheRequests'
<1> DEFINE l == request.line
<1>1. /\ k = 0 /\ LineIsClear(l) /\ LineIn(l, Text(request)) /\ p < LineEnd(l) /\ p \in Nat /\ p + 1 <= last /\ p \in 1 .. End
  BY LineFacts
<1>2. EolAt(l) \in Nat /\ EolAt(l) > 0 /\ LineEnd(l) \in Nat
  <2>1. MethodAt(l) \in Nat \ {0} /\ MethodEnd(l) \in Nat /\ UriAt(l) \in Nat /\ UriEnd(l) \in Nat /\ ProtoAt(l) \in Nat
        /\ MethodAt(l) < MethodEnd(l) /\ MethodEnd(l) <= UriAt(l) /\ UriAt(l) < UriEnd(l) /\ UriEnd(l) <= ProtoAt(l)
        /\ EolAt(l) \in Nat /\ ProtoAt(l) <= EolAt(l) /\ LineEnd(l) \in Nat
    BY <1>1, LineOffsets
  <2> QED BY <2>1
<1>3. CASE c.http_major = 0 /\ ~GoodLine(l)
  <2>1. c.http_minor \in 0 .. 999
    BY DEF RequestType
  <2>2. 1000 * c.http_major + c.http_minor < 1001
    BY <1>3, <2>1
  <2>3. Refuse
    BY <2>2 DEF LineDone
  <2> QED BY <1>3, <2>3, LineRefused
<1>4. CASE MinorRead(l, c) /\ l.eol \in {<<"cr", "lf">>, <<"lf">>} /\ p + 1 = LineEnd(l)
  <2>1. /\ c.http_major = 1 /\ c.http_minor = Number(l.minor) /\ c.method /\ c.http_minor \in 0 .. 999
        /\ l.method = Get /\ c.request_start = MethodAt(l) /\ l.uri[1] = "/" /\ (\A j \in 1 .. Len(l.uri) : l.uri[j] # "nul")
        /\ c.uri_start = UriAt(l) /\ c.uri_end = UriEnd(l) /\ l.proto = <<"H", "T", "T", "P", "/">>
        /\ c.http_protocol = ProtoAt(l) /\ l.major = <<"1">> /\ l.minor # <<>>
        /\ \A j \in 1 .. Len(l.minor) : IsDigit(l.minor[j])
    BY <1>4, ZenonT(30) DEF MinorRead, MajorRead, ProtoRead, UriRead, MethodRead, RequestType
  <2>2. CASE c.http_minor = 0
    <3>1. ~GoodLine(l)
      BY <2>1, <2>2 DEF GoodLine
    <3>2. Refuse
      BY <2>1, <2>2 DEF LineDone
    <3> QED BY <3>1, <3>2, LineRefused
  <2>3. CASE p = End
    <3>1. Refuse
      BY <2>3 DEF LineDone
    <3>2. ASSUME ForWebsocket(request) PROVE FALSE
      <4>1. LineEnd(l) < 1 + Len(Text(request)) /\ Len(Text(request)) \in Nat /\ Len(Text(request)) <= End
        BY <3>2, Ends DEF ForWebsocket, InLine
      <4> QED BY <1>2, <1>4, <2>3, <4>1, HttpAssumption
    <3> QED BY <3>1, <3>2, Refused DEF InLine, historyVars
  <2>4. CASE c.http_minor # 0 /\ p # End
    <3> DEFINE end == IF c.request_end = 0 THEN p ELSE c.request_end
               done == [c EXCEPT !.request_end = end, !.state = "start"]
    <3>1. end = EolAt(l)
      OBVIOUS
    <3>2. ~(1000 * c.http_major + c.http_minor < 1001)
      <4>1. \A m \in 0 .. 999 : m # 0 => ~(1000 * 1 + m < 1001)
        OBVIOUS
      <4>2. c.http_minor \in 0 .. 999 /\ c.http_minor # 0 /\ c.http_major = 1
        BY <2>1, <2>4, Zenon
      <4> QED BY <4>1, <4>2
    <3>3. /\ r' = done /\ pos' = p + 1 /\ handler' = "headers" /\ pc' = "read"
          /\ UNCHANGED <<buffer, last, parserVars, headers, answer>>
      BY <2>1, <2>4, <3>2, ZenonT(30) DEF LineDone
    <3>4. LineRead(l, done)
      <4>1. GoodLine(l)
        <5>1. "nul" \notin Characters(l.uri)
          BY <2>1 DEF Characters
        <5>2. Number(l.minor) \in 1 .. 999
          <6> DEFINE minor == Number(l.minor)
          <6>1. minor \in 0 .. 999 /\ minor # 0
            BY <2>1, <2>4, ZenonT(30)
          <6>2. minor \in 1 .. 999
            <7> HIDE DEF minor
            <7> QED BY ONLY <6>1
          <6> QED BY <6>2
        <5> QED BY <1>4, <2>1, <5>1, <5>2, ZenonT(30) DEF GoodLine
      <4>2. /\ done.request_start = c.request_start /\ done.uri_start = c.uri_start /\ done.uri_end = c.uri_end
            /\ done.http_protocol = c.http_protocol /\ done.request_end = end
        BY DEF RequestType
      <4> HIDE DEF done, end
      <4> QED BY <2>1, <3>1, <4>1, <4>2 DEF LineRead
    <3>5. done.state = "start" /\ done.upgrade = r.upgrade /\ done.key = r.key
      BY DEF RequestType
    <3> HIDE DEF done, end
    <3>6. From(request, k) = p + 1 /\ (k < Len(request.lines) \/ k = Len(request.lines))
      <4>1. Len(request.lines) \in Nat /\ From(request, 0) = LineEnd(l)
        BY Ends, TextLayout DEF InLine
      <4> QED BY <1>1, <1>4, <4>1
    <3>7. Arrived' /\ Untouched(k)' /\ HeadersRead(k, r.upgrade, r.key)'
      BY <3>3, <3>5 DEF InLine, Understood, Arrived, Untouched, HeadersRead, KeyRead, clientVars
    <3>8. HeadersPlace(request, k, r, r.header_hash, r.lowcase_index, r.state, pos)'
      <4>1. HeadersPlace(request, k, done, done.header_hash, done.lowcase_index, "start", p + 1)
        BY <3>6 DEF HeadersPlace, HeaderPlace
      <4> QED BY <3>3, <3>5, <4>1 DEF InLine, clientVars
    <3>9. pos' <= last' /\ pos' <= End /\ LineEnd(l) <= last' /\ request' = request /\ answer'.status = "none"
      BY <1>1, <1>4, <2>4, <3>3, HttpAssumption DEF InLine, Understood, clientVars
    <3>10. Reached(k, r, r.header_hash, r.lowcase_index, r.state, pos)'
      BY <3>3, <3>8, <3>9 DEF Reached
    <3>11. Understood(k)'
      BY <3>3, <3>4, <3>7, <3>9, <3>10 DEF Understood
    <3> QED BY <3>9, <3>11, NotAnswered
  <2> QED BY <2>2, <2>3, <2>4
<1> QED BY <1>3, <1>4

(* The parser of the line compares the method, ...                         *)
LEMMA MethodKept ==
  ASSUME NEW k, InLine(k), Method, ~cut'
  PROVE  Understood(k)' /\ AnswerIsTheRequests'
<1> DEFINE l == request.line
           t == Text(request)
           read == SubSeq(buffer, r.request_start, last - 1)
<1>1. /\ k = 0 /\ LineIsClear(l) /\ LineIn(l, t) /\ LinePlace(l, r, state, p) /\ r \in RequestType /\ p \in Nat
      /\ p + 1 <= last /\ r.request_end = 0
  BY LineFacts
<1>2. state = "method" /\ ~Shorter(read, Get)
  BY DEF Method
<1>3. /\ r.request_start = MethodAt(l) /\ MethodEnd(l) = MethodAt(l) + 4 /\ p = MethodAt(l) + 1
      /\ \A j \in 1 .. 4 : t[MethodAt(l) + j - 1] = l.method[j]
      /\ (\A j \in 1 .. 4 : l.method[j] = Get[j]) => LinePlace(l, [r EXCEPT !.method = TRUE], "spaces_before_uri", p + 2)
      /\ (\E j \in 1 .. 4 : l.method[j] # Get[j]) => ~GoodLine(l)
  BY <1>1, <1>2, AfterMethod
<1>4. MethodAt(l) \in Nat \ {0} /\ MethodEnd(l) < LineEnd(l) /\ LineEnd(l) \in Nat
  <2>1. MethodAt(l) \in Nat \ {0} /\ MethodEnd(l) \in Nat /\ UriAt(l) \in Nat /\ UriEnd(l) \in Nat /\ ProtoAt(l) \in Nat
        /\ MethodAt(l) < MethodEnd(l) /\ MethodEnd(l) <= UriAt(l) /\ UriAt(l) < UriEnd(l) /\ UriEnd(l) <= ProtoAt(l)
        /\ EolAt(l) \in Nat /\ ProtoAt(l) <= EolAt(l) /\ LineEnd(l) \in Nat /\ EolAt(l) < LineEnd(l)
    BY <1>1, LineOffsets
  <2> QED BY <2>1
<1>5. /\ Len(read) \in Nat /\ Len(read) >= 4 /\ MethodAt(l) + 4 <= last
      /\ \A j \in 1 .. 4 : read[j] = buffer[MethodAt(l) + j - 1]
  <2>1. Len(Get) = 4
    BY DEF Get
  <2>2. buffer \in [1 .. End -> Cell] /\ last \in 1 .. End + 1
    BY DEF InLine, TypeOK
  <2> PICK f \in Nat \ {0} : f = MethodAt(l)
    BY <1>4
  <2>3. last - 1 \in Int /\ \A n \in f .. last - 1 : buffer[n] \in Cell
    BY <2>2, HttpAssumption
  <2>4. read = SubSeq(buffer, f, last - 1)
    BY <1>3
  <2> HIDE DEF read
  <2>5. /\ Len(read) = IF f <= last - 1 THEN last - 1 - f + 1 ELSE 0
        /\ \A n \in 1 .. last - 1 - f + 1 : read[n] = buffer[f + n - 1]
    BY <2>3, <2>4, SubSeqProperties
  <2>6. ~(Len(read) < 4)
    BY <1>2, <2>1 DEF Shorter, read
  <2>7. f + 4 <= last /\ Len(read) \in Nat /\ Len(read) >= 4
    BY <2>2, <2>5, <2>6, HttpAssumption
  <2>8. \A j \in 1 .. 4 : j \in 1 .. last - 1 - f + 1
    BY <2>2, <2>7, HttpAssumption
  <2> QED BY <2>5, <2>7, <2>8
<1> HIDE DEF read
<1>6. \A j \in 1 .. 4 : read[j] = l.method[j]
  <2>1. Untouched(k)
    BY DEF InLine, Understood
  <2>2. \A j \in 1 .. 4 : MethodAt(l) + j - 1 \in 1 .. last - 1 /\ MethodAt(l) + j - 1 < LineEnd(l)
    <3>1. last \in Int
      BY HttpAssumption DEF InLine, TypeOK
    <3>2. \A u \in Nat \ {0}, v \in Nat : u + 4 < v /\ u + 4 <= last => \A j \in 1 .. 4 : u + j - 1 \in 1 .. last - 1 /\ u + j - 1 < v
      BY <3>1
    <3>3. MethodAt(l) + 4 < LineEnd(l)
      BY <1>3, <1>4
    <3> QED BY <1>4, <1>5, <3>2, <3>3
  <2>3. \A j \in 1 .. 4 : buffer[MethodAt(l) + j - 1] = t[MethodAt(l) + j - 1]
    BY <2>1, <2>2 DEF Untouched
  <2> QED BY <1>3, <1>5, <2>3
<1>7. StartsLike(read, Get) <=> \A j \in 1 .. 4 : l.method[j] = Get[j]
  <2>1. Len(Get) = 4 /\ \A j \in 1 .. 4 : j <= Len(read)
    BY <1>5 DEF Get
  <2> QED BY <1>6, <2>1 DEF StartsLike
<1>8. CASE StartsLike(read, Get) /\ state' = "spaces_before_uri" /\ r' = [r EXCEPT !.method = TRUE] /\ p' = p + 2
           /\ UNCHANGED <<bufferVars, hash, i, headers, handler, pc, answer>>
  <2> PICK c : c = [r EXCEPT !.method = TRUE]
    OBVIOUS
  <2>1. c.request_end = 0 /\ c.upgrade = r.upgrade /\ c.key = r.key
    BY <1>1 DEF RequestType
  <2>2. LinePlace(l, c, "spaces_before_uri", p + 2)
    BY <1>3, <1>7, <1>8
  <2>3. p + 2 <= last /\ handler = "line" /\ TypeOK /\ Understood(k) /\ pc = "parse" /\ handler # "headers"
        /\ UNCHANGED clientVars /\ overread' = overread /\ answer.status = "none"
    <3>1. last \in Int
      BY HttpAssumption DEF InLine, TypeOK
    <3>2. p + 2 <= last
      BY <1>1, <1>3, <1>4, <1>5, <3>1
    <3> QED BY <3>2 DEF InLine, Understood
  <2>4. Reached(k, r, hash, i, state, p)'
    BY <1>1, <1>8, <2>1, <2>2, <2>3 DEF Reached, clientVars, bufferVars
  <2>5. Understood(k)'
    BY <1>8, <2>1, <2>3, <2>4, GoesOn
  <2> QED BY <1>8, <2>3, <2>5, NotAnswered
<1>9. CASE ~StartsLike(read, Get) /\ Refuse
  <2>1. ~GoodLine(l)
    BY <1>3, <1>7, <1>9
  <2>2. ~ForWebsocket(request)
    BY <2>1 DEF ForWebsocket
  <2>3. UNCHANGED historyVars
    <3>1. cut' = (cut \/ Shorter(read, Get)) /\ overread' = overread
      BY DEF Method, InLine, read
    <3>2. cut \in BOOLEAN
      BY DEF InLine, TypeOK
    <3>3. cut' = cut
      BY <1>2, <3>1, <3>2, Zenon
    <3> QED BY <3>1, <3>3 DEF historyVars
  <2> QED BY <1>9, <2>2, <2>3, Refused DEF InLine
<1> QED BY <1>2, <1>8, <1>9 DEF Method, read

(* ... looks for the start of the line, ...                                *)
LEMMA LineStartKept ==
  ASSUME NEW k, InLine(k), UNCHANGED cut, LineStart(buffer[p])
  PROVE  Understood(k)' /\ AnswerIsTheRequests'
<1> DEFINE l == request.line
           ch == Text(request)[p]
           c == [r EXCEPT !.request_start = p]
<1>1. LineIsClear(l) /\ LineIn(l, Text(request)) /\ LinePlace(l, r, state, p) /\ r \in RequestType /\ p \in Nat /\ buffer[p] = ch
      /\ r.request_end = 0
  BY LineFacts
<1>2. state = "start"
  BY DEF LineStart
<1>3. /\ ch \in {"cr", "lf"} => LinePlace(l, c, "start", p + 1)
      /\ ch = "G" => LinePlace(l, c, "method", p + 1)
      /\ ch \notin {"cr", "lf", "G"} => ~GoodLine(l)
  BY <1>1, <1>2, AfterStart
<1>4. c.request_end = 0 /\ c.upgrade = r.upgrade /\ c.key = r.key
  BY <1>1 DEF RequestType
<1>5. \/ ch \in {"cr", "lf"} /\ Step("start", c)
      \/ ch = "G" /\ Step("method", c)
      \/ ch \notin {"cr", "lf", "G"} /\ Refuse
  BY <1>1 DEF LineStart
<1> HIDE DEF c
<1> QED BY <1>3, <1>4, <1>5, LineGoesOn, LineRefused

(* ... skips the spaces before the uri, ...                                *)
LEMMA SpacesBeforeUriKept ==
  ASSUME NEW k, InLine(k), UNCHANGED cut, SpacesBeforeUri(buffer[p])
  PROVE  Understood(k)' /\ AnswerIsTheRequests'
<1> DEFINE l == request.line
           ch == Text(request)[p]
           c == [r EXCEPT !.uri_start = p]
<1>1. LineIsClear(l) /\ LineIn(l, Text(request)) /\ LinePlace(l, r, state, p) /\ r \in RequestType /\ p \in Nat /\ buffer[p] = ch
      /\ r.request_end = 0
  BY LineFacts
<1>2. state = "spaces_before_uri"
  BY DEF SpacesBeforeUri
<1>3. /\ ch = "sp" => LinePlace(l, r, "spaces_before_uri", p + 1)
      /\ ch = "/" => LinePlace(l, c, "after_slash_in_uri", p + 1)
      /\ ch \notin {"/", "sp"} => ~GoodLine(l)
  BY <1>1, <1>2, AfterSpacesBeforeUri
<1>4. c.request_end = 0 /\ c.upgrade = r.upgrade /\ c.key = r.key
  BY <1>1 DEF RequestType
<1>5. \/ ch = "/" /\ Step("after_slash_in_uri", c)
      \/ ch = "sp" /\ Step("spaces_before_uri", r)
      \/ ch \notin {"/", "sp"} /\ Refuse
  BY <1>1, <1>2 DEF SpacesBeforeUri
<1> HIDE DEF c
<1> QED BY <1>1, <1>3, <1>4, <1>5, LineGoesOn, LineRefused

(* A line without a protocol ends: it is refused.                          *)
LEMMA ShortLineDone ==
  ASSUME NEW k, InLine(k), UNCHANGED cut, NEW c \in RequestType, LineDone(c), c.http_major = 0, ~GoodLine(request.line)
  PROVE  Understood(k)' /\ AnswerIsTheRequests'
<1>1. c.http_minor \in 0 .. 999
  BY DEF RequestType
<1>2. 1000 * c.http_major + c.http_minor < 1001
  BY <1>1
<1>3. Refuse
  BY <1>2 DEF LineDone
<1> QED BY <1>3, LineRefused

(* ... reads the uri, ...                                                  *)
LEMMA AfterSlashKept ==
  ASSUME NEW k, InLine(k), UNCHANGED cut, AfterSlashInUri(buffer[p])
  PROVE  Understood(k)' /\ AnswerIsTheRequests'
<1> DEFINE l == request.line
           ch == Text(request)[p]
           b == [r EXCEPT !.uri_end = p]
           c == [b EXCEPT !.http_minor = 9]
<1>1. LineIsClear(l) /\ LineIn(l, Text(request)) /\ LinePlace(l, r, state, p) /\ r \in RequestType /\ p \in Nat /\ buffer[p] = ch
      /\ r.request_end = 0 /\ p \in 1 .. End
  BY LineFacts
<1>2. state = "after_slash_in_uri"
  BY DEF AfterSlashInUri
<1>3. /\ ch = "sp" => LinePlace(l, b, "check_uri_http_09", p + 1)
      /\ ch = "cr" => LinePlace(l, c, "almost_done", p + 1)
      /\ ch = "lf" => r.http_major = 0 /\ ~GoodLine(l)
      /\ ch = "nul" => ~GoodLine(l)
      /\ ch \notin {"sp", "cr", "lf", "nul"} => LinePlace(l, r, "after_slash_in_uri", p + 1)
  BY <1>1, <1>2, AfterSlash
<1>4. /\ b.request_end = 0 /\ b.upgrade = r.upgrade /\ b.key = r.key
      /\ c.request_end = 0 /\ c.upgrade = r.upgrade /\ c.key = r.key /\ c.http_major = r.http_major
  BY <1>1 DEF RequestType
<1>5. \/ ch = "sp" /\ Step("check_uri_http_09", b)
      \/ ch = "cr" /\ Step("almost_done", c)
      \/ ch = "lf" /\ LineDone(c)
      \/ ch = "nul" /\ Refuse
      \/ ch \notin {"sp", "cr", "lf", "nul"} /\ Step("after_slash_in_uri", r)
  BY <1>1, <1>2 DEF AfterSlashInUri
<1>6. c \in RequestType
  <2>1. p \in 0 .. End
    BY <1>1
  <2>2. b \in RequestType
    BY <1>1, <2>1, SetPointer
  <2>3. 9 \in Minor
    BY DEF Minor
  <2> HIDE DEF b
  <2> QED BY <2>2, <2>3, SetMinor
<1> HIDE DEF b, c
<1>7. CASE ch = "lf" /\ LineDone(c)
  BY <1>3, <1>4, <1>6, <1>7, ShortLineDone
<1> QED BY <1>1, <1>3, <1>4, <1>5, <1>7, LineGoesOn, LineRefused

(* ... and what is behind it, ...                                          *)
LEMMA CheckUriKept ==
  ASSUME NEW k, InLine(k), UNCHANGED cut, CheckUriHttp09(buffer[p])
  PROVE  Understood(k)' /\ AnswerIsTheRequests'
<1> DEFINE l == request.line
           ch == Text(request)[p]
           b == [r EXCEPT !.http_protocol = p]
           c == [r EXCEPT !.http_minor = 9]
<1>1. LineIsClear(l) /\ LineIn(l, Text(request)) /\ LinePlace(l, r, state, p) /\ r \in RequestType /\ p \in Nat /\ buffer[p] = ch
      /\ r.request_end = 0 /\ p \in 1 .. End
  BY LineFacts
<1>2. state = "check_uri_http_09"
  BY DEF CheckUriHttp09
<1>3. /\ ch = "sp" => LinePlace(l, r, "check_uri_http_09", p + 1)
      /\ ch = "cr" => LinePlace(l, c, "almost_done", p + 1)
      /\ ch = "lf" => r.http_major = 0 /\ ~GoodLine(l)
      /\ ch = "H" => LinePlace(l, b, "http_H", p + 1)
      /\ ch \notin {"sp", "cr", "lf", "H"} => ~GoodLine(l)
  BY <1>1, <1>2, AfterUri
<1>4. /\ b.request_end = 0 /\ b.upgrade = r.upgrade /\ b.key = r.key
      /\ c.request_end = 0 /\ c.upgrade = r.upgrade /\ c.key = r.key /\ c.http_major = r.http_major
  BY <1>1 DEF RequestType
<1>5. \/ ch = "sp" /\ Step("check_uri_http_09", r)
      \/ ch = "cr" /\ Step("almost_done", c)
      \/ ch = "lf" /\ LineDone(c)
      \/ ch = "H" /\ Step("http_H", b)
      \/ ch \notin {"sp", "cr", "lf", "H"} /\ Refuse
  BY <1>1, <1>2 DEF CheckUriHttp09
<1>6. c \in RequestType
  <2>3. 9 \in Minor
    BY DEF Minor
  <2> QED BY <1>1, <2>3, SetMinor
<1> HIDE DEF b, c
<1>7. CASE ch = "lf" /\ LineDone(c)
  BY <1>3, <1>4, <1>6, <1>7, ShortLineDone
<1> QED BY <1>1, <1>3, <1>4, <1>5, <1>7, LineGoesOn, LineRefused

(* ... compares the name of the protocol, ...                              *)
LEMMA ProtocolNameKept ==
  ASSUME NEW k, InLine(k), UNCHANGED cut, ProtocolName(buffer[p])
  PROVE  Understood(k)' /\ AnswerIsTheRequests'
<1> DEFINE l == request.line
           ch == Text(request)[p]
           http == <<"H", "T", "T", "P", "/">>
           goes(n, st) == IF ch = http[n + 1] THEN Step(st, r) ELSE Refuse
<1>1. LineIsClear(l) /\ LineIn(l, Text(request)) /\ LinePlace(l, r, state, p) /\ r \in RequestType /\ p \in Nat /\ buffer[p] = ch
      /\ r.request_end = 0
  BY LineFacts
<1>2. \/ state = "http_H" /\ goes(1, "http_HT")
      \/ state = "http_HT" /\ goes(2, "http_HTT")
      \/ state = "http_HTT" /\ goes(3, "http_HTTP")
      \/ state = "http_HTTP" /\ goes(4, "first_major_digit")
  <2>1. /\ DOMAIN Protocol = {"http_H", "http_HT", "http_HTT", "http_HTTP"}
        /\ Protocol["http_H"][1] = "T" /\ Protocol["http_H"][2] = "http_HT"
        /\ Protocol["http_HT"][1] = "T" /\ Protocol["http_HT"][2] = "http_HTT"
        /\ Protocol["http_HTT"][1] = "P" /\ Protocol["http_HTT"][2] = "http_HTTP"
        /\ Protocol["http_HTTP"][1] = "/" /\ Protocol["http_HTTP"][2] = "first_major_digit"
    BY DEF Protocol
  <2>2. state \in DOMAIN Protocol /\ IF ch = Protocol[state][1] THEN Step(Protocol[state][2], r) ELSE Refuse
    BY <1>1 DEF ProtocolName
  <2>3. http[1 + 1] = "T" /\ http[2 + 1] = "T" /\ http[3 + 1] = "P" /\ http[4 + 1] = "/"
    OBVIOUS
  <2> HIDE DEF http
  <2>4. CASE state = "http_H"
    <3>1. Protocol[state][1] = http[1 + 1] /\ Protocol[state][2] = "http_HT"
      BY <2>1, <2>3, <2>4
    <3>2. goes(1, "http_HT")
      BY <2>2, <3>1
    <3> HIDE DEF goes
    <3> QED BY <2>4, <3>2
  <2>5. CASE state = "http_HT"
    <3>1. Protocol[state][1] = http[2 + 1] /\ Protocol[state][2] = "http_HTT"
      BY <2>1, <2>3, <2>5
    <3>2. goes(2, "http_HTT")
      BY <2>2, <3>1
    <3> HIDE DEF goes
    <3> QED BY <2>5, <3>2
  <2>6. CASE state = "http_HTT"
    <3>1. Protocol[state][1] = http[3 + 1] /\ Protocol[state][2] = "http_HTTP"
      BY <2>1, <2>3, <2>6
    <3>2. goes(3, "http_HTTP")
      BY <2>2, <3>1
    <3> HIDE DEF goes
    <3> QED BY <2>6, <3>2
  <2>7. CASE state = "http_HTTP"
    <3>1. Protocol[state][1] = http[4 + 1] /\ Protocol[state][2] = "first_major_digit"
      BY <2>1, <2>3, <2>7
    <3>2. goes(4, "first_major_digit")
      BY <2>2, <3>1
    <3> HIDE DEF goes
    <3> QED BY <2>7, <3>2
  <2> QED BY <2>1, <2>2, <2>4, <2>5, <2>6, <2>7
<1>3. ASSUME NEW n \in 1 .. 4, InName(l, r, p, n)
      PROVE  /\ ch # http[n + 1] => ~GoodLine(l)
             /\ ch = http[n + 1] => InName(l, r, p + 1, n + 1)
             /\ ch = http[n + 1] /\ n = 4 => ProtoRead(l, r) /\ p + 1 = MajorAt(l)
  BY <1>1, <1>3, AfterNameCell
<1>4. CASE state = "http_H" /\ goes(1, "http_HT")
  <2>1. InName(l, r, p, 1) /\ 1 \in 1 .. 4 /\ 1 + 1 = 2
    BY <1>1, <1>4 DEF LinePlace
  <2>2. ch = http[1 + 1] => LinePlace(l, r, "http_HT", p + 1)
    BY <1>3, <2>1 DEF LinePlace
  <2>3. ch # http[1 + 1] => ~GoodLine(l)
    BY <1>3, <2>1
  <2> QED BY <1>1, <1>4, <2>2, <2>3, LineGoesOn, LineRefused
<1>5. CASE state = "http_HT" /\ goes(2, "http_HTT")
  <2>1. InName(l, r, p, 2) /\ 2 \in 1 .. 4 /\ 2 + 1 = 3
    BY <1>1, <1>5 DEF LinePlace
  <2>2. ch = http[2 + 1] => LinePlace(l, r, "http_HTT", p + 1)
    BY <1>3, <2>1 DEF LinePlace
  <2>3. ch # http[2 + 1] => ~GoodLine(l)
    BY <1>3, <2>1
  <2> QED BY <1>1, <1>5, <2>2, <2>3, LineGoesOn, LineRefused
<1>6. CASE state = "http_HTT" /\ goes(3, "http_HTTP")
  <2>1. InName(l, r, p, 3) /\ 3 \in 1 .. 4 /\ 3 + 1 = 4
    BY <1>1, <1>6 DEF LinePlace
  <2>2. ch = http[3 + 1] => LinePlace(l, r, "http_HTTP", p + 1)
    BY <1>3, <2>1 DEF LinePlace
  <2>3. ch # http[3 + 1] => ~GoodLine(l)
    BY <1>3, <2>1
  <2> QED BY <1>1, <1>6, <2>2, <2>3, LineGoesOn, LineRefused
<1>7. CASE state = "http_HTTP" /\ goes(4, "first_major_digit")
  <2>1. InName(l, r, p, 4) /\ 4 \in 1 .. 4
    BY <1>1, <1>7 DEF LinePlace
  <2>2. ch = http[4 + 1] => LinePlace(l, r, "first_major_digit", p + 1)
    BY <1>3, <2>1 DEF LinePlace
  <2>3. ch # http[4 + 1] => ~GoodLine(l)
    BY <1>3, <2>1
  <2> QED BY <1>1, <1>7, <2>2, <2>3, LineGoesOn, LineRefused
<1> QED BY <1>2, <1>4, <1>5, <1>6, <1>7

(* ... reads the major version, ...                                        *)
LEMMA MajorDigitsKept ==
  ASSUME NEW k, InLine(k), UNCHANGED cut, MajorDigits(buffer[p])
  PROVE  Understood(k)' /\ AnswerIsTheRequests'
<1> DEFINE l == request.line
           ch == Text(request)[p]
           c == [r EXCEPT !.http_major = 1]
<1>1. LineIsClear(l) /\ LineIn(l, Text(request)) /\ LinePlace(l, r, state, p) /\ r \in RequestType /\ p \in Nat /\ buffer[p] = ch
      /\ r.request_end = 0
  BY LineFacts
<1>2. c.request_end = 0 /\ c.upgrade = r.upgrade /\ c.key = r.key
  BY <1>1 DEF RequestType
<1>3. Digit("1") = 1 /\ Digit("2") = 2 /\ Digit("9") = 9 /\ Digit("0") = 0
  BY DEF Digit
<1>4. CASE state = "first_major_digit"
  <2>1. (ch = "1" => LinePlace(l, c, "major_digit", p + 1)) /\ (ch # "1" => ~GoodLine(l))
    BY <1>1, <1>4, AfterProtocol
  <2>2. IF IsDigit(ch) /\ ch # "0" THEN Major("major_digit", Digit(ch)) ELSE Refuse
    BY <1>1, <1>4 DEF MajorDigits
  <2>3. CASE ch = "1"
    <3>1. Step("major_digit", c)
      BY <1>3, <2>2, <2>3 DEF IsDigit, Major
    <3> HIDE DEF c
    <3> QED BY <1>2, <2>1, <2>3, <3>1, LineGoesOn
  <2>4. CASE ch # "1"
    <3>1. Refuse
      <4>1. CASE IsDigit(ch) /\ ch # "0"
        <5>1. ch = "2" \/ ch = "9"
          BY <2>4, <4>1 DEF IsDigit
        <5>2. Digit(ch) > 1
          BY <1>3, <5>1
        <5> QED BY <2>2, <4>1, <5>2 DEF Major
      <4>2. CASE ~(IsDigit(ch) /\ ch # "0")
        BY <2>2, <4>2
      <4> QED BY <4>1, <4>2
    <3> QED BY <2>1, <2>4, <3>1, LineRefused
  <2> QED BY <2>3, <2>4
<1>5. CASE state = "major_digit"
  <2>1. /\ r.http_major = 1 /\ (ch = "." => LinePlace(l, r, "first_minor_digit", p + 1))
        /\ ch # "." => ~GoodLine(l)
    BY <1>1, <1>5, AfterMajor
  <2>2. \/ ch = "." /\ Step("first_minor_digit", r)
        \/ IsDigit(ch) /\ Major("major_digit", 10 * r.http_major + Digit(ch))
        \/ ch # "." /\ ~IsDigit(ch) /\ Refuse
    BY <1>1, <1>5 DEF MajorDigits
  <2>3. IsDigit(ch) => ch # "." /\ 10 * r.http_major + Digit(ch) > 1
    BY <1>3, <2>1 DEF IsDigit
  <2>4. CASE ch = "."
    <3>1. Step("first_minor_digit", r)
      BY <2>2, <2>3, <2>4
    <3> QED BY <1>1, <2>1, <2>4, <3>1, LineGoesOn
  <2>5. CASE ch # "."
    <3>1. Refuse
      BY <2>2, <2>3, <2>5 DEF Major
    <3> QED BY <2>1, <2>5, <3>1, LineRefused
  <2> QED BY <2>4, <2>5
<1> QED BY <1>4, <1>5 DEF MajorDigits

(* A line ends with LF after its number.                                   *)
LEMMA LongLineDone ==
  ASSUME NEW k, InLine(k), UNCHANGED cut, LineDone(r), MinorRead(request.line, r), p = EolAt(request.line),
         request.line.eol = <<"lf">>
  PROVE  Understood(k)' /\ AnswerIsTheRequests'
<1>1. r.request_end = 0 /\ r \in RequestType /\ LineIsClear(request.line) /\ p \in Nat
  BY LineFacts
<1>2. Len(request.line.eol) = 1 /\ LineEnd(request.line) = EolAt(request.line) + Len(request.line.eol)
  BY <1>1, LineOffsets
<1>3. p + 1 = LineEnd(request.line)
  BY <1>1, <1>2
<1> QED BY <1>1, <1>3, LineDoneKept

(* ... and the minor one, ...                                              *)
LEMMA MinorDigitsKept ==
  ASSUME NEW k, InLine(k), UNCHANGED cut, MinorDigits(buffer[p])
  PROVE  Understood(k)' /\ AnswerIsTheRequests'
<1> DEFINE l == request.line
           ch == Text(request)[p]
           first == [r EXCEPT !.http_minor = Digit(ch)]
           next == [r EXCEPT !.http_minor = 10 * @ + Digit(ch)]
<1>1. LineIsClear(l) /\ LineIn(l, Text(request)) /\ LinePlace(l, r, state, p) /\ r \in RequestType /\ p \in Nat /\ buffer[p] = ch
      /\ r.request_end = 0
  BY LineFacts
<1>2. /\ first.request_end = 0 /\ first.upgrade = r.upgrade /\ first.key = r.key
      /\ next.request_end = 0 /\ next.upgrade = r.upgrade /\ next.key = r.key
  BY <1>1 DEF RequestType
<1>3. CASE state = "first_minor_digit"
  <2>1. (IsDigit(ch) => LinePlace(l, first, "minor_digit", p + 1)) /\ (~IsDigit(ch) => ~GoodLine(l))
    BY <1>1, <1>3, AfterDot
  <2>2. IF IsDigit(ch) THEN Step("minor_digit", first) ELSE Refuse
    BY <1>1, <1>3 DEF MinorDigits
  <2> HIDE DEF first, next
  <2> QED BY <1>2, <2>1, <2>2, LineGoesOn, LineRefused
<1>4. CASE state = "minor_digit"
  <2>1. /\ ch = "cr" => LinePlace(l, r, "almost_done", p + 1)
        /\ ch = "lf" => MinorRead(l, r) /\ p = EolAt(l) /\ l.eol = <<"lf">>
        /\ ch = "sp" => LinePlace(l, r, "spaces_after_digit", p + 1)
        /\ IsDigit(ch) /\ r.http_minor <= 99 => LinePlace(l, next, "minor_digit", p + 1)
        /\ ch \notin {"cr", "lf", "sp"} /\ ~(IsDigit(ch) /\ r.http_minor <= 99) => ~GoodLine(l)
    BY <1>1, <1>4, AfterMinor
  <2>2. \/ ch = "cr" /\ Step("almost_done", r)
        \/ ch = "lf" /\ LineDone(r)
        \/ ch = "sp" /\ Step("spaces_after_digit", r)
        \/ IsDigit(ch) /\ r.http_minor <= 99 /\ Step("minor_digit", next)
        \/ ch \notin {"cr", "lf", "sp"} /\ ~(IsDigit(ch) /\ r.http_minor <= 99) /\ Refuse
    BY <1>1, <1>4 DEF MinorDigits
  <2> HIDE DEF first, next
  <2>3. CASE ch = "lf" /\ LineDone(r)
    BY <1>1, <2>1, <2>3, LongLineDone
  <2> QED BY <1>1, <1>2, <2>1, <2>2, <2>3, LineGoesOn, LineRefused
<1> QED BY <1>3, <1>4 DEF MinorDigits

(* ... skips the spaces behind it, ...                                     *)
LEMMA SpacesAfterDigitKept ==
  ASSUME NEW k, InLine(k), UNCHANGED cut, SpacesAfterDigit(buffer[p])
  PROVE  Understood(k)' /\ AnswerIsTheRequests'
<1> DEFINE l == request.line
           ch == Text(request)[p]
<1>1. LineIsClear(l) /\ LineIn(l, Text(request)) /\ LinePlace(l, r, state, p) /\ r \in RequestType /\ p \in Nat /\ buffer[p] = ch
      /\ r.request_end = 0
  BY LineFacts
<1>2. state = "spaces_after_digit"
  BY DEF SpacesAfterDigit
<1>3. /\ ch = "sp" => LinePlace(l, r, "spaces_after_digit", p + 1)
      /\ ch = "cr" => LinePlace(l, r, "almost_done", p + 1)
      /\ ch = "lf" => MinorRead(l, r) /\ p = EolAt(l) /\ l.eol = <<"lf">>
      /\ ch \notin {"sp", "cr", "lf"} => ~GoodLine(l)
  BY <1>1, <1>2, AfterSpaces
<1>4. \/ ch = "sp" /\ Step("spaces_after_digit", r)
      \/ ch = "cr" /\ Step("almost_done", r)
      \/ ch = "lf" /\ LineDone(r)
      \/ ch \notin {"sp", "cr", "lf"} /\ Refuse
  BY <1>1, <1>2 DEF SpacesAfterDigit
<1>5. CASE ch = "lf" /\ LineDone(r)
  BY <1>1, <1>3, <1>5, LongLineDone
<1> QED BY <1>1, <1>3, <1>4, <1>5, LineGoesOn, LineRefused

(* ... and ends the line after a CR.                                       *)
LEMMA LineAlmostDoneKept ==
  ASSUME NEW k, InLine(k), UNCHANGED cut, LineAlmostDone(buffer[p])
  PROVE  Understood(k)' /\ AnswerIsTheRequests'
<1> DEFINE l == request.line
           ch == Text(request)[p]
           c == [r EXCEPT !.request_end = p - 1]
<1>1. LineIsClear(l) /\ LineIn(l, Text(request)) /\ LinePlace(l, r, state, p) /\ r \in RequestType /\ p \in Nat /\ buffer[p] = ch
      /\ r.request_end = 0 /\ p \in 1 .. End /\ End \in Nat
  BY LineFacts, HttpAssumption
<1>2. state = "almost_done"
  BY DEF LineAlmostDone
<1>3. /\ p = EolAt(l) + 1
      /\ ch = "lf" => \/ r.http_major = 0 /\ r.http_minor = 9 /\ ~GoodLine(l)
                      \/ MinorRead(l, r) /\ l.eol = <<"cr", "lf">>
      /\ ch # "lf" => ~GoodLine(l)
  BY <1>1, <1>2, AfterCr
<1>4. IF ch = "lf" THEN LineDone(c) ELSE Refuse
  BY <1>1 DEF LineAlmostDone
<1>5. CASE ch # "lf"
  BY <1>3, <1>4, <1>5, LineRefused
<1>6. CASE ch = "lf"
  <2>1. p - 1 \in 0 .. End
    BY <1>1
  <2>2. c \in RequestType
    BY <1>1, <2>1, SetPointer
  <2>3. /\ c.request_end = p - 1 /\ c.upgrade = r.upgrade /\ c.key = r.key /\ c.http_major = r.http_major
        /\ c.method = r.method /\ c.request_start = r.request_start /\ c.uri_start = r.uri_start
        /\ c.uri_end = r.uri_end /\ c.http_protocol = r.http_protocol /\ c.http_minor = r.http_minor
    BY <1>1 DEF RequestType
  <2> HIDE DEF c
  <2>4. EolAt(l) \in Nat /\ EolAt(l) # 0 /\ LineEnd(l) = EolAt(l) + Len(l.eol)
    <3>1. MethodAt(l) \in Nat \ {0} /\ MethodEnd(l) \in Nat /\ UriAt(l) \in Nat /\ UriEnd(l) \in Nat /\ ProtoAt(l) \in Nat
          /\ MethodAt(l) < MethodEnd(l) /\ MethodEnd(l) <= UriAt(l) /\ UriAt(l) < UriEnd(l) /\ UriEnd(l) <= ProtoAt(l)
          /\ EolAt(l) \in Nat /\ ProtoAt(l) <= EolAt(l) /\ LineEnd(l) = EolAt(l) + Len(l.eol)
      BY <1>1, LineOffsets
    <3>2. EolAt(l) # 0
      BY <3>1
    <3> QED BY <3>1, <3>2
  <2>5. p - 1 = EolAt(l)
    BY <1>3, <2>4
  <2>6. CASE r.http_major = 0 /\ ~GoodLine(l)
    BY <1>4, <1>6, <2>2, <2>3, <2>6, ShortLineDone
  <2>7. CASE MinorRead(l, r) /\ l.eol = <<"cr", "lf">>
    <3>1. MinorRead(l, c)
      BY <2>3, <2>7 DEF MinorRead, MajorRead, ProtoRead, UriRead, MethodRead
    <3>2. Len(l.eol) = 2
      BY <2>7
    <3>3. p + 1 = LineEnd(l)
      BY <1>3, <2>4, <3>2
    <3>4. IF c.request_end = 0 THEN p = EolAt(l) ELSE c.request_end = EolAt(l)
      BY <2>3, <2>4, <2>5
    <3> QED BY <1>4, <1>6, <2>2, <2>3, <2>7, <3>1, <3>3, <3>4, LineDoneKept
  <2> QED BY <1>3, <1>6, <2>6, <2>7
<1> QED BY <1>5, <1>6

(* Every step of the parser of the line keeps what is understood.          *)
LEMMA ParseLineKept ==
  ASSUME TypeOK, IsClear(request), NEW k \in 0 .. Len(request.lines), Understood(k), ParseLine, ~cut'
  PROVE  Understood(k)' /\ AnswerIsTheRequests'
<1>1. pc = "parse" /\ handler = "line" /\ p < last /\ UNCHANGED clientVars
  BY DEF ParseLine
<1>2. CASE Method
  <2>1. InLine(k)
    BY <1>1, <1>2 DEF Method, InLine
  <2> QED BY <1>2, <2>1, MethodKept
<1>3. CASE /\ \/ LineStart(buffer[p]) \/ SpacesBeforeUri(buffer[p]) \/ AfterSlashInUri(buffer[p]) \/ CheckUriHttp09(buffer[p])
              \/ ProtocolName(buffer[p]) \/ MajorDigits(buffer[p]) \/ MinorDigits(buffer[p]) \/ SpacesAfterDigit(buffer[p])
              \/ LineAlmostDone(buffer[p])
           /\ UNCHANGED historyVars
  <2>1. InLine(k) /\ UNCHANGED cut
    BY <1>1, <1>3 DEF historyVars, InLine
  <2> QED BY <1>3, <2>1, LineStartKept, SpacesBeforeUriKept, AfterSlashKept, CheckUriKept, ProtocolNameKept, MajorDigitsKept,
             MinorDigitsKept, SpacesAfterDigitKept, LineAlmostDoneKept
<1> QED BY <1>2, <1>3 DEF ParseLine

-------------------------------------------------------------------------------
(* The beginning, and what the network does.                               *)

(* At first nothing has arrived, and nothing was asked.                    *)
LEMMA InitUnderstood ==
  ASSUME Init, IsClear(request)
  PROVE  Understood(0) /\ AnswerIsTheRequests
<1> DEFINE t == Text(request)
<1>1. /\ stream = t /\ last = 1 /\ pos = 1 /\ r = NewRequest /\ headers = <<>> /\ handler = "line" /\ pc = "read"
      /\ answer = [status |-> "none", key |-> <<>>] /\ overread = FALSE
  BY DEF Init
<1>2. Len(t) \in Nat /\ Len(request.lines) \in Nat
  BY Ends
<1>3. Arrived
  <2> HIDE DEF t
  <2>1. 1 <= Len(t) + 1 /\ Len(t) = Len(t) - 1 + 1 /\ \A j \in 1 .. Len(t) : 1 + j - 1 = j
    BY <1>2
  <2> QED BY <1>1, <2>1 DEF Arrived, t
<1>4. Untouched(0)
  <2>1. 1 .. last - 1 = {}
    BY <1>1
  <2> QED BY <2>1 DEF Untouched
<1>5. r.upgrade = FALSE /\ r.key = 0 /\ r.request_end = 0 /\ r.http_major = 0 /\ r.state = "start"
  BY <1>1 DEF NewRequest
<1>6. HeadersRead(0, r.upgrade, r.key)
  <2>1. headers = HeadersOf(request.lines)[0]
    BY <1>1, <1>2, ListOfHeaders
  <2>2. 1 .. Len(headers) = {} /\ 1 .. 0 = {}
    BY <1>1
  <2>3. Upgrades(headers) = {} /\ Keys(headers) = {}
    BY <2>2 DEF Upgrades, Keys
  <2> QED BY <1>1, <1>5, <2>1, <2>2, <2>3 DEF HeadersRead
<1>7. MethodAt(request.line) \in Nat \ {0}
  <2>1. LineIsClear(request.line)
    BY DEF IsClear
  <2> QED BY <2>1, LineOffsets
<1>8. Reached(0, r, r.header_hash, r.lowcase_index, r.state, pos)
  <2>1. 1 \in 1 .. MethodAt(request.line)
    BY <1>7
  <2> QED BY <1>1, <1>5, <2>1 DEF Reached, LinePlace
<1>9. pos <= End
  BY <1>1, HttpAssumption
<1>10. Understood(0)
  BY <1>1, <1>3, <1>4, <1>6, <1>8, <1>9 DEF Understood
<1> QED BY <1>1, <1>10 DEF AnswerIsTheRequests

(* What the headers mean does not depend on what is received behind them.  *)
LEMMA HeadersReadKept ==
  ASSUME TypeOK, IsClear(request), NEW k \in 0 .. Len(request.lines), NEW upgrade, NEW key, HeadersRead(k, upgrade, key),
         UNCHANGED <<headers, request, overread>>, last' \in Int, last' >= last,
         \A n \in 1 .. last - 1 : buffer'[n] = buffer[n]
  PROVE  HeadersRead(k, upgrade, key)'
<1>1. \A m \in Nat : m <= last => m <= last'
  BY DEF TypeOK
<1>2. ASSUME NEW v, KeyRead(key, v, From(request, k)) PROVE KeyRead(key, v, From(request, k))'
  <2>1. From(request, k) \in Nat /\ Len(v) \in Nat
    BY <1>2, TextLayout, LenProperties DEF KeyRead
  <2>2. /\ key \in 1 .. End /\ v \in Seq(Cell) /\ key + Len(v) < From(request, k) /\ From(request, k) <= last
        /\ \A m \in 1 .. Len(v) : v[m] # "nul" /\ buffer[key + m - 1] = v[m]
        /\ buffer[key + Len(v)] = "nul"
    BY <1>2 DEF KeyRead
  <2>3. key + Len(v) \in 1 .. last - 1 /\ \A m \in 1 .. Len(v) : key + m - 1 \in 1 .. last - 1
    BY <2>1, <2>2, HttpAssumption DEF TypeOK
  <2>4. From(request, k) <= last'
    BY <1>1, <2>1, <2>2
  <2> QED BY <2>2, <2>3, <2>4 DEF KeyRead
<1>3. ASSUME key # 0 PROVE KeyRead(key, headers[Max(Keys(headers))].value, From(request, k))'
  <2> PICK v : v = headers[Max(Keys(headers))].value
    OBVIOUS
  <2>1. KeyRead(key, v, From(request, k))
    BY <1>3 DEF HeadersRead
  <2>3. KeyRead(key, v, From(request, k))'
    BY <1>2, <2>1
  <2> QED BY <2>3
<1> QED BY <1>3 DEF HeadersRead

(* What is received comes behind what has arrived.                         *)
LEMMA ReadKept ==
  ASSUME TypeOK, IsClear(request), NEW k \in 0 .. Len(request.lines), Understood(k), Read
  PROVE  Understood(k)' /\ AnswerIsTheRequests'
<1> DEFINE t == Text(request)
<1>1. pc = "read" /\ UNCHANGED <<request, historyVars>> /\ answer.status = "none" /\ pos <= End
      /\ Reached(k, r, r.header_hash, r.lowcase_index, r.state, pos) /\ pos <= last
  BY DEF Read, Understood, Reached
<1>2. last \in Int /\ pos \in Int /\ Len(t) \in Nat /\ last >= 1 /\ End \in Nat
  BY Ends, HttpAssumption DEF TypeOK
<1>3. ASSUME Call, pos' = pos, last' >= last, last' \in Int, Arrived', Untouched(k)',
             \A j \in 1 .. last - 1 : buffer'[j] = buffer[j]
      PROVE  Understood(k)' /\ AnswerIsTheRequests'
  <2>1. /\ p' = pos /\ state' = r.state /\ hash' = r.header_hash /\ i' = r.lowcase_index /\ pc' = "parse"
        /\ UNCHANGED <<r, headers, handler, answer, request, overread>>
    BY <1>1, <1>3 DEF Call, historyVars
  <2>2. pos <= last'
    BY <1>1, <1>2, <1>3
  <2>3. Reached(k, r, hash, i, state, p)'
    BY <1>1, <2>1, <2>2 DEF Reached
  <2>4. handler' = "headers" => LineRead(request.line, r)' /\ (LineEnd(request.line) <= last)'
    <3>1. ASSUME handler = "headers" PROVE LineRead(request.line, r) /\ LineEnd(request.line) <= last'
      <4>1. LineRead(request.line, r) /\ LineEnd(request.line) <= last
        BY <3>1 DEF Understood
      <4>2. LineEnd(request.line) \in Nat
        BY TextLayout
      <4>3. LineEnd(request.line) <= last'
        BY <1>2, <1>3, <4>1, <4>2
      <4> QED BY <4>1, <4>3
    <3> QED BY <2>1, <3>1 DEF LineRead
  <2>5. HeadersRead(k, r.upgrade, r.key)'
    <3>1. HeadersRead(k, r.upgrade, r.key)
      BY DEF Understood
    <3> PICK u : u = r.upgrade
      OBVIOUS
    <3> PICK y : y = r.key
      OBVIOUS
    <3>2. HeadersRead(k, u, y)'
      BY <1>3, <2>1, <3>1, HeadersReadKept
    <3> QED BY <2>1, <3>2
  <2>6. pc' = "parse" /\ answer'.status = "none"
    BY <1>1, <2>1
  <2>7. Understood(k)'
    BY <1>3, <2>3, <2>4, <2>5, <2>6 DEF Understood
  <2> QED BY <2>6, <2>7, NotAnswered
<1>4. CASE last > pos /\ Call /\ UNCHANGED <<stream, bufferVars>>
  <2>1. Arrived' /\ Untouched(k)'
    BY <1>1, <1>4 DEF Understood, Arrived, Untouched, bufferVars
  <2> QED BY <1>2, <1>3, <1>4, <2>1 DEF bufferVars
<1>5. ASSUME NEW n \in 1 .. Len(stream), last + n <= End + 1, Received(n), Call, pos' = pos
      PROVE  Understood(k)' /\ AnswerIsTheRequests'
  <2>1. /\ buffer' = [j \in 1 .. End |-> IF j \in last .. last + n - 1 THEN stream[j - last + 1] ELSE buffer[j]]
        /\ last' = last + n /\ stream' = SubSeq(stream, n + 1, Len(stream))
    BY <1>5 DEF Received
  <2>2. /\ last <= Len(t) + 1 /\ Len(stream) = Len(t) - last + 1 /\ stream \in Seq(Cell)
        /\ \A j \in 1 .. Len(stream) : stream[j] = t[last + j - 1]
    BY DEF Understood, Arrived, TypeOK, Texts
  <2> PICK m \in Nat : m = Len(stream)
    BY <2>2, LenProperties
  <2>3. n \in 1 .. m /\ m = Len(t) - last + 1 /\ last' = last + n
    BY <2>1, <2>2
  <2>4. Arrived'
    <3>1. last' <= Len(t) + 1
      BY <1>2, <2>3
    <3>2. /\ Len(stream') = IF n + 1 <= m THEN m - (n + 1) + 1 ELSE 0
          /\ \A j \in 1 .. m - (n + 1) + 1 : stream'[j] = stream[n + 1 + j - 1]
      <4>1. n + 1 \in Int /\ \A j \in n + 1 .. m : stream[j] \in Cell
        BY <2>2, <2>3, ElementOfSeq
      <4> QED BY <2>1, <4>1, SubSeqProperties
    <3>3. Len(stream') = Len(t) - last' + 1 /\ Len(stream') = m - n
      <4>1. (IF n + 1 <= m THEN m - (n + 1) + 1 ELSE 0) = m - n
        BY <2>3
      <4>2. Len(stream') = m - n
        BY <3>2, <4>1, Zenon
      <4>3. m - n = Len(t) - last' + 1
        BY <1>2, <2>3
      <4> QED BY <4>2, <4>3
    <3>4. ASSUME NEW j \in 1 .. Len(stream') PROVE stream'[j] = t[last' + j - 1]
      <4>1. j \in 1 .. m - (n + 1) + 1 /\ n + 1 + j - 1 \in 1 .. m /\ last + (n + 1 + j - 1) - 1 = last' + j - 1
        BY <1>2, <2>3, <3>3
      <4>2. stream'[j] = stream[n + 1 + j - 1]
        BY <3>2, <4>1
      <4> QED BY <2>2, <4>1, <4>2
    <3> QED BY <1>1, <3>1, <3>3, <3>4 DEF Arrived
  <2>5. \A j \in 1 .. last - 1 : buffer'[j] = buffer[j]
    <3>1. \A j \in 1 .. last - 1 : j \in 1 .. End /\ j \notin last .. last + n - 1
      BY <1>2 DEF TypeOK
    <3> QED BY <2>1, <3>1
  <2>6. Untouched(k)'
    <3> SUFFICES ASSUME NEW j \in 1 .. last' - 1, j < LineEnd(request.line) \/ j >= From(request, k) PROVE buffer'[j] = t[j]
      BY <1>1 DEF Untouched
    <3>1. CASE j < last
      <4>1. j \in 1 .. last - 1
        BY <1>2, <2>3, <3>1
      <4> QED BY <2>5, <4>1 DEF Understood, Untouched
    <3>2. CASE j >= last
      <4>1. j \in last .. last + n - 1 /\ j \in 1 .. End /\ j - last + 1 \in 1 .. m /\ last + (j - last + 1) - 1 = j
        BY <1>2, <1>5, <2>3, <3>2
      <4>2. buffer'[j] = stream[j - last + 1]
        BY <2>1, <4>1
      <4> QED BY <2>2, <4>1, <4>2
    <3> QED BY <1>2, <2>3, <3>1, <3>2
  <2>7. last' >= last /\ last' \in Int
    BY <1>2, <2>3
  <2> QED BY <1>3, <1>5, <2>4, <2>5, <2>6, <2>7
<1>6. ~(last <= pos /\ last > End)
  BY <1>1, <1>2
<1> QED BY <1>4, <1>5, <1>6 DEF Read

(* A place in the header lines is behind those that were read, and before  *)
(* the end of a request that is complete.                                  *)
LEMMA HeaderBounds ==
  ASSUME NEW h, HeaderIsClear(h), NEW s \in Nat, NEW c, NEW hs, NEW j, NEW st, NEW at \in Nat,
         HeaderPlace(h, s, c, hs, j, st, at)
  PROVE  s <= at /\ at < HeaderEnd(h, s)
<1>1. /\ NameEnd(h, s) \in Nat /\ ValueAt(h, s) \in Nat /\ ValueEnd(h, s) \in Nat /\ HeaderEol(h, s) \in Nat
      /\ HeaderEnd(h, s) \in Nat
      /\ s < NameEnd(h, s) /\ NameEnd(h, s) <= ValueAt(h, s) /\ ValueAt(h, s) <= ValueEnd(h, s)
      /\ ValueEnd(h, s) <= HeaderEol(h, s) /\ HeaderEol(h, s) < HeaderEnd(h, s)
  BY HeaderOffsets
<1>2. HeaderEnd(h, s) = HeaderEol(h, s) + Len(h.eol) /\ Len(h.eol) \in Nat
  BY HeaderOffsets
<1>3. \/ at = s
      \/ at \in s + 1 .. NameEnd(h, s)
      \/ at \in NameEnd(h, s) + 1 .. HeaderEol(h, s)
      \/ at \in ValueAt(h, s) + 1 .. ValueEnd(h, s)
      \/ \E e \in ValueAt(h, s) + 1 .. ValueEnd(h, s) : at \in e + 1 .. HeaderEol(h, s)
      \/ at \in HeaderEol(h, s) + 1 .. HeaderEol(h, s) + Len(h.eol) - 1
  BY DEF HeaderPlace
<1>4. CASE at \in HeaderEol(h, s) + 1 .. HeaderEol(h, s) + Len(h.eol) - 1
  BY <1>1, <1>2, <1>4
<1>5. CASE ~(at \in HeaderEol(h, s) + 1 .. HeaderEol(h, s) + Len(h.eol) - 1)
  BY <1>1, <1>3, <1>5
<1> QED BY <1>4, <1>5

(* The same for any place in the header lines.                             *)
LEMMA HeadersBounds ==
  ASSUME NEW q, IsClear(q), NEW k \in 0 .. Len(q.lines), NEW c, NEW hs, NEW j, NEW st, NEW at \in Nat,
         HeadersPlace(q, k, c, hs, j, st, at)
  PROVE  From(q, k) <= at /\ (Complete(q) => at < 1 + Len(Text(q)))
<1>1. /\ Len(q.lines) \in Nat /\ Len(Text(q)) \in Nat /\ Len(q.end) \in Nat
      /\ From(q, Len(q.lines)) + Len(q.end) = 1 + Len(Text(q))
      /\ From(q, Len(q.lines)) \in Nat /\ From(q, k) \in Nat
      /\ Complete(q) => From(q, Len(q.lines)) < 1 + Len(Text(q))
  BY Ends, TextLayout
<1>2. CASE k < Len(q.lines) /\ HeaderPlace(q.lines[k + 1], From(q, k), c, hs, j, st, at)
  <2>1. k \in 0 .. Len(q.lines) - 1 /\ k + 1 \in 1 .. Len(q.lines) /\ k + 1 \in 0 .. Len(q.lines)
    BY <1>1, <1>2
  <2>2. HeaderIsClear(q.lines[k + 1])
    BY <2>1 DEF IsClear
  <2>3. From(q, k) <= at /\ at < HeaderEnd(q.lines[k + 1], From(q, k))
    BY <1>1, <1>2, <2>2, HeaderBounds
  <2>4. HeaderEnd(q.lines[k + 1], From(q, k)) = From(q, k + 1) /\ From(q, k + 1) \in Nat
    BY <2>1, TextLayout
  <2>5. From(q, k + 1) <= From(q, Len(q.lines))
    BY <2>1, Ends
  <2>6. Complete(q) => at < 1 + Len(Text(q))
    BY <1>1, <2>3, <2>4, <2>5
  <2> QED BY <2>3, <2>6
<1>3. CASE k = Len(q.lines) /\ st = "start" /\ at = From(q, k)
  BY <1>1, <1>3
<1>4. CASE k = Len(q.lines) /\ at = From(q, k) + 1 /\ Len(q.end) = 2
  BY <1>1, <1>4
<1> QED BY <1>2, <1>3, <1>4 DEF HeadersPlace

(* An end that is neither 101 nor 403.                                     *)
LEMMA Ended403 ==
  ASSUME TypeOK, NEW k, Understood(k), NEW status, status # "101", Finish(status, <<>>),
         UNCHANGED clientVars, UNCHANGED historyVars
  PROVE  Understood(k)' /\ answer' = [status |-> status, key |-> <<>>] /\ request' = request
<1>1. /\ answer' = [status |-> status, key |-> <<>>] /\ pc' = "done" /\ UNCHANGED bufferVars
      /\ UNCHANGED <<r, headers, handler, overread, request, stream>>
  BY DEF Finish, clientVars, historyVars
<1>3. Arrived' /\ Untouched(k)' /\ HeadersRead(k, r.upgrade, r.key)'
  BY <1>1 DEF Understood, Arrived, Untouched, HeadersRead, KeyRead, bufferVars
<1>4. handler' = "headers" => LineRead(request.line, r)' /\ (LineEnd(request.line) <= last)'
  BY <1>1 DEF Understood, LineRead, bufferVars
<1> QED BY <1>1, <1>3, <1>4 DEF Understood

(* The client leaves.                                                      *)
LEMMA LeftKept ==
  ASSUME TypeOK, NEW k, Understood(k), Left
  PROVE  Understood(k)' /\ AnswerIsTheRequests'
<1>1. Finish("gone", <<>>) /\ UNCHANGED clientVars /\ UNCHANGED historyVars
  BY DEF Left
<1>2. Understood(k)' /\ answer' = [status |-> "gone", key |-> <<>>]
  BY <1>1, Ended403
<1> QED BY <1>2, NotAnswered

(* The parser has read all that arrived: it keeps its state over the next  *)
(* call.                                                                   *)
LEMMA AgainKept ==
  ASSUME TypeOK, IsClear(request), NEW k \in 0 .. Len(request.lines), Understood(k), Again
  PROVE  Understood(k)' /\ AnswerIsTheRequests'
<1> DEFINE l == request.line
<1>1. pc = "parse" /\ p >= last /\ UNCHANGED clientVars /\ UNCHANGED historyVars /\ answer.status = "none"
      /\ Reached(k, r, hash, i, state, p)
  BY DEF Again, Understood
<1>2. p = last /\ p \in Nat /\ p \in 1 .. End + 1 /\ handler \in {"line", "headers"} /\ r \in RequestType
  BY <1>1, HttpAssumption DEF TypeOK, Reached
<1>3. CASE p = End + 1
  <2>1. Finish(IF handler = "line" THEN "closed" ELSE "403", <<>>)
    BY <1>3 DEF Again
  <2>2. CASE handler = "line"
    <3>1. Understood(k)' /\ answer' = [status |-> "closed", key |-> <<>>] /\ request' = request
      BY <1>1, <2>1, <2>2, Ended403
    <3>2. LinePlace(l, r, state, p) /\ LineIsClear(l)
      BY <1>1, <2>2 DEF Reached, IsClear
    <3>3. p < LineEnd(l)
      BY <1>2, <3>2, LineBounds
    <3>4. Len(LineText(l)) > End
      <4>1. LineEnd(l) = 1 + Len(LineText(l)) /\ Len(LineText(l)) \in Nat
        BY Ends
      <4> QED BY <1>3, <3>3, <4>1, HttpAssumption
    <3> QED BY <3>1, <3>4 DEF AnswerIsTheRequests
  <2>3. CASE handler = "headers"
    <3>1. Finish("403", <<>>)
      BY <2>1, <2>3
    <3>2. HeadersPlace(request, k, r, hash, i, state, p)
      BY <1>1, <2>3 DEF Reached
    <3>3. ASSUME ForWebsocket(request) PROVE FALSE
      <4>1. Complete(request) /\ Len(Text(request)) <= End
        BY <3>3 DEF ForWebsocket
      <4>2. p < 1 + Len(Text(request)) /\ Len(Text(request)) \in Nat
        BY <1>2, <3>2, <4>1, HeadersBounds, Ends
      <4> QED BY <1>3, <4>1, <4>2, HttpAssumption
    <3> QED BY <1>1, <3>1, <3>3, Refused DEF Refuse
  <2> QED BY <1>2, <2>2, <2>3
<1>4. CASE p # End + 1
  <2> DEFINE c == [r EXCEPT !.state = state, !.header_hash = hash, !.lowcase_index = i]
  <2>1. /\ pos' = p /\ r' = c /\ pc' = "read" /\ UNCHANGED <<buffer, last, parserVars, headers, handler, answer>>
    BY <1>4 DEF Again
  <2>2. /\ c.state = state /\ c.header_hash = hash /\ c.lowcase_index = i /\ c.upgrade = r.upgrade /\ c.key = r.key
        /\ c.request_end = r.request_end /\ c.request_start = r.request_start /\ c.uri_start = r.uri_start
        /\ c.uri_end = r.uri_end /\ c.http_protocol = r.http_protocol /\ c.http_major = r.http_major
        /\ c.http_minor = r.http_minor /\ c.method = r.method /\ c.invalid_header = r.invalid_header
        /\ c.lowcase_header = r.lowcase_header /\ c.name_start = r.name_start /\ c.name_end = r.name_end
        /\ c.header_start = r.header_start /\ c.header_end = r.header_end
    BY <1>2 DEF RequestType
  <2> HIDE DEF c
  <2>3. p <= End
    BY <1>2, <1>4, HttpAssumption
  <2>4. handler = "line" => LinePlace(l, c, state, p)
    <3>1. SUFFICES ASSUME LinePlace(l, r, state, p) PROVE LinePlace(l, c, state, p)
      BY <1>1 DEF Reached
    <3>2. MethodRead(l, r) => MethodRead(l, c)
      BY <2>2 DEF MethodRead
    <3>3. UriRead(l, r) => UriRead(l, c)
      BY <2>2, <3>2 DEF UriRead
    <3>4. ProtoRead(l, r) => ProtoRead(l, c)
      BY <2>2, <3>3 DEF ProtoRead
    <3>5. MajorRead(l, r) => MajorRead(l, c)
      BY <2>2, <3>4 DEF MajorRead
    <3>6. MinorRead(l, r) => MinorRead(l, c)
      BY <2>2, <3>5 DEF MinorRead
    <3>7. \A n \in 1 .. 4 : InName(l, r, p, n) => InName(l, c, p, n)
      BY <2>2, <3>3 DEF InName
    <3>8. 1 \in 1 .. 4 /\ 2 \in 1 .. 4 /\ 3 \in 1 .. 4 /\ 4 \in 1 .. 4
      OBVIOUS
    <3> QED BY <2>2, <3>1, <3>2, <3>3, <3>4, <3>5, <3>6, <3>7, <3>8 DEF LinePlace
  <2>5. handler = "headers" => HeadersPlace(request, k, c, hash, i, state, p)
    <3>1. SUFFICES ASSUME HeadersPlace(request, k, r, hash, i, state, p) PROVE HeadersPlace(request, k, c, hash, i, state, p)
      BY <1>1 DEF Reached
    <3>2. ASSUME NEW h, NEW s, HeaderPlace(h, s, r, hash, i, state, p) PROVE HeaderPlace(h, s, c, hash, i, state, p)
      BY <2>2, <3>2 DEF HeaderPlace, NameRead, ValueRead, CharactersRead
    <3> QED BY <3>1, <3>2 DEF HeadersPlace
  <2>6. Reached(k, r, r.header_hash, r.lowcase_index, r.state, pos)'
    <3>1. r'.header_hash = hash /\ r'.lowcase_index = i /\ r'.state = state /\ pos' = p /\ p <= last'
      BY <1>1, <1>2, <2>1, <2>2
    <3> QED BY <1>1, <2>1, <2>2, <2>4, <2>5, <3>1 DEF Reached, clientVars
  <2>7. Arrived' /\ Untouched(k)' /\ HeadersRead(k, r.upgrade, r.key)'
    BY <1>1, <2>1, <2>2 DEF Understood, Arrived, Untouched, HeadersRead, KeyRead, clientVars, historyVars
  <2>8. handler' = "headers" => LineRead(request.line, r)' /\ (LineEnd(request.line) <= last)'
    BY <1>1, <2>1, <2>2 DEF Understood, LineRead, clientVars
  <2>9. Understood(k)' /\ answer'.status = "none"
    BY <1>1, <2>1, <2>3, <2>6, <2>7, <2>8 DEF Understood
  <2> QED BY <2>9, NotAnswered
<1> QED BY <1>3, <1>4

-------------------------------------------------------------------------------
(* The steps of the parser of the header lines.                            *)

InHeaders(k) ==
  /\ TypeOK /\ IsClear(request) /\ k \in 0 .. Len(request.lines) /\ Understood(k)
  /\ pc = "parse" /\ handler = "headers" /\ p < last
  /\ UNCHANGED clientVars /\ UNCHANGED historyVars

(* What the parser of header lines leaves alone in a request.              *)
SameLine(c) ==
  /\ c.upgrade = r.upgrade /\ c.key = r.key
  /\ c.request_start = r.request_start /\ c.uri_start = r.uri_start /\ c.uri_end = r.uri_end
  /\ c.http_protocol = r.http_protocol /\ c.request_end = r.request_end

(* What is known while the parser of header lines reads a cell.            *)
LEMMA HeadersFacts ==
  ASSUME NEW k, InHeaders(k)
  PROVE  /\ HeadersPlace(request, k, r, hash, i, state, p) /\ r \in RequestType /\ LineRead(request.line, r)
         /\ buffer[p] = Text(request)[p] /\ Text(request)[p] \in Cell /\ p \in Nat /\ p + 1 <= last /\ p \in 1 .. End
         /\ hash \in Seq(Cell) /\ i \in 0 .. LC - 1 /\ From(request, k) <= p
<1>1. HeadersPlace(request, k, r, hash, i, state, p) /\ Untouched(k) /\ LineRead(request.line, r)
  BY DEF InHeaders, Understood, Reached
<1>2. p \in 1 .. End /\ r \in RequestType /\ hash \in Seq(Cell) /\ i \in 0 .. LC - 1
  BY Place DEF InHeaders, TypeOK, Texts
<1>3. p \in Nat
  BY <1>2
<1>4. From(request, k) <= p /\ From(request, k) \in Nat
  BY <1>1, <1>3, HeadersBounds, TextLayout DEF InHeaders
<1>5. p >= From(request, k)
  BY <1>3, <1>4
<1> QED BY <1>1, <1>2, <1>4, <1>5, CellRead DEF InHeaders

(* The header line after the first k.                                      *)
LEMMA HeaderFacts ==
  ASSUME NEW q, IsClear(q), NEW k \in 0 .. Len(q.lines), k < Len(q.lines)
  PROVE  /\ HeaderIsClear(q.lines[k + 1]) /\ From(q, k) \in Nat
         /\ HeaderIn(q.lines[k + 1], Text(q), From(q, k)) /\ From(q, k + 1) = HeaderEnd(q.lines[k + 1], From(q, k))
         /\ k + 1 \in 1 .. Len(q.lines) /\ k + 1 \in 0 .. Len(q.lines) /\ From(q, k + 1) \in Nat
<1>1. Len(q.lines) \in Nat
  BY Ends
<1>2. k \in 0 .. Len(q.lines) - 1 /\ k + 1 \in 1 .. Len(q.lines) /\ k + 1 \in 0 .. Len(q.lines)
  BY <1>1
<1>3. HeaderIsClear(q.lines[k + 1])
  BY <1>2 DEF IsClear
<1> QED BY <1>2, <1>3, TextLayout

(* A step within the header lines, ...                                     *)
LEMMA HeadersGoOn ==
  ASSUME NEW k, InHeaders(k), p' = p + 1, SameLine(r'), UNCHANGED <<bufferVars, headers, handler, pc, answer>>,
         HeadersPlace(request, k, r', hash', i', state', p + 1)
  PROVE  Understood(k)' /\ AnswerIsTheRequests'
<1>1. p + 1 <= last /\ LineRead(request.line, r)
  BY HeadersFacts
<1>2. LineRead(request.line, r')
  BY <1>1 DEF LineRead, SameLine
<1>3. Reached(k, r, hash, i, state, p)'
  BY <1>1 DEF InHeaders, Reached, clientVars, bufferVars
<1>4. Understood(k)'
  BY <1>2, <1>3, GoesOn DEF InHeaders, SameLine, historyVars
<1>5. answer'.status = "none"
  BY DEF InHeaders, Understood
<1> QED BY <1>4, <1>5, NotAnswered

(* ... within one of them.                                                 *)
LEMMA HeaderGoesOn ==
  ASSUME NEW k, InHeaders(k), p' = p + 1, SameLine(r'), UNCHANGED <<bufferVars, headers, handler, pc, answer>>,
         k < Len(request.lines),
         HeaderPlace(request.lines[k + 1], From(request, k), r', hash', i', state', p + 1)
  PROVE  Understood(k)' /\ AnswerIsTheRequests'
<1>1. HeadersPlace(request, k, r', hash', i', state', p + 1)
  BY DEF HeadersPlace
<1> QED BY <1>1, HeadersGoOn

(* A header line that is not good is refused.                              *)
LEMMA HeaderRefused ==
  ASSUME NEW k, InHeaders(k), Refuse, k < Len(request.lines), ~GoodHeader(request.lines[k + 1])
  PROVE  Understood(k)' /\ AnswerIsTheRequests'
<1>1. k + 1 \in 1 .. Len(request.lines)
  BY HeaderFacts DEF InHeaders
<1>2. ~ForWebsocket(request)
  BY <1>1 DEF ForWebsocket
<1> QED BY <1>2, Refused DEF InHeaders

(* A header line is complete.                                              *)
LEMMA HeaderDoneKept ==
  ASSUME NEW k, InHeaders(k), NEW c \in RequestType, HeaderDone(c), SameLine(c), k < Len(request.lines),
         HeaderRead(request.lines[k + 1], From(request, k), c, hash, i, p)
  PROVE  Understood(k)' /\ AnswerIsTheRequests'
<1> DEFINE d == [c EXCEPT !.state = "start", !.header_hash = hash, !.lowcase_index = i]
           h == request.lines[k + 1]
           s == From(request, k)
<1>1. /\ pos' = p + 1 /\ pc' = "entry" /\ r' = d
      /\ UNCHANGED <<buffer, last, parserVars, headers, handler, answer>> /\ UNCHANGED clientVars /\ UNCHANGED historyVars
  BY DEF HeaderDone, InHeaders
<1>2. /\ d.state = "start" /\ d.header_hash = hash /\ d.lowcase_index = i /\ d.upgrade = c.upgrade /\ d.key = c.key
      /\ d.request_end = c.request_end /\ d.request_start = c.request_start /\ d.uri_start = c.uri_start
      /\ d.uri_end = c.uri_end /\ d.http_protocol = c.http_protocol /\ d.invalid_header = c.invalid_header
      /\ d.lowcase_header = c.lowcase_header /\ d.name_start = c.name_start /\ d.name_end = c.name_end
      /\ d.header_start = c.header_start /\ d.header_end = c.header_end
  BY DEF RequestType
<1> HIDE DEF d
<1>3. LineRead(request.line, r) /\ p + 1 <= last /\ p \in Nat
  BY HeadersFacts
<1>4. LineRead(request.line, d)
  BY <1>2, <1>3 DEF LineRead, SameLine
<1>5. HeaderRead(h, s, d, hash, i, p)
  <2>1. HeaderRead(h, s, c, hash, i, p)
    OBVIOUS
  <2> HIDE DEF h, s
  <2> QED BY <1>2, <2>1 DEF HeaderRead, NameRead, CharactersRead, ValueRead
<1>6. d.upgrade = r.upgrade /\ d.key = r.key
  BY <1>2 DEF SameLine
<1>7. Arrived' /\ Untouched(k)' /\ HeadersRead(k, r.upgrade, r.key)'
  <2>1. Arrived /\ Untouched(k) /\ HeadersRead(k, r.upgrade, r.key)
    BY DEF InHeaders, Understood
  <2>2. /\ request' = request /\ stream' = stream /\ last' = last /\ buffer' = buffer /\ headers' = headers
        /\ overread' = overread /\ r'.upgrade = r.upgrade /\ r'.key = r.key
    BY <1>1, <1>6 DEF clientVars, historyVars
  <2>3. Arrived' /\ Untouched(k)'
    BY <2>1, <2>2 DEF Arrived, Untouched
  <2>4. HeadersRead(k, r.upgrade, r.key)'
    BY <2>1, <2>2 DEF HeadersRead, KeyRead
  <2> QED BY <2>3, <2>4
<1>8. handler' = "headers" /\ LineRead(request.line, r)' /\ (LineEnd(request.line) <= last)'
  BY <1>1, <1>4 DEF InHeaders, Understood, LineRead, clientVars
<1>9. pos' <= last' /\ pos' - 1 = p /\ r'.header_hash = hash /\ r'.lowcase_index = i /\ r'.state = "start"
  BY <1>1, <1>2, <1>3
<1>10. (k < Len(request.lines) /\ HeaderRead(request.lines[k + 1], From(request, k), r, r.header_hash, r.lowcase_index, pos - 1))'
  <2>1. request' = request
    BY <1>1 DEF clientVars
  <2> HIDE DEF h, s
  <2>2. HeaderRead(h, s, r', hash, i, pos' - 1)
    BY <1>1, <1>5, <1>9
  <2> QED BY <1>9, <2>1, <2>2 DEF h, s
<1>11. Understood(k)' /\ answer'.status = "none"
  BY <1>1, <1>7, <1>8, <1>9, <1>10 DEF InHeaders, Understood
<1> QED BY <1>11, NotAnswered

(* A step that reads one cell of a header line, ...                        *)
LEMMA HeaderStep ==
  ASSUME NEW k, InHeaders(k), k < Len(request.lines), NEW st, NEW c, Step(st, c), SameLine(c),
         HeaderPlace(request.lines[k + 1], From(request, k), c, hash, i, st, p + 1)
  PROVE  Understood(k)' /\ AnswerIsTheRequests'
<1>1. /\ state' = st /\ r' = c /\ p' = p + 1 /\ hash' = hash /\ i' = i
      /\ UNCHANGED <<bufferVars, headers, handler, pc, answer>>
  BY DEF Step
<1>2. SameLine(r') /\ HeaderPlace(request.lines[k + 1], From(request, k), r', hash', i', state', p + 1)
  BY <1>1
<1> QED BY <1>1, <1>2, HeaderGoesOn

(* ... one of its name.                                                    *)
LEMMA HeaderCharacter ==
  ASSUME NEW k, InHeaders(k), k < Len(request.lines), NEW c, NEW ch, NEW g, NEW j, NameCharacter(c, ch, g, j),
         SameLine([c EXCEPT !.lowcase_header[j] = Lowcase(ch)]),
         HeaderPlace(request.lines[k + 1], From(request, k), [c EXCEPT !.lowcase_header[j] = Lowcase(ch)],
                     Append(g, Lowcase(ch)), (j + 1) % LC, "name", p + 1)
  PROVE  Understood(k)' /\ AnswerIsTheRequests'
<1>1. /\ state' = "name" /\ r' = [c EXCEPT !.lowcase_header[j] = Lowcase(ch)] /\ p' = p + 1
      /\ hash' = Append(g, Lowcase(ch)) /\ i' = (j + 1) % LC
      /\ UNCHANGED <<bufferVars, headers, handler, pc, answer>>
  BY DEF NameCharacter
<1>2. SameLine(r') /\ HeaderPlace(request.lines[k + 1], From(request, k), r', hash', i', state', p + 1)
  BY <1>1
<1> QED BY <1>1, <1>2, HeaderGoesOn

(* Setting what belongs to a header line leaves the line alone.            *)
LEMMA SetSameLine ==
  ASSUME NEW c \in RequestType, SameLine(c)
  PROVE  /\ \A v : SameLine([c EXCEPT !.name_start = v])
         /\ \A v : SameLine([c EXCEPT !.name_end = v])
         /\ \A v : SameLine([c EXCEPT !.header_start = v])
         /\ \A v : SameLine([c EXCEPT !.header_end = v])
         /\ \A v : SameLine([c EXCEPT !.invalid_header = v])
         /\ \A v : SameLine([c EXCEPT !.lowcase_header = v])
<1>1. ASSUME NEW v PROVE SameLine([c EXCEPT !.name_start = v])
  BY DEF SameLine, RequestType
<1>2. ASSUME NEW v PROVE SameLine([c EXCEPT !.name_end = v])
  BY DEF SameLine, RequestType
<1>3. ASSUME NEW v PROVE SameLine([c EXCEPT !.header_start = v])
  BY DEF SameLine, RequestType
<1>4. ASSUME NEW v PROVE SameLine([c EXCEPT !.header_end = v])
  BY DEF SameLine, RequestType
<1>5. ASSUME NEW v PROVE SameLine([c EXCEPT !.invalid_header = v])
  BY DEF SameLine, RequestType
<1>6. ASSUME NEW v PROVE SameLine([c EXCEPT !.lowcase_header = v])
  BY DEF SameLine, RequestType
<1> QED BY <1>1, <1>2, <1>3, <1>4, <1>5, <1>6

(* The place in a header line, in a state of one.                          *)
LEMMA InAHeader ==
  ASSUME NEW k, InHeaders(k), state \notin {"start", "header_almost_done"}
  PROVE  /\ k < Len(request.lines)
         /\ HeaderPlace(request.lines[k + 1], From(request, k), r, hash, i, state, p)
         /\ HeaderIsClear(request.lines[k + 1]) /\ From(request, k) \in Nat
         /\ HeaderIn(request.lines[k + 1], Text(request), From(request, k))
         /\ r \in RequestType /\ buffer[p] = Text(request)[p] /\ Text(request)[p] \in Cell /\ p \in Nat /\ p \in 0 .. End
         /\ hash \in Seq(Cell) /\ i \in 0 .. LC - 1 /\ SameLine(r)
<1>1. k < Len(request.lines) /\ HeaderPlace(request.lines[k + 1], From(request, k), r, hash, i, state, p)
  BY HeadersFacts DEF HeadersPlace
<1>2. p \in 0 .. End
  BY HeadersFacts
<1> QED BY <1>1, <1>2, HeaderFacts, HeadersFacts DEF InHeaders, SameLine

(* The parser of header lines reads the name, ...                          *)
LEMMA NameKept ==
  ASSUME NEW k, InHeaders(k), Name(buffer[p])
  PROVE  Understood(k)' /\ AnswerIsTheRequests'
<1> DEFINE h == request.lines[k + 1]
           s == From(request, k)
           t == Text(request)
           ch == t[p]
           a == [r EXCEPT !.name_end = p]
           b == [a EXCEPT !.header_start = p]
           none == [b EXCEPT !.header_end = p]
           bad == [r EXCEPT !.invalid_header = TRUE]
           named == [r EXCEPT !.lowcase_header[i] = Lowcase(ch)]
<1>1. state = "name"
  BY DEF Name
<1>2. /\ k < Len(request.lines) /\ HeaderPlace(h, s, r, hash, i, "name", p)
      /\ HeaderIsClear(h) /\ s \in Nat /\ HeaderIn(h, t, s)
      /\ r \in RequestType /\ buffer[p] = ch /\ ch \in Cell /\ p \in Nat /\ p \in 0 .. End
      /\ hash \in Seq(Cell) /\ i \in 0 .. LC - 1 /\ SameLine(r)
  BY <1>1, InAHeader
<1>3. /\ a \in RequestType /\ b \in RequestType /\ none \in RequestType
      /\ SameLine(a) /\ SameLine(b) /\ SameLine(none) /\ SameLine(bad)
  <2>1. a \in RequestType /\ SameLine(a)
    BY <1>2, SetPointer, SetSameLine
  <2> HIDE DEF a
  <2>2. b \in RequestType /\ SameLine(b)
    BY <1>2, <2>1, SetPointer, SetSameLine
  <2> HIDE DEF b
  <2>3. none \in RequestType /\ SameLine(none)
    BY <1>2, <2>2, SetPointer, SetSameLine
  <2> QED BY <1>2, <2>1, <2>2, <2>3, SetSameLine
<1>4. SameLine(named)
  <2> PICK v : v = [r.lowcase_header EXCEPT ![i] = Lowcase(ch)]
    OBVIOUS
  <2>1. named = [r EXCEPT !.lowcase_header = v]
    OBVIOUS
  <2> QED BY <1>2, <2>1, SetSameLine
<1>5. none = [r EXCEPT !.name_end = p, !.header_start = p, !.header_end = p]
  OBVIOUS
<1>6. /\ Named(ch) => HeaderPlace(h, s, named, Append(hash, Lowcase(ch)), (i + 1) % LC, "name", p + 1)
      /\ ch = ":" => HeaderPlace(h, s, a, hash, i, "space_before_value", p + 1)
      /\ ch = "cr" => HeaderPlace(h, s, none, hash, i, "almost_done", p + 1)
      /\ ch = "lf" => HeaderRead(h, s, none, hash, i, p)
      /\ ch = "nul" => ~GoodHeader(h)
      /\ ch \notin {":", "cr", "lf", "nul"} /\ ~Named(ch) => HeaderPlace(h, s, bad, hash, i, "name", p + 1)
  <2> HIDE DEF none
  <2> QED BY <1>2, <1>5, AfterName
<1>7. \/ Named(ch) /\ NameCharacter(r, ch, hash, i)
      \/ ch = ":" /\ Step("space_before_value", a)
      \/ ch = "cr" /\ Step("almost_done", none)
      \/ ch = "lf" /\ HeaderDone(none)
      \/ ch = "nul" /\ Refuse
      \/ ch \notin {":", "cr", "lf", "nul"} /\ ~Named(ch) /\ Step("name", bad)
  BY <1>1, <1>2, <1>5 DEF Name
<1>8. CASE Named(ch) /\ NameCharacter(r, ch, hash, i)
  <2> HIDE DEF h, s, t
  <2>1. HeaderPlace(request.lines[k + 1], From(request, k), named, Append(hash, Lowcase(ch)), (i + 1) % LC, "name", p + 1)
    BY <1>6, <1>8 DEF h, s
  <2> QED BY <1>2, <1>4, <1>8, <2>1, HeaderCharacter
<1> HIDE DEF none, a, bad, named
<1> QED BY <1>2, <1>3, <1>6, <1>7, <1>8, HeaderStep, HeaderDoneKept, HeaderRefused

(* ... skips the spaces before the value, ...                              *)
LEMMA SpaceBeforeValueKept ==
  ASSUME NEW k, InHeaders(k), SpaceBeforeValue(buffer[p])
  PROVE  Understood(k)' /\ AnswerIsTheRequests'
<1> DEFINE h == request.lines[k + 1]
           s == From(request, k)
           t == Text(request)
           ch == t[p]
           a == [r EXCEPT !.header_start = p]
           none == [a EXCEPT !.header_end = p]
<1>1. state = "space_before_value"
  BY DEF SpaceBeforeValue
<1>2. /\ k < Len(request.lines) /\ HeaderPlace(h, s, r, hash, i, "space_before_value", p)
      /\ HeaderIsClear(h) /\ s \in Nat /\ HeaderIn(h, t, s)
      /\ r \in RequestType /\ buffer[p] = ch /\ ch \in Cell /\ p \in Nat /\ p \in 0 .. End
      /\ hash \in Seq(Cell) /\ i \in 0 .. LC - 1 /\ SameLine(r)
  BY <1>1, InAHeader
<1>3. /\ none \in RequestType /\ SameLine(a) /\ SameLine(none)
  <2>1. a \in RequestType /\ SameLine(a)
    BY <1>2, SetPointer, SetSameLine
  <2> HIDE DEF a
  <2>2. none \in RequestType /\ SameLine(none)
    BY <1>2, <2>1, SetPointer, SetSameLine
  <2> QED BY <2>1, <2>2
<1>4. none = [r EXCEPT !.header_start = p, !.header_end = p]
  OBVIOUS
<1>5. /\ ch = "sp" => HeaderPlace(h, s, r, hash, i, "space_before_value", p + 1)
      /\ ch = "cr" => HeaderPlace(h, s, none, hash, i, "almost_done", p + 1)
      /\ ch = "lf" => HeaderRead(h, s, none, hash, i, p)
      /\ ch = "nul" => ~GoodHeader(h)
      /\ ch \notin {"sp", "cr", "lf", "nul"} => HeaderPlace(h, s, a, hash, i, "value", p + 1)
  <2> HIDE DEF none
  <2> QED BY <1>2, <1>4, AfterSpaceBeforeValue
<1>6. \/ ch = "sp" /\ Step("space_before_value", r)
      \/ ch = "cr" /\ Step("almost_done", none)
      \/ ch = "lf" /\ HeaderDone(none)
      \/ ch = "nul" /\ Refuse
      \/ ch \notin {"sp", "cr", "lf", "nul"} /\ Step("value", a)
  BY <1>1, <1>2, <1>4 DEF SpaceBeforeValue
<1> HIDE DEF none, a
<1> QED BY <1>2, <1>3, <1>5, <1>6, HeaderStep, HeaderDoneKept, HeaderRefused

(* ... reads the value, ...                                                *)
LEMMA InValueKept ==
  ASSUME NEW k, InHeaders(k), InValue(buffer[p])
  PROVE  Understood(k)' /\ AnswerIsTheRequests'
<1> DEFINE h == request.lines[k + 1]
           s == From(request, k)
           t == Text(request)
           ch == t[p]
           q == [r EXCEPT !.header_end = p]
<1>1. state = "value"
  BY DEF InValue
<1>2. /\ k < Len(request.lines) /\ HeaderPlace(h, s, r, hash, i, "value", p)
      /\ HeaderIsClear(h) /\ s \in Nat /\ HeaderIn(h, t, s)
      /\ r \in RequestType /\ buffer[p] = ch /\ ch \in Cell /\ p \in Nat /\ p \in 0 .. End
      /\ hash \in Seq(Cell) /\ i \in 0 .. LC - 1 /\ SameLine(r)
  BY <1>1, InAHeader
<1>3. q \in RequestType /\ SameLine(q)
  BY <1>2, SetPointer, SetSameLine
<1>4. q = [r EXCEPT !.header_end = p]
  OBVIOUS
<1>5. /\ ch = "sp" => HeaderPlace(h, s, q, hash, i, "space_after_value", p + 1)
      /\ ch = "cr" => HeaderPlace(h, s, q, hash, i, "almost_done", p + 1)
      /\ ch = "lf" => HeaderRead(h, s, q, hash, i, p)
      /\ ch = "nul" => ~GoodHeader(h)
      /\ ch \notin {"sp", "cr", "lf", "nul"} => HeaderPlace(h, s, r, hash, i, "value", p + 1)
  <2> HIDE DEF q
  <2> QED BY <1>2, <1>4, AfterValueCell
<1>6. \/ ch = "sp" /\ Step("space_after_value", q)
      \/ ch = "cr" /\ Step("almost_done", q)
      \/ ch = "lf" /\ HeaderDone(q)
      \/ ch = "nul" /\ Refuse
      \/ ch \notin {"sp", "cr", "lf", "nul"} /\ Step("value", r)
  BY <1>1, <1>2 DEF InValue
<1> HIDE DEF q
<1> QED BY <1>2, <1>3, <1>5, <1>6, HeaderStep, HeaderDoneKept, HeaderRefused

(* ... the spaces behind it, ...                                           *)
LEMMA SpaceAfterValueKept ==
  ASSUME NEW k, InHeaders(k), SpaceAfterValue(buffer[p])
  PROVE  Understood(k)' /\ AnswerIsTheRequests'
<1> DEFINE h == request.lines[k + 1]
           s == From(request, k)
           t == Text(request)
           ch == t[p]
<1>1. state = "space_after_value"
  BY DEF SpaceAfterValue
<1>2. /\ k < Len(request.lines) /\ HeaderPlace(h, s, r, hash, i, "space_after_value", p)
      /\ HeaderIsClear(h) /\ s \in Nat /\ HeaderIn(h, t, s)
      /\ r \in RequestType /\ buffer[p] = ch /\ ch \in Cell /\ p \in Nat /\ p \in 0 .. End
      /\ hash \in Seq(Cell) /\ i \in 0 .. LC - 1 /\ SameLine(r)
  BY <1>1, InAHeader
<1>3. /\ ch = "sp" => HeaderPlace(h, s, r, hash, i, "space_after_value", p + 1)
      /\ ch = "cr" => HeaderPlace(h, s, r, hash, i, "almost_done", p + 1)
      /\ ch = "lf" => HeaderRead(h, s, r, hash, i, p)
      /\ ch = "nul" => ~GoodHeader(h)
      /\ ch \notin {"sp", "cr", "lf", "nul"} => HeaderPlace(h, s, r, hash, i, "value", p + 1)
  BY <1>2, AfterSpaceAfterValue
<1>4. \/ ch = "sp" /\ Step("space_after_value", r)
      \/ ch = "cr" /\ Step("almost_done", r)
      \/ ch = "lf" /\ HeaderDone(r)
      \/ ch = "nul" /\ Refuse
      \/ ch \notin {"sp", "cr", "lf", "nul"} /\ Step("value", r)
  BY <1>1, <1>2 DEF SpaceAfterValue
<1> QED BY <1>2, <1>3, <1>4, HeaderStep, HeaderDoneKept, HeaderRefused

(* ... and what follows a CR.                                              *)
LEMMA HeaderCrKept ==
  ASSUME NEW k, InHeaders(k), state = "almost_done", HeaderAlmostDone(buffer[p])
  PROVE  Understood(k)' /\ AnswerIsTheRequests'
<1> DEFINE h == request.lines[k + 1]
           s == From(request, k)
           t == Text(request)
           ch == t[p]
<1>1. /\ k < Len(request.lines) /\ HeaderPlace(h, s, r, hash, i, "almost_done", p)
      /\ HeaderIsClear(h) /\ s \in Nat /\ HeaderIn(h, t, s)
      /\ r \in RequestType /\ buffer[p] = ch /\ ch \in Cell /\ p \in Nat /\ p \in 0 .. End
      /\ hash \in Seq(Cell) /\ i \in 0 .. LC - 1 /\ SameLine(r)
  BY InAHeader
<1>2. /\ ch = "lf" => HeaderRead(h, s, r, hash, i, p)
      /\ ch = "cr" => HeaderPlace(h, s, r, hash, i, "almost_done", p + 1)
      /\ ch \notin {"lf", "cr"} => ~GoodHeader(h)
  BY <1>1, AfterHeaderCr
<1>3. \/ ch = "lf" /\ HeaderDone(r)
      \/ ch = "cr" /\ Step("almost_done", r)
      \/ ch \notin {"cr", "lf"} /\ Refuse
  BY <1>1 DEF HeaderAlmostDone
<1> QED BY <1>1, <1>2, <1>3, HeaderStep, HeaderDoneKept, HeaderRefused

-------------------------------------------------------------------------------
(* The end of the headers, and the decision.                               *)

(* The largest of some numbers up to n.                                    *)
LEMMA MaxIs ==
  ASSUME NEW n \in Nat, NEW S, S \subseteq 1 .. n, S # {}
  PROVE  Max(S) \in S /\ \A y \in S : y <= Max(S)
<1> DEFINE D == {m \in 0 .. n : \A y \in S : y <= m}
<1>1. D \subseteq Nat /\ n \in D
  OBVIOUS
<1>2. PICK m \in D : \A x \in D : <<x, m>> \notin OpToRel(<, Nat)
  <2> HIDE DEF D
  <2> QED BY <1>1, NatLessThanWellFounded, WFMin
<1>3. m \in 0 .. n /\ \A y \in S : y <= m
  OBVIOUS
<1>4. m \in S
  <2> SUFFICES ASSUME m \notin S PROVE FALSE
    OBVIOUS
  <2>1. \A y \in S : y \in 1 .. n /\ y <= m /\ y # m
    BY <1>3
  <2>2. m > 0
    <3>1. PICK y \in S : y \in 1 .. n /\ y <= m
      BY <2>1
    <3> QED BY <1>3, <3>1
  <2>3. m - 1 \in 0 .. n /\ \A y \in S : y <= m - 1
    BY <1>3, <2>1, <2>2
  <2>4. m - 1 \in D /\ m - 1 < m /\ m - 1 \in Nat /\ m \in Nat
    BY <1>3, <2>2, <2>3
  <2>5. <<m - 1, m>> \in OpToRel(<, Nat)
    BY <2>4 DEF OpToRel
  <2> QED BY <1>2, <2>4, <2>5
<1>5. \E x \in S : \A y \in S : x >= y
  BY <1>3, <1>4
<1> DEFINE x == Max(S)
<1>6. x \in S /\ \A y \in S : x >= y
  BY <1>5 DEF Max
<1>7. \A y \in S : y \in 1 .. n
  OBVIOUS
<1> HIDE DEF x
<1>8. x \in S /\ \A y \in S : y <= x
  BY <1>6, <1>7
<1> QED BY <1>8 DEF x

(* A number above all others is the largest.                               *)
LEMMA MaxOfNext ==
  ASSUME NEW n \in Nat, NEW S, S \subseteq 1 .. n + 1, n + 1 \in S
  PROVE  Max(S) = n + 1
<1> DEFINE x == Max(S)
<1>1. n + 1 \in Nat /\ S # {}
  OBVIOUS
<1>2. x \in S /\ \A y \in S : y <= x
  BY <1>1, MaxIs
<1> HIDE DEF x
<1>3. x \in 1 .. n + 1 /\ n + 1 <= x
  BY <1>2
<1>4. x = n + 1
  BY <1>3
<1> QED BY <1>4 DEF x

(* What was kept of a key is a C string, and the string is the key.        *)
LEMMA KeyIsAString ==
  ASSUME TypeOK, NEW key, NEW v, NEW upto \in Nat, KeyRead(key, v, upto)
  PROVE  CString(key) = v
<1> DEFINE e0 == key + Len(v)
           IsEnd(e) == (e > End \/ buffer[e] = "nul") /\ \A j \in key .. e - 1 : buffer[j] # "nul"
           e1 == CHOOSE e \in key .. End + 1 : IsEnd(e)
<1>1. /\ key \in 1 .. End /\ v \in Seq(Cell) /\ key + Len(v) < upto /\ upto <= last
      /\ \A m \in 1 .. Len(v) : v[m] # "nul" /\ buffer[key + m - 1] = v[m]
      /\ buffer[key + Len(v)] = "nul" /\ Len(v) \in Nat /\ last \in 1 .. End + 1 /\ End \in Nat
  BY LenProperties, HttpAssumption DEF KeyRead, TypeOK
<1>2. \A n \in key .. e0 - 1 : /\ n - key + 1 \in 1 .. Len(v) /\ key + (n - key + 1) - 1 = n
                               /\ v[n - key + 1] # "nul" /\ buffer[key + (n - key + 1) - 1] = v[n - key + 1]
  <2>1. \A n \in key .. e0 - 1 : n - key + 1 \in 1 .. Len(v) /\ key + (n - key + 1) - 1 = n
    BY <1>1
  <2> QED BY <1>1, <2>1
<1>3. \A n \in key .. e0 - 1 : buffer[n] = v[n - key + 1] /\ buffer[n] # "nul"
  BY <1>2
<1>4. IsEnd(e0) /\ e0 \in key .. End + 1
  BY <1>1, <1>3
<1>5. ASSUME NEW e \in key .. End + 1, IsEnd(e) PROVE e = e0
  <2>1. CASE e < e0
    <3>1. e \in key .. e0 - 1 /\ e <= End
      BY <1>1, <2>1
    <3>2. ~(e > End)
      BY <1>1, <3>1
    <3>3. buffer[e] = "nul"
      BY <1>5, <3>2 DEF IsEnd
    <3> QED BY <1>3, <3>1, <3>3
  <2>2. CASE e0 < e
    <3>1. e0 \in key .. e - 1
      BY <1>1, <2>2
    <3> QED BY <1>1, <1>5, <3>1 DEF IsEnd, e0
  <2>3. e \in Int /\ e0 \in Int
    BY <1>1
  <2> QED BY <2>1, <2>2, <2>3
<1> HIDE DEF IsEnd, e0
<1>6. e1 = e0
  BY <1>4, <1>5
<1>7. CString(key) = SubSeq(buffer, key, e1 - 1)
  BY DEF CString, IsEnd
<1>8. Spans(buffer, key, e0, v) /\ key \in Nat /\ e0 \in Nat
  BY <1>1, <1>3 DEF Spans, e0
<1>9. SubSeq(buffer, key, e0 - 1) = v
  BY <1>1, <1>8, CutOut
<1> HIDE DEF e1
<1> QED BY <1>6, <1>7, <1>9

(* The whole request is understood when it is decided on, and the key that *)
(* is answered is the last one.                                            *)
LEMMA Decided ==
  ASSUME NEW k, InHeaders(k), k = Len(request.lines), Complete(request), Len(Text(request)) <= End, Decide
  PROVE  Understood(k)' /\ AnswerIsTheRequests'
<1>1. /\ HeadersRead(k, r.upgrade, r.key) /\ LineRead(request.line, r) /\ TypeOK /\ Understood(k)
      /\ request' = request /\ overread' = overread
  BY DEF InHeaders, Understood, clientVars, historyVars
<1>2. /\ headers = Headers(request) /\ headers = HeadersOf(request.lines)[k]
      /\ \A j \in 1 .. Len(request.lines) : GoodHeader(request.lines[j])
  BY <1>1 DEF HeadersRead, Headers
<1>3. ~overread => (ForWebsocket(request) <=> r.upgrade /\ r.key # 0)
  BY <1>1, <1>2 DEF ForWebsocket, HeadersRead, LineRead
<1>4. CASE r.upgrade /\ r.key # 0
  <2>1. Finish("101", CString(r.key))
    BY <1>4 DEF Decide
  <2>2. /\ answer' = [status |-> "101", key |-> CString(r.key)] /\ pc' = "done" /\ UNCHANGED bufferVars
        /\ UNCHANGED <<r, headers, handler, overread, request, stream>>
    BY <2>1 DEF Finish, clientVars, historyVars, InHeaders
  <2>3. CString(r.key) = headers[Max(Keys(headers))].value
    <3>1. KeyRead(r.key, headers[Max(Keys(headers))].value, From(request, k))
      BY <1>1, <1>4 DEF HeadersRead
    <3>2. From(request, k) \in Nat
      BY TextLayout DEF InHeaders
    <3> QED BY <1>1, <3>1, <3>2, KeyIsAString
  <2>4. AnswerIsTheRequests'
    BY <1>2, <1>3, <1>4, <2>2, <2>3 DEF AnswerIsTheRequests
  <2>5. Arrived' /\ Untouched(k)' /\ HeadersRead(k, r.upgrade, r.key)'
    <3>1. Arrived' /\ Untouched(k)'
      BY <1>1, <2>2 DEF Understood, Arrived, Untouched, bufferVars
    <3>2. HeadersRead(k, r.upgrade, r.key)'
      BY <1>1, <2>2 DEF HeadersRead, KeyRead, bufferVars
    <3> QED BY <3>1, <3>2
  <2>6. handler' = "headers" => LineRead(request.line, r)' /\ (LineEnd(request.line) <= last)'
    BY <1>1, <2>2 DEF Understood, LineRead, bufferVars
  <2> QED BY <2>2, <2>4, <2>5, <2>6 DEF Understood
<1>5. CASE ~(r.upgrade /\ r.key # 0)
  <2>1. Refuse /\ Finish("403", <<>>)
    BY <1>5 DEF Decide, Refuse
  <2>2. Understood(k)' /\ answer' = [status |-> "403", key |-> <<>>] /\ request' = request
    BY <1>1, <2>1, Ended403 DEF InHeaders
  <2> QED BY <1>1, <1>3, <1>5, <2>2 DEF AnswerIsTheRequests
<1> QED BY <1>4, <1>5

-------------------------------------------------------------------------------
(* The start of a header line, or of the end of the headers.               *)

(* Behind the last header line is the end of the request.                  *)
LEMMA AtTheEnd ==
  ASSUME NEW k, InHeaders(k), k = Len(request.lines), NEW n \in Nat, p = From(request, k) + n
  PROVE  /\ n + 1 \in 1 .. Len(request.end) /\ buffer[p] = request.end[n + 1] /\ Ended(request.end)
         /\ n + 1 = Len(request.end) => Len(Text(request)) <= End
<1> DEFINE s == From(request, k)
           e == 1 + Len(Text(request))
<1>1. /\ IsClear(request) /\ Arrived /\ p < last /\ p \in Nat /\ p \in 1 .. End /\ buffer[p] = Text(request)[p]
      /\ k \in 0 .. Len(request.lines) /\ last \in 1 .. End + 1
  BY HeadersFacts DEF InHeaders, Understood, TypeOK
<1>2. /\ Spans(Text(request), s, e, request.end) /\ s \in Nat
      /\ s + Len(request.end) = e /\ Len(Text(request)) \in Nat /\ Len(request.end) \in Nat
  BY <1>1, TextLayout, Ends
<1>3. last <= e /\ e \in Nat
  BY <1>1, <1>2, HttpAssumption DEF Arrived
<1> DEFINE m == Len(request.end)
           u == Len(Text(request))
<1>4. p = s + n /\ e = 1 + u /\ s + m = e /\ m \in Nat /\ u \in Nat
  BY <1>2
<1> HIDE DEF s, e, m, u
<1>5. n + 1 <= m
  BY <1>1, <1>2, <1>3, <1>4, HttpAssumption
<1>6. p \in s .. e - 1 /\ p - s + 1 = n + 1 /\ n + 1 \in 1 .. m
  BY <1>1, <1>2, <1>3, <1>4, <1>5, HttpAssumption
<1>7. n + 1 = m => u <= End
  <2>1. s \in Nat /\ p \in 1 .. End /\ End \in Nat
    BY <1>1, <1>2, HttpAssumption
  <2> QED BY <1>4, <2>1
<1>8. Text(request)[p] = request.end[n + 1]
  BY <1>2, <1>6 DEF Spans
<1>9. Ended(request.end)
  <2>1. request.end # <<>>
    BY <1>6 DEF m
  <2> QED BY <1>1, <2>1 DEF IsClear
<1> QED BY <1>1, <1>6, <1>7, <1>8, <1>9 DEF m, u

(* The first cell of the end of the request, ...                           *)
LEMMA EndStartKept ==
  ASSUME NEW k, InHeaders(k), HeaderStart(buffer[p]), k = Len(request.lines)
  PROVE  Understood(k)' /\ AnswerIsTheRequests'
<1> DEFINE ch == buffer[p]
           a == [r EXCEPT !.name_start = p]
           d == [a EXCEPT !.invalid_header = FALSE]
           q == [d EXCEPT !.header_end = p]
<1>1. state = "start" /\ k \in 0 .. Len(request.lines)
  BY DEF HeaderStart, InHeaders
<1>2. HeadersPlace(request, k, r, hash, i, "start", p) /\ r \in RequestType /\ p \in 0 .. End /\ p \in Nat
  BY <1>1, HeadersFacts
<1>3. Len(request.lines) \in Nat
  BY Ends DEF InHeaders
<1>4. p = From(request, k)
  BY <1>1, <1>2, <1>3 DEF HeadersPlace
<1>5. PICK z \in Nat : z = 0 /\ p = From(request, k) + z /\ z + 1 = 1
  <2>1. p = p + 0
    BY <1>2
  <2> QED BY <1>4, <2>1
<1>6. 1 \in 1 .. Len(request.end) /\ ch = request.end[1] /\ Ended(request.end)
      /\ (1 = Len(request.end) => Len(Text(request)) <= End)
  BY <1>5, AtTheEnd
<1>7. \/ ch = "cr" /\ Len(request.end) = 2
      \/ ch = "lf" /\ request.end = <<"lf">> /\ Len(request.end) = 1
  <2>1. ch = request.end[1] /\ (request.end = <<"lf">> \/ (Len(request.end) = 2 /\ request.end[1] = "cr"))
    BY <1>6 DEF Ended
  <2> HIDE DEF ch
  <2>2. CASE request.end = <<"lf">>
    BY <2>1, <2>2
  <2> QED BY <2>1, <2>2
<1>8. CASE ch = "cr" /\ Len(request.end) = 2
  <2>1. q \in RequestType /\ SameLine(q)
    <3>1. r \in RequestType /\ SameLine(r)
      BY <1>2 DEF SameLine
    <3>2. a \in RequestType /\ SameLine(a)
      BY <1>2, <3>1, SetPointer, SetSameLine
    <3> HIDE DEF a
    <3>3. d \in RequestType /\ SameLine(d)
      BY <3>2, SetInvalid, SetSameLine
    <3> HIDE DEF d
    <3> QED BY <1>2, <3>3, SetPointer, SetSameLine
  <2>2. Step("header_almost_done", q)
    <3>1. q = [[r EXCEPT !.name_start = p, !.invalid_header = FALSE] EXCEPT !.header_end = p]
      OBVIOUS
    <3>2. ~Named("cr")
      BY DEF Named, Capitals, IsDigit
    <3> HIDE DEF q
    <3> QED BY <1>8, <3>1, <3>2 DEF HeaderStart
  <2> HIDE DEF q
  <2>3. /\ state' = "header_almost_done" /\ r' = q /\ p' = p + 1
        /\ UNCHANGED <<bufferVars, headers, handler, pc, answer>>
    BY <2>2 DEF Step
  <2>4. HeadersPlace(request, k, r', hash', i', state', p + 1)
    BY <1>4, <1>6, <1>8, <2>3 DEF HeadersPlace
  <2> QED BY <2>1, <2>3, <2>4, HeadersGoOn
<1>9. CASE ch = "lf" /\ request.end = <<"lf">> /\ Len(request.end) = 1
  <2>1. Decide
    <3>1. ~Named("lf")
      BY DEF Named, Capitals, IsDigit
    <3> QED BY <1>9, <3>1 DEF HeaderStart
  <2>2. Complete(request) /\ Len(Text(request)) <= End
    BY <1>6, <1>9 DEF Complete
  <2> QED BY <2>1, <2>2, Decided
<1> QED BY <1>7, <1>8, <1>9

(* ... and what follows a CR there.                                        *)
LEMMA EndKept ==
  ASSUME NEW k, InHeaders(k), state = "header_almost_done", HeaderAlmostDone(buffer[p])
  PROVE  Understood(k)' /\ AnswerIsTheRequests'
<1>1. HeadersPlace(request, k, r, hash, i, "header_almost_done", p)
  BY HeadersFacts
<1>2. k = Len(request.lines) /\ p = From(request, k) + 1 /\ Len(request.end) = 2 /\ request.end[1] = "cr"
  BY <1>1 DEF HeadersPlace, HeaderPlace
<1>3. PICK z \in Nat : z = 1 /\ p = From(request, k) + z /\ z + 1 = 2
  BY <1>2
<1>4. buffer[p] = request.end[2] /\ Ended(request.end) /\ Len(Text(request)) <= End
  BY <1>2, <1>3, AtTheEnd
<1>5. request.end \in Seq(Cell) /\ request.end # <<"lf">>
  BY <1>2 DEF InHeaders, IsClear
<1>6. IF buffer[p] = "lf" THEN Decide ELSE Refuse
  BY DEF HeaderAlmostDone
<1>7. CASE buffer[p] = "lf"
  <2>1. request.end = <<"cr", "lf">>
    <3> DEFINE e == request.end
    <3>1. e \in Seq(Cell) /\ Len(e) = 2 /\ e[1] = "cr" /\ e[2] = "lf"
      BY <1>2, <1>4, <1>5, <1>7
    <3> HIDE DEF e
    <3>2. <<"cr", "lf">> \in Seq(Cell) /\ Len(<<"cr", "lf">>) = 2
      BY DEF Cell
    <3>3. \A n \in 1 .. 2 : e[n] = <<"cr", "lf">>[n]
      BY <3>1
    <3>4. e = <<"cr", "lf">>
      BY <3>1, <3>2, <3>3, SeqEqual
    <3> QED BY <3>4 DEF e
  <2>2. Complete(request)
    BY <2>1 DEF Complete
  <2> QED BY <1>2, <1>4, <1>6, <1>7, <2>2, Decided
<1>8. CASE buffer[p] # "lf"
  <2>1. ~Complete(request)
    BY <1>4, <1>5, <1>8 DEF Complete
  <2>2. Refuse /\ ~ForWebsocket(request)
    BY <1>6, <1>8, <2>1 DEF ForWebsocket
  <2> QED BY <2>2, Refused DEF InHeaders
<1> QED BY <1>7, <1>8

(* The first cell of a header line.                                        *)
LEMMA HeaderStartKept ==
  ASSUME NEW k, InHeaders(k), HeaderStart(buffer[p]), k < Len(request.lines)
  PROVE  Understood(k)' /\ AnswerIsTheRequests'
<1> DEFINE h == request.lines[k + 1]
           s == From(request, k)
           t == Text(request)
           ch == t[p]
           a == [r EXCEPT !.name_start = p]
           d == [a EXCEPT !.invalid_header = FALSE]
           bad == [d EXCEPT !.invalid_header = TRUE]
           named == [d EXCEPT !.lowcase_header[0] = Lowcase(ch)]
<1>1. state = "start" /\ k \in 0 .. Len(request.lines) /\ IsClear(request)
  BY DEF HeaderStart, InHeaders
<1>2. /\ HeadersPlace(request, k, r, hash, i, "start", p) /\ r \in RequestType /\ buffer[p] = ch /\ ch \in Cell
      /\ p \in Nat /\ p \in 0 .. End /\ hash \in Seq(Cell) /\ i \in 0 .. LC - 1
  BY <1>1, HeadersFacts
<1>3. HeaderIsClear(h) /\ s \in Nat /\ HeaderIn(h, t, s) /\ Len(request.lines) \in Nat
  BY <1>1, HeaderFacts, Ends
<1>4. p = s
  <2>1. k \in Int
    BY <1>1
  <2> QED BY <1>2, <1>3, <2>1 DEF HeadersPlace, HeaderPlace
<1>5. /\ d \in RequestType /\ SameLine(d) /\ SameLine(bad) /\ SameLine(named)
  <2>1. r \in RequestType /\ SameLine(r)
    BY <1>2 DEF SameLine
  <2>2. a \in RequestType /\ SameLine(a)
    BY <1>2, <2>1, SetPointer, SetSameLine
  <2> HIDE DEF a
  <2>3. d \in RequestType /\ SameLine(d)
    BY <2>2, SetInvalid, SetSameLine
  <2> HIDE DEF d
  <2>4. SameLine(bad)
    BY <2>3, SetSameLine
  <2>5. SameLine(named)
    <3> PICK v : v = [d.lowcase_header EXCEPT ![0] = Lowcase(ch)]
      OBVIOUS
    <3>1. named = [d EXCEPT !.lowcase_header = v]
      OBVIOUS
    <3> QED BY <2>3, <3>1, SetSameLine
  <2> QED BY <2>3, <2>4, <2>5
<1>6. d = [r EXCEPT !.name_start = p, !.invalid_header = FALSE]
  OBVIOUS
<1>7. /\ ch \notin {":", "cr", "lf"}
      /\ Named(ch) => HeaderPlace(h, s, named, Append(<<>>, Lowcase(ch)), (0 + 1) % LC, "name", p + 1)
      /\ ch = "nul" => ~GoodHeader(h)
      /\ ch # "nul" /\ ~Named(ch) => HeaderPlace(h, s, bad, hash, i, "name", p + 1)
  <2> HIDE DEF d
  <2>1. p \in Nat /\ p \in 0 .. End /\ HeaderIn(h, t, p)
    BY <1>2, <1>3, <1>4
  <2> HIDE DEF h, t
  <2>2. /\ t[p] \notin {":", "cr", "lf"}
        /\ Named(t[p]) => HeaderPlace(h, p, [d EXCEPT !.lowcase_header[0] = Lowcase(t[p])], Append(<<>>, Lowcase(t[p])),
                                        (0 + 1) % LC, "name", p + 1)
        /\ t[p] = "nul" => ~GoodHeader(h)
        /\ t[p] # "nul" /\ ~Named(t[p]) => HeaderPlace(h, p, [d EXCEPT !.invalid_header = TRUE], hash, i, "name", p + 1)
    BY <1>2, <1>3, <1>6, <2>1, AfterHeaderStart
  <2> HIDE DEF s
  <2> QED BY <1>4, <2>2
<1>8. \/ Named(ch) /\ NameCharacter(d, ch, <<>>, 0)
      \/ ch = "nul" /\ Refuse
      \/ ch # "nul" /\ ~Named(ch) /\ Step("name", bad)
  <2> HIDE DEF d
  <2> QED BY <1>2, <1>6, <1>7 DEF HeaderStart
<1>9. CASE Named(ch) /\ NameCharacter(d, ch, <<>>, 0)
  <2> HIDE DEF h, s, t, d
  <2>1. HeaderPlace(request.lines[k + 1], From(request, k), named, Append(<<>>, Lowcase(ch)), (0 + 1) % LC, "name", p + 1)
    BY <1>7, <1>9 DEF h, s
  <2> QED BY <1>5, <1>9, <2>1, HeaderCharacter
<1> HIDE DEF a, d, bad, named
<1> QED BY <1>5, <1>7, <1>8, <1>9, HeaderStep, HeaderRefused

(* Every step of the parser of header lines keeps what is understood.      *)
LEMMA ParseHeadersKept ==
  ASSUME TypeOK, IsClear(request), NEW k \in 0 .. Len(request.lines), Understood(k), ParseHeaders
  PROVE  Understood(k)' /\ AnswerIsTheRequests'
<1>1. InHeaders(k)
  BY DEF InHeaders, ParseHeaders
<1>2. CASE HeaderStart(buffer[p])
  <2>1. k = Len(request.lines) \/ k < Len(request.lines)
    BY Ends
  <2> QED BY <1>1, <1>2, <2>1, EndStartKept, HeaderStartKept
<1>3. CASE HeaderAlmostDone(buffer[p])
  <2>1. state = "almost_done" \/ state = "header_almost_done"
    BY <1>3 DEF HeaderAlmostDone
  <2> QED BY <1>1, <1>3, <2>1, HeaderCrKept, EndKept
<1>4. \/ HeaderStart(buffer[p]) \/ Name(buffer[p]) \/ SpaceBeforeValue(buffer[p]) \/ InValue(buffer[p])
      \/ SpaceAfterValue(buffer[p]) \/ HeaderAlmostDone(buffer[p])
  BY DEF ParseHeaders
<1> QED BY <1>1, <1>2, <1>3, <1>4, NameKept, SpaceBeforeValueKept, InValueKept, SpaceAfterValueKept

-------------------------------------------------------------------------------
(* A header line is added to the list.                                     *)

InEntry(k) ==
  /\ TypeOK /\ IsClear(request) /\ k \in 0 .. Len(request.lines) /\ Understood(k)
  /\ pc = "entry"

(* What is known of a complete header line before it is added.             *)
LEMMA EntryFacts ==
  ASSUME NEW k, InEntry(k)
  PROVE  /\ k < Len(request.lines) /\ k + 1 \in 1 .. Len(request.lines) /\ k + 1 \in 0 .. Len(request.lines)
         /\ HeaderIsClear(request.lines[k + 1]) /\ From(request, k) \in Nat /\ From(request, k) > 0
         /\ HeaderIn(request.lines[k + 1], Text(request), From(request, k))
         /\ NameRead(request.lines[k + 1], From(request, k), r, r.header_hash, r.lowcase_index)
         /\ ValueRead(request.lines[k + 1], From(request, k), r) /\ GoodHeader(request.lines[k + 1])
         /\ From(request, k + 1) = HeaderEnd(request.lines[k + 1], From(request, k))
         /\ pos = From(request, k + 1) /\ From(request, k + 1) \in Nat /\ From(request, k + 1) <= last
         /\ LineEnd(request.line) <= From(request, k)
         /\ \A n \in From(request, k) .. From(request, k + 1) - 1 : n \in 1 .. End /\ buffer[n] = Text(request)[n]
<1>1. /\ IsClear(request) /\ k \in 0 .. Len(request.lines) /\ k < Len(request.lines) /\ pos <= last /\ Untouched(k)
      /\ HeaderRead(request.lines[k + 1], From(request, k), r, r.header_hash, r.lowcase_index, pos - 1)
  BY DEF InEntry, Understood
<1>2. /\ HeaderIsClear(request.lines[k + 1]) /\ From(request, k) \in Nat
      /\ HeaderIn(request.lines[k + 1], Text(request), From(request, k))
      /\ From(request, k + 1) = HeaderEnd(request.lines[k + 1], From(request, k))
      /\ k + 1 \in 1 .. Len(request.lines) /\ k + 1 \in 0 .. Len(request.lines) /\ From(request, k + 1) \in Nat
  BY <1>1, HeaderFacts
<1>3. pos \in Int /\ last \in 1 .. End + 1
  BY HttpAssumption DEF InEntry, TypeOK
<1>4. pos = From(request, k + 1)
  <2>1. pos - 1 + 1 = HeaderEnd(request.lines[k + 1], From(request, k))
    BY <1>1 DEF HeaderRead
  <2>2. pos - 1 + 1 = pos
    BY <1>3
  <2> QED BY <1>2, <2>1, <2>2
<1>5. LineEnd(request.line) <= From(request, k) /\ LineEnd(request.line) \in Nat /\ LineEnd(request.line) > 0
  <2>1. LineEnd(request.line) <= From(request, k) /\ LineEnd(request.line) \in Nat
    BY <1>1, TextLayout
  <2>2. LineEnd(request.line) = 1 + Len(LineText(request.line)) /\ Len(LineText(request.line)) \in Nat
    BY <1>1, Ends
  <2>3. \A x, y \in Nat : x = 1 + y => x > 0
    OBVIOUS
  <2> QED BY <2>1, <2>2, <2>3
<1>6. ASSUME NEW n \in From(request, k) .. From(request, k + 1) - 1 PROVE n \in 1 .. End /\ buffer[n] = Text(request)[n]
  <2>1. n \in 1 .. last - 1 /\ n >= From(request, k) /\ n \in 1 .. End
    BY <1>1, <1>2, <1>3, <1>4, <1>5, HttpAssumption
  <2> QED BY <1>1, <2>1 DEF Untouched
<1> QED BY <1>1, <1>2, <1>4, <1>5, <1>6 DEF HeaderRead

(* The name is where it is kept.                                           *)
LEMMA NameThatWasSent ==
  ASSUME NEW k, InEntry(k)
  PROVE  SubSeq(buffer, r.name_start, r.name_end - 1) = request.lines[k + 1].name
<1> DEFINE h == request.lines[k + 1]
           s == From(request, k)
           z == From(request, k + 1)
           t == Text(request)
<1>1. /\ HeaderIsClear(h) /\ s \in Nat /\ HeaderIn(h, t, s) /\ z = HeaderEnd(h, s)
      /\ r.name_start = s /\ r.name_end = NameEnd(h, s)
      /\ \A n \in s .. z - 1 : buffer[n] = t[n]
  BY EntryFacts DEF NameRead
<1> HIDE DEF h, s, z, t
<1>2. /\ NameEnd(h, s) \in Nat /\ z \in Nat /\ NameEnd(h, s) < z
  BY <1>1, HeaderOffsets
<1>3. Spans(t, s, NameEnd(h, s), h.name) /\ h.name \in Seq(Cell)
  BY <1>1 DEF HeaderIn, HeaderIsClear
<1>4. Spans(buffer, s, NameEnd(h, s), h.name)
  <2>1. \A n \in s .. NameEnd(h, s) - 1 : n \in s .. z - 1
    BY <1>1, <1>2
  <2> QED BY <1>1, <1>3, <2>1 DEF Spans
<1>5. SubSeq(buffer, s, NameEnd(h, s) - 1) = h.name
  BY <1>1, <1>2, <1>3, <1>4, CutOut, ZenonT(30)
<1> QED BY <1>1, <1>5 DEF h

(* The value is where it is kept, and it has no NUL.                       *)
LEMMA ValueThatWasSent ==
  ASSUME NEW k, InEntry(k)
  PROVE  /\ SubSeq(buffer, r.header_start, r.header_end - 1) = request.lines[k + 1].value
         /\ request.lines[k + 1].value \in Seq(Cell)
         /\ r.header_start \in 1 .. End /\ r.header_end \in 1 .. End
         /\ r.header_end = r.header_start + Len(request.lines[k + 1].value)
         /\ r.header_end < From(request, k + 1) /\ From(request, k) < r.name_end /\ r.name_end < From(request, k + 1)
         /\ r.name_end \in 1 .. End /\ From(request, k) < r.header_end
         /\ \A m \in 1 .. Len(request.lines[k + 1].value) :
              /\ request.lines[k + 1].value[m] # "nul" /\ buffer[r.header_start + m - 1] = request.lines[k + 1].value[m]
              /\ r.header_start + m - 1 # r.name_end /\ r.header_start + m - 1 # r.header_end
<1> DEFINE h == request.lines[k + 1]
           s == From(request, k)
           z == From(request, k + 1)
           t == Text(request)
           a == r.header_start
           e == r.header_end
           b == r.name_end
<1>1. /\ HeaderIsClear(h) /\ s \in Nat /\ s > 0 /\ HeaderIn(h, t, s) /\ z = HeaderEnd(h, s) /\ z \in Nat
      /\ b = NameEnd(h, s)
      /\ e = a + Len(h.value) /\ (h.value # <<>> => a = ValueAt(h, s))
      /\ NameEnd(h, s) <= a /\ e <= HeaderEol(h, s) /\ \A m \in 1 .. Len(h.value) : h.value[m] # "nul"
  BY EntryFacts DEF NameRead, ValueRead
<1>2. \A n \in s .. z - 1 : n \in 1 .. End /\ buffer[n] = t[n]
  BY EntryFacts
<1>3. a \in 0 .. End /\ e \in 0 .. End /\ b \in 0 .. End
  BY DEF InEntry, TypeOK, RequestType
<1> HIDE DEF h, s, z, t, a, e, b
<1> DEFINE w == Len(h.value)
           nam == NameEnd(h, s)
           eol == HeaderEol(h, s)
           val == ValueAt(h, s)
<1>4. /\ nam \in Nat /\ val \in Nat /\ eol \in Nat /\ s < nam /\ eol < z /\ w \in Nat
      /\ (h.value # <<>> => nam < val) /\ h.value \in Seq(Cell)
      /\ Spans(t, val, ValueEnd(h, s), h.value) /\ ValueEnd(h, s) = val + w
  <2>1. h.value # <<>> => AfterColon(h, s) <= val /\ AfterColon(h, s) = nam + 1 /\ AfterColon(h, s) \in Nat
    BY <1>1, HeaderOffsets
  <2>2. nam \in Nat /\ val \in Nat /\ eol \in Nat /\ s < nam /\ eol < z /\ w \in Nat /\ ValueEnd(h, s) = val + w
    BY <1>1, HeaderOffsets
  <2>3. \A x, y, u \in Nat : x <= y /\ x = u + 1 => u < y
    OBVIOUS
  <2> HIDE DEF nam, val
  <2>4. h.value # <<>> => nam < val
    BY <2>1, <2>2, <2>3
  <2>5. h.value \in Seq(Cell) /\ Spans(t, val, ValueEnd(h, s), h.value)
    BY <1>1 DEF HeaderIsClear, HeaderIn, val
  <2> QED BY <2>2, <2>4, <2>5
<1>5. b = nam /\ e = a + w /\ (h.value # <<>> => a = val) /\ nam <= a /\ e <= eol
  BY <1>1
<1>6. h.value # <<>> <=> w # 0
  BY <1>4, EmptySeq
<1> HIDE DEF w, nam, eol, val
<1>7. /\ s < nam /\ nam < z /\ e < z /\ s < e /\ a >= 1 /\ e >= 1 /\ nam >= 1
  BY <1>1, <1>3, <1>4, <1>5
<1>8. a \in 1 .. End /\ e \in 1 .. End /\ b \in 1 .. End
  BY <1>3, <1>5, <1>7
<1>9. ASSUME NEW m \in 1 .. w PROVE a + m - 1 # b /\ a + m - 1 # e /\ buffer[a + m - 1] = h.value[m]
  <2>1. a = val /\ nam < val /\ w # 0
    BY <1>4, <1>5, <1>6
  <2>2. \A x, y, u, v, g \in Nat : \A f \in 1 .. v :
          y < x /\ u < y /\ u < g /\ x + v < g => x + f - 1 # y /\ x + f - 1 # x + v /\ x + f - 1 \in u .. g - 1
                                      /\ x + f - 1 \in x .. x + v - 1 /\ (x + f - 1) - x + 1 = f
    OBVIOUS
  <2>3. nam < a /\ s < nam /\ s < z /\ a + w < z /\ a \in Nat
    BY <1>1, <1>3, <1>4, <1>5, <1>7, <2>1
  <2>4. /\ a + m - 1 # nam /\ a + m - 1 # a + w /\ a + m - 1 \in s .. z - 1
        /\ a + m - 1 \in a .. a + w - 1 /\ (a + m - 1) - a + 1 = m
    BY <1>1, <1>4, <2>2, <2>3
  <2>5. t[a + m - 1] = h.value[m]
    BY <1>4, <2>1, <2>4 DEF Spans
  <2> QED BY <1>2, <1>5, <2>4, <2>5
<1>10. SubSeq(buffer, a, e - 1) = h.value
  <2>1. \A n \in a .. e - 1 : n - a + 1 \in 1 .. w /\ a + (n - a + 1) - 1 = n
    BY <1>3, <1>4, <1>5
  <2>2. Spans(buffer, a, e, h.value)
    BY <1>5, <1>9, <2>1 DEF Spans, w
  <2>3. a \in Nat /\ e \in Nat
    BY <1>3
  <2> QED BY <1>4, <2>2, <2>3, CutOut
<1>11. \A m \in 1 .. w : h.value[m] # "nul"
  BY <1>1 DEF w
<1> QED BY <1>1, <1>4, <1>5, <1>7, <1>8, <1>9, <1>10, <1>11 DEF h, s, z, a, e, b, w, nam

(* A text in lower case is as long, and is so cell by cell.                *)
LEMMA LowcaseOfCells ==
  ASSUME NEW text \in Seq(Cell)
  PROVE  /\ LowcaseText(text) \in Seq(Cell) /\ Len(LowcaseText(text)) = Len(text)
         /\ \A m \in 1 .. Len(text) : LowcaseText(text)[m] = Lowcase(text[m])
<1> PICK n \in Nat : n = Len(text)
  BY LenProperties
<1>1. \A m \in 1 .. n : Lowcase(text[m]) \in Cell
  <2>1. \A ch \in Cell : Lowcase(ch) \in Cell
    BY DEF Lowcase, Capitals, Cell
  <2>2. \A m \in 1 .. n : text[m] \in Cell
    BY ElementOfSeq
  <2> QED BY <2>1, <2>2
<1>2. LowcaseText(text) = [m \in 1 .. n |-> Lowcase(text[m])]
  BY DEF LowcaseText
<1> QED BY <1>1, <1>2

(* What was kept of a valid name is the name in lower case.                *)
LEMMA LowcaseThatWasSent ==
  ASSUME NEW k, InEntry(k)
  PROVE  /\ r.invalid_header = ~ValidName(request.lines[k + 1].name)
         /\ ~r.invalid_header =>
              /\ r.header_hash = LowcaseText(request.lines[k + 1].name)
              /\ LowcaseKey(request.lines[k + 1].name) = LowcaseText(request.lines[k + 1].name)
<1> DEFINE text == request.lines[k + 1].name
           n == Len(text)
           low == LowcaseText(text)
           j == r.lowcase_index
           g == r.header_hash
           kept == r.lowcase_header
<1>1. CharactersRead(request.lines[k + 1], r, g, j, n) /\ text \in Seq(Cell) /\ n \in Nat
  BY EntryFacts, LenProperties DEF NameRead, HeaderIsClear
<1>2. /\ r.invalid_header = ~(\A m \in 1 .. n : Named(text[m]))
      /\ ~r.invalid_header =>
           /\ Len(g) = n /\ (\A m \in 1 .. n : g[m] = Lowcase(text[m]))
           /\ n < LC => j = n /\ \A m \in 1 .. n : kept[m - 1] = Lowcase(text[m])
  BY <1>1 DEF CharactersRead
<1>3. g \in Seq(Cell) /\ j \in 0 .. LC - 1 /\ LC \in Nat
  BY HttpAssumption DEF InEntry, TypeOK, RequestType, Texts
<1>4. low \in Seq(Cell) /\ Len(low) = n /\ (\A m \in 1 .. n : low[m] = Lowcase(text[m]))
      /\ low = [m \in 1 .. n |-> Lowcase(text[m])]
  BY <1>1, LowcaseOfCells DEF LowcaseText
<1>5. LowcaseKey(text) = IF n = j THEN [m \in 1 .. n |-> kept[m - 1]] ELSE low
  BY DEF LowcaseKey
<1>6. r.invalid_header = ~ValidName(text)
  BY <1>2 DEF ValidName
<1> HIDE DEF text, n, low, j, g, kept
<1>7. ASSUME ~r.invalid_header PROVE g = low /\ LowcaseKey(text) = low
  <2>1. \A m \in 1 .. n : g[m] = low[m]
    BY <1>2, <1>4, <1>7
  <2>2. g = low
    BY <1>2, <1>3, <1>4, <1>7, <2>1, SeqEqual
  <2>3. CASE n < LC
    <3>1. [m \in 1 .. n |-> kept[m - 1]] = [m \in 1 .. n |-> Lowcase(text[m])]
      BY <1>2, <1>7, <2>3
    <3> QED BY <1>4, <1>5, <2>2, <3>1
  <2>4. CASE ~(n < LC)
    <3>1. n # j
      BY <1>1, <1>3, <2>4
    <3> QED BY <1>5, <2>2, <3>1
  <2> QED BY <2>2, <2>3, <2>4
<1> QED BY <1>6, <1>7 DEF text, low, g

(* Which headers of a list that is one longer are for an upgrade, or a key.*)
LEMMA ListOneLonger ==
  ASSUME NEW S, NEW list \in Seq(S), NEW e \in S
  PROVE  /\ Len(list) \in Nat /\ Upgrades(list) \subseteq 1 .. Len(list) /\ Keys(list) \subseteq 1 .. Len(list)
         /\ Upgrades(Append(list, e)) =
              Upgrades(list) \cup (IF Begins(e.lowcase_key, Upgrade) /\ Begins(e.value, Websocket) THEN {Len(list) + 1} ELSE {})
         /\ Keys(Append(list, e)) =
              Keys(list) \cup (IF Begins(e.lowcase_key, SecWebsocketKey) THEN {Len(list) + 1} ELSE {})
         /\ Append(list, e)[Len(list) + 1] = e
         /\ \A j \in 1 .. Len(list) : Append(list, e)[j] = list[j]
<1> PICK n \in Nat : n = Len(list)
  BY LenProperties
<1> DEFINE a == Append(list, e)
<1>1. Len(a) = n + 1 /\ a[n + 1] = e /\ \A j \in 1 .. n : a[j] = list[j]
  BY AppendProperties
<1> HIDE DEF a
<1>2. \A j : j \in 1 .. n + 1 <=> j \in 1 .. n \/ j = n + 1
  OBVIOUS
<1>3. n + 1 \notin 1 .. n
  OBVIOUS
<1>4. Upgrades(a) = Upgrades(list) \cup (IF Begins(e.lowcase_key, Upgrade) /\ Begins(e.value, Websocket) THEN {n + 1} ELSE {})
  BY <1>1, <1>2, <1>3 DEF Upgrades
<1>5. Keys(a) = Keys(list) \cup (IF Begins(e.lowcase_key, SecWebsocketKey) THEN {n + 1} ELSE {})
  BY <1>1, <1>2, <1>3 DEF Keys
<1>6. Upgrades(list) \subseteq 1 .. n /\ Keys(list) \subseteq 1 .. n
  BY DEF Upgrades, Keys
<1> QED BY <1>1, <1>4, <1>5, <1>6 DEF a

(* The header is added to the list, its name and its value end with a NUL  *)
(* now, and the next line is read.                                         *)
LEMMA HeaderEntryKept ==
  ASSUME NEW k, InEntry(k), HeaderEntry
  PROVE  Understood(k + 1)' /\ AnswerIsTheRequests'
<1> DEFINE h == request.lines[k + 1]
           s == From(request, k)
           z == From(request, k + 1)
<1>1. /\ k < Len(request.lines) /\ k + 1 \in 1 .. Len(request.lines) /\ k + 1 \in 0 .. Len(request.lines)
      /\ s \in Nat /\ s > 0 /\ pos = z /\ z \in Nat /\ z <= last /\ LineEnd(request.line) <= s /\ GoodHeader(h)
      /\ HeaderIsClear(h) /\ IsClear(request)
  BY EntryFacts DEF InEntry
<1>2. /\ pc' = "parse" /\ p' = pos /\ state' = "start" /\ handler = "headers" /\ answer.status = "none"
      /\ UNCHANGED <<request, stream, pos, last, hash, i, handler, answer, cut>>
      /\ Arrived /\ Untouched(k) /\ HeadersRead(k, r.upgrade, r.key) /\ LineRead(request.line, r)
      /\ LineEnd(request.line) <= last /\ r \in RequestType /\ k \in 0 .. Len(request.lines)
      /\ last \in 1 .. End + 1
  BY DEF HeaderEntry, InEntry, Understood, clientVars, TypeOK
<1>3. k \in Nat /\ Len(request.lines) \in Nat /\ End \in Nat
  BY <1>1, <1>2, Ends, HttpAssumption
<1>4. headers = HeadersOf(request.lines)[k] /\ headers \in Seq(Entries(request.lines))
      /\ HeadersOf(request.lines)[k + 1] = IF ValidName(h.name) THEN Append(headers, Entry(h)) ELSE headers
  <2>1. HeadersOf(request.lines)[k] \in Seq(Entries(request.lines))
    BY <1>2, <1>3, ListOfHeaders
  <2>2. k + 1 - 1 = k
    BY <1>3
  <2> HIDE DEF h
  <2>3. HeadersOf(request.lines)[k + 1] = IF ValidName(h.name) THEN Append(HeadersOf(request.lines)[k], Entry(h))
                                          ELSE HeadersOf(request.lines)[k]
    <3>0. PICK n \in 1 .. Len(request.lines) : n = k + 1
      BY <1>1, Zenon
    <3>1. n - 1 = k
      BY <1>3, <3>0
    <3>2. HeadersOf(request.lines)[n] = IF ValidName(request.lines[n].name)
                                        THEN Append(HeadersOf(request.lines)[n - 1], Entry(request.lines[n]))
                                        ELSE HeadersOf(request.lines)[n - 1]
      BY <1>3, ListOfHeaders
    <3> QED BY <3>0, <3>1, <3>2 DEF h
  <2> QED BY <1>2, <2>1, <2>3 DEF HeadersRead
<1>5. \A j \in 1 .. k + 1 : GoodHeader(request.lines[j])
  <2>1. \A j \in 1 .. k + 1 : j \in 1 .. k \/ j = k + 1
    BY <1>3
  <2> QED BY <1>1, <1>2, <2>1 DEF HeadersRead
<1>6. z <= last /\ s < z
  <2>1. s < z
    BY <1>1, <1>2, <1>3, Ends
  <2> QED BY <1>1, <2>1
<1> HIDE DEF h
<1>7. ASSUME r'.request_start = r.request_start, r'.uri_start = r.uri_start, r'.uri_end = r.uri_end,
             r'.http_protocol = r.http_protocol, r'.request_end = r.request_end,
             \A n \in 1 .. last - 1 : n < s \/ n >= z => buffer'[n] = buffer[n],
             HeadersRead(k + 1, r.upgrade, r.key)'
      PROVE  Understood(k + 1)' /\ AnswerIsTheRequests'
  <2>0. LineEnd(request.line) \in Nat
    BY <1>1, TextLayout
  <2>1. Arrived'
    BY <1>2 DEF Arrived
  <2>2. Untouched(k + 1)'
    <3>1. ASSUME NEW n \in 1 .. last - 1, n < LineEnd(request.line) \/ n >= z PROVE buffer'[n] = Text(request)[n]
      <4>1. n < s \/ n >= z
        BY <1>1, <1>2, <1>6, <2>0, <3>1
      <4>2. n < LineEnd(request.line) \/ n >= s
        BY <1>1, <1>6, <3>1
      <4> QED BY <1>2, <1>7, <4>1, <4>2 DEF Untouched
    <3> QED BY <1>2, <3>1 DEF Untouched
  <2>3. LineRead(request.line, r)'
    BY <1>2, <1>7 DEF LineRead
  <2>4. Reached(k + 1, r, hash, i, state, p)'
    <3>1. HeadersPlace(request, k + 1, r', hash', i', "start", z)
      <4>1. k + 1 < Len(request.lines) \/ k + 1 = Len(request.lines)
        BY <1>1, <1>3
      <4> QED BY <4>1 DEF HeadersPlace, HeaderPlace
    <3> QED BY <1>1, <1>2, <3>1 DEF Reached
  <2>5. Understood(k + 1)' /\ answer'.status = "none"
    BY <1>2, <1>7, <2>1, <2>2, <2>3, <2>4 DEF Understood
  <2> QED BY <2>5, NotAnswered
<1>8. CASE r.invalid_header
  <2>1. UNCHANGED <<buffer, r, headers, overread>>
    BY <1>8 DEF HeaderEntry
  <2>2. headers = HeadersOf(request.lines)[k + 1]
    BY <1>4, <1>8, LowcaseThatWasSent DEF h
  <2>3. r.key # 0 => KeyRead(r.key, headers[Max(Keys(headers))].value, z)
    <3>1. SUFFICES ASSUME NEW v, KeyRead(r.key, v, s) PROVE KeyRead(r.key, v, z)
      BY <1>2 DEF HeadersRead
    <3>2. r.key \in 1 .. End /\ v \in Seq(Cell) /\ Len(v) \in Nat
      BY <3>1, LenProperties DEF KeyRead
    <3>3. r.key + Len(v) < z
      <4>1. r.key + Len(v) < s
        BY <3>1 DEF KeyRead
      <4>2. \A x, y \in Nat : x + y < s => x + y < z
        BY <1>1, <1>6
      <4> QED BY <3>2, <4>1, <4>2
    <3> QED BY <1>6, <3>1, <3>3 DEF KeyRead
  <2>4. HeadersRead(k + 1, r.upgrade, r.key)
    BY <1>2, <1>5, <2>2, <2>3 DEF HeadersRead
  <2>5. HeadersRead(k + 1, r.upgrade, r.key)'
    BY <1>2, <2>1, <2>4 DEF HeadersRead, KeyRead
  <2> QED BY <1>7, <2>1, <2>5
<1>9. CASE ~r.invalid_header
  <2> DEFINE low == LowcaseText(h.name)
             wants == StartsLike(h.value, Websocket) /\ ~Shorter(h.value, Websocket)
             e == Entry(h)
             S == Entries(request.lines)
             n == Len(headers)
             K == StartsLike(low, SecWebsocketKey)
  <2>1. /\ r.header_hash = low /\ LowcaseKey(h.name) = low /\ ValidName(h.name)
        /\ SubSeq(buffer, r.name_start, r.name_end - 1) = h.name
        /\ SubSeq(buffer, r.header_start, r.header_end - 1) = h.value
    BY <1>9, LowcaseThatWasSent, NameThatWasSent, ValueThatWasSent DEF h
  <2>2. PICK match \in BOOLEAN :
          /\ match => StartsLike(low, Upgrade)
          /\ ~match => (~StartsLike(low, Upgrade) \/ Shorter(low, Upgrade))
          /\ r' = [r EXCEPT !.upgrade = @ \/ (match /\ wants), !.key = IF K THEN r.header_start ELSE @]
    BY <1>9, <2>1, ZenonT(30) DEF HeaderEntry
  <2>3. /\ headers' = Append(headers, [hash |-> low, key |-> h.name, value |-> h.value, lowcase_key |-> low])
        /\ buffer' = [buffer EXCEPT ![r.name_end] = "nul", ![r.header_end] = "nul"]
        /\ overread' = (overread \/ (StartsLike(low, Upgrade) /\ Shorter(low, Upgrade)))
    BY <1>9, <2>1 DEF HeaderEntry
  <2>4. headers' = Append(headers, e) /\ e.lowcase_key = low /\ e.value = h.value
    BY <2>3 DEF Entry
  <2>5. /\ r'.upgrade = (r.upgrade \/ (match /\ wants)) /\ r'.key = IF K THEN r.header_start ELSE r.key
        /\ r'.request_start = r.request_start /\ r'.uri_start = r.uri_start /\ r'.uri_end = r.uri_end
        /\ r'.http_protocol = r.http_protocol /\ r'.request_end = r.request_end
    BY <1>2, <2>2 DEF RequestType
  <2>6. headers' = HeadersOf(request.lines)[k + 1]
    BY <1>4, <2>1, <2>4
  <2>7. e \in S
    BY <1>1 DEF Entries, h
  <2> HIDE DEF e, S, low, wants
  <2>8. /\ n \in Nat /\ Upgrades(headers) \subseteq 1 .. n /\ Keys(headers) \subseteq 1 .. n
        /\ Upgrades(headers') = Upgrades(headers) \cup (IF Begins(low, Upgrade) /\ Begins(h.value, Websocket) THEN {n + 1} ELSE {})
        /\ Keys(headers') = Keys(headers) \cup (IF Begins(low, SecWebsocketKey) THEN {n + 1} ELSE {})
        /\ headers'[n + 1] = e /\ \A j \in 1 .. n : headers'[j] = headers[j]
    BY <1>4, <2>4, <2>7, ListOneLonger DEF S
  <2>9. Begins(low, SecWebsocketKey) <=> K
    <3>1. h.name \in Seq(Cell) /\ h.name # <<>>
      BY <1>1 DEF HeaderIsClear
    <3>2. Len(low) = Len(h.name) /\ Len(h.name) \in Nat /\ Len(h.name) # 0
      BY <3>1, LowcaseOfCells, LenProperties, EmptySeq DEF low
    <3>3. Len(SecWebsocketKey) = 1
      BY DEF SecWebsocketKey
    <3> QED BY <3>2, <3>3 DEF Begins, Shorter
  <2>10. ~overread' => (r'.upgrade <=> Upgrades(headers') # {})
    <3>1. SUFFICES ASSUME ~overread' PROVE r'.upgrade <=> Upgrades(headers') # {}
      OBVIOUS
    <3>2. ~overread /\ ~(StartsLike(low, Upgrade) /\ Shorter(low, Upgrade))
      BY <2>3, <3>1
    <3>3. match <=> Begins(low, Upgrade)
      BY <2>2, <3>2 DEF Begins
    <3>4. wants <=> Begins(h.value, Websocket)
      BY DEF wants, Begins
    <3>5. r.upgrade <=> Upgrades(headers) # {}
      BY <1>2, <3>2 DEF HeadersRead
    <3> QED BY <2>5, <2>8, <3>3, <3>4, <3>5
  <2>11. /\ h.value \in Seq(Cell) /\ r.header_start \in 1 .. End /\ r.header_end \in 1 .. End
         /\ r.header_end = r.header_start + Len(h.value)
         /\ r.header_end < z /\ s < r.name_end /\ r.name_end < z
         /\ r.name_end \in 1 .. End /\ s < r.header_end
         /\ \A m \in 1 .. Len(h.value) :
              /\ h.value[m] # "nul" /\ buffer[r.header_start + m - 1] = h.value[m]
              /\ r.header_start + m - 1 # r.name_end /\ r.header_start + m - 1 # r.header_end
    BY ValueThatWasSent DEF h
  <2>12. /\ buffer'[r.header_end] = "nul"
         /\ \A x \in 1 .. End : x # r.name_end /\ x # r.header_end => buffer'[x] = buffer[x]
    <3>1. buffer \in [1 .. End -> Cell]
      BY DEF InEntry, TypeOK
    <3> QED BY <2>3, <2>11, <3>1
  <2>13. \A x \in 1 .. last - 1 : x < s \/ x >= z => buffer'[x] = buffer[x]
    <3>1. ASSUME NEW x \in 1 .. last - 1, x < s \/ x >= z PROVE x \in 1 .. End /\ x # r.name_end /\ x # r.header_end
      BY <1>1, <1>2, <1>3, <2>11, <3>1
    <3> QED BY <2>12, <3>1
  <2>14. (r'.key # 0) <=> (Keys(headers') # {})
    <3>1. (r.key # 0) <=> (Keys(headers) # {})
      BY <1>2 DEF HeadersRead
    <3>2. r.header_start # 0
      BY <2>11
    <3> QED BY <2>5, <2>8, <2>9, <3>1, <3>2
  <2>15. ASSUME r'.key # 0 PROVE KeyRead(r.key, headers[Max(Keys(headers))].value, z)'
    <3>1. CASE K
      <4>1. n + 1 \in Keys(headers') /\ Keys(headers') \subseteq 1 .. n + 1
        BY <2>8, <2>9, <3>1
      <4>2. Max(Keys(headers')) = n + 1
        BY <2>8, <4>1, MaxOfNext
      <4>3. headers'[Max(Keys(headers'))].value = h.value /\ r'.key = r.header_start
        BY <2>4, <2>5, <2>8, <3>1, <4>2
      <4>4. \A m \in 1 .. Len(h.value) : buffer'[r.header_start + m - 1] = h.value[m]
        <5>1. ASSUME NEW m \in 1 .. Len(h.value) PROVE r.header_start + m - 1 \in 1 .. End
          <6>1. Len(h.value) \in Nat
            BY <2>11, LenProperties
          <6>2. \A x \in 1 .. End : \A v \in Nat : \A f \in 1 .. v : x + v \in 1 .. End => x + f - 1 \in 1 .. End
            BY <1>3
          <6> QED BY <2>11, <6>1, <6>2
        <5> QED BY <2>11, <2>12, <5>1
      <4>5. z' = z /\ last' = last
        BY <1>2
      <4> HIDE DEF z
      <4>6. /\ r.header_start \in 1 .. End /\ h.value \in Seq(Cell) /\ r.header_start + Len(h.value) < z /\ z <= last'
            /\ \A m \in 1 .. Len(h.value) : h.value[m] # "nul" /\ buffer'[r.header_start + m - 1] = h.value[m]
            /\ buffer'[r.header_start + Len(h.value)] = "nul"
        BY <1>6, <2>11, <2>12, <4>4, <4>5
      <4> QED BY <4>3, <4>5, <4>6 DEF KeyRead
    <3>2. CASE ~K
      <4> DEFINE v == headers[Max(Keys(headers))].value
                 key == r.key
      <4>1. r'.key = key /\ key # 0 /\ Keys(headers') = Keys(headers)
        BY <2>5, <2>8, <2>9, <2>15, <3>2
      <4>2. Keys(headers) # {} /\ KeyRead(key, v, s)
        BY <1>2, <4>1 DEF HeadersRead
      <4>3. Max(Keys(headers)) \in 1 .. n
        BY <2>8, <4>2, MaxIs
      <4>4. headers'[Max(Keys(headers'))].value = v
        BY <2>8, <4>1, <4>3
      <4> HIDE DEF v, key
      <4>5. /\ key \in 1 .. End /\ v \in Seq(Cell) /\ Len(v) \in Nat /\ key + Len(v) < s
            /\ \A m \in 1 .. Len(v) : v[m] # "nul" /\ buffer[key + m - 1] = v[m]
            /\ buffer[key + Len(v)] = "nul"
        BY <4>2, LenProperties DEF KeyRead
      <4>6. \A x \in 1 .. End, u \in Nat : x + u < s =>
              x + u < z /\ x + u \in 1 .. last - 1 /\ \A m \in 1 .. u : x + m - 1 < s /\ x + m - 1 \in 1 .. last - 1
        BY <1>1, <1>2, <1>3, <1>6
      <4>7. /\ key + Len(v) < z /\ key + Len(v) \in 1 .. last - 1
            /\ \A m \in 1 .. Len(v) : key + m - 1 < s /\ key + m - 1 \in 1 .. last - 1
        BY <4>5, <4>6
      <4>8. buffer'[key + Len(v)] = "nul" /\ \A m \in 1 .. Len(v) : buffer'[key + m - 1] = v[m]
        BY <2>13, <4>5, <4>7
      <4>9. z' = z /\ last' = last
        BY <1>2
      <4> HIDE DEF z
      <4>10. z <= last'
        BY <1>6, <4>9
      <4> QED BY <4>1, <4>4, <4>5, <4>7, <4>8, <4>9, <4>10 DEF KeyRead
    <3> QED BY <3>1, <3>2
  <2>16. HeadersRead(k + 1, r.upgrade, r.key)'
    <3>1. r'.key # 0 => KeyRead(r.key, headers[Max(Keys(headers))].value, From(request, k + 1))'
      BY <2>15
    <3> QED BY <1>2, <1>5, <2>6, <2>10, <2>14, <3>1 DEF HeadersRead
  <2> QED BY <1>7, <2>5, <2>13, <2>16
<1> QED BY <1>8, <1>9

-------------------------------------------------------------------------------
(* Every step keeps what is understood, and so what was asked for.         *)

(* It is so at first, ...                                                  *)
LEMMA ParseInvInit ==
  ASSUME Init, IsClear(request)
  PROVE  ParseInv
<1>1. 0 \in 0 .. Len(request.lines)
  BY Ends
<1> QED BY <1>1, InitUnderstood DEF ParseInv

(* ... and after every step.                                               *)
LEMMA ParseInvNext ==
  ASSUME TypeOK, IsClear(request), ParseInv, [Next]_vars
  PROVE  ParseInv'
<1> SUFFICES ASSUME ~cut'
             PROVE  AnswerIsTheRequests' /\ \E k \in 0 .. Len(request.lines) : Understood(k)'
  <2>1. request' = request
    BY DEF Next, Process, Read, Left, Again, ParseLine, ParseHeaders, HeaderEntry, vars, clientVars
  <2>2. ParseInv' <=> (~cut' => AnswerIsTheRequests' /\ \E k \in 0 .. Len(request.lines) : Understood(k)')
    BY <2>1 DEF ParseInv
  <2> QED BY <2>2
<1>1. ~cut
  BY DEF TypeOK, Next, Process, Read, Left, Again, ParseLine, Method, ParseHeaders, HeaderEntry, vars, historyVars
<1>2. PICK k \in 0 .. Len(request.lines) : Understood(k)
  BY <1>1 DEF ParseInv
<1>3. CASE HeaderEntry
  <2>1. InEntry(k)
    BY <1>2, <1>3 DEF InEntry, HeaderEntry
  <2>2. k + 1 \in 0 .. Len(request.lines)
    BY <2>1, EntryFacts
  <2> QED BY <1>3, <2>1, <2>2, HeaderEntryKept
<1>4. CASE UNCHANGED vars
  <2>1. Understood(k)'
    BY <1>2, <1>4 DEF Understood, Arrived, Untouched, HeadersRead, KeyRead, LineRead, Reached, vars, clientVars, bufferVars,
                      parserVars, historyVars
  <2>2. AnswerIsTheRequests'
    BY <1>1, <1>4 DEF ParseInv, AnswerIsTheRequests, vars, clientVars, historyVars
  <2> QED BY <2>1, <2>2
<1> QED BY <1>2, <1>3, <1>4, ReadKept, LeftKept, AgainKept, ParseLineKept, ParseHeadersKept DEF Next, Process

(* The list of the first headers is a prefix of that of all.               *)
LEMMA FirstHeaders ==
  ASSUME NEW lines, Len(lines) \in Nat, NEW k \in 0 .. Len(lines)
  PROVE  IsPrefix(HeadersOf(lines)[k], HeadersOf(lines)[Len(lines)])
<1> DEFINE top == Len(lines)
           f == HeadersOf(lines)
           E == Entries(lines)
           Agree(a, b) == Len(a) <= Len(b) /\ \A j \in 1 .. Len(a) : a[j] = b[j]
           S == {n \in 0 .. top : n >= k => Agree(f[k], f[n])}
<1>1. \A n \in 0 .. top : f[n] \in Seq(E) /\ Len(f[n]) \in Nat
  BY ListOfHeaders, LenProperties
<1>2. \A n \in 1 .. top : f[n] = f[n - 1] \/ (f[n] = Append(f[n - 1], Entry(lines[n])) /\ Entry(lines[n]) \in E)
  <2>1. \A n \in 1 .. top : Entry(lines[n]) \in E
    BY DEF Entries
  <2>2. \A n \in 1 .. top : f[n] = IF ValidName(lines[n].name) THEN Append(f[n - 1], Entry(lines[n])) ELSE f[n - 1]
    BY ListOfHeaders
  <2> HIDE DEF f, E
  <2> QED BY <2>1, <2>2
<1> HIDE DEF f, E
<1>3. top \in Nat /\ k \in 0 .. top
  OBVIOUS
<1> HIDE DEF top
<1>4. 0 \in S
  <2>1. Agree(f[k], f[k])
    BY <1>1, <1>3
  <2>2. 0 >= k => k = 0
    BY <1>3
  <2> QED BY <1>3, <2>1, <2>2
<1>5. ASSUME NEW n \in 0 .. top - 1, n \in S PROVE n + 1 \in S
  <2>1. n + 1 \in 1 .. top /\ n \in 0 .. top /\ n + 1 \in 0 .. top /\ n + 1 - 1 = n
    BY <1>3
  <2>2. CASE n >= k
    <3>1. Agree(f[k], f[n]) /\ f[n] \in Seq(E) /\ Len(f[k]) \in Nat /\ Len(f[n]) \in Nat
      BY <1>1, <1>3, <1>5, <2>1, <2>2
    <3>2. f[n + 1] = f[n] \/ (f[n + 1] = Append(f[n], Entry(lines[n + 1])) /\ Entry(lines[n + 1]) \in E)
      <4> PICK m \in 1 .. top : m = n + 1 /\ m - 1 = n
        BY <1>3
      <4> QED BY <1>2
    <3>3. Agree(f[n], f[n + 1])
      <4>1. CASE f[n + 1] = f[n]
        BY <3>1, <4>1
      <4>2. CASE f[n + 1] = Append(f[n], Entry(lines[n + 1])) /\ Entry(lines[n + 1]) \in E
        <5>1. /\ Len(f[n + 1]) = Len(f[n]) + 1
              /\ \A j \in 1 .. Len(f[n]) : f[n + 1][j] = f[n][j]
          BY <3>1, <4>2, AppendProperties
        <5> QED BY <3>1, <5>1
      <4> QED BY <3>2, <4>1, <4>2
    <3>4. Agree(f[k], f[n + 1])
      <4>1. Len(f[n + 1]) \in Nat
        BY <1>1, <2>1
      <4>2. \A j \in 1 .. Len(f[k]) : j \in 1 .. Len(f[n])
        BY <3>1
      <4> QED BY <3>1, <3>3, <4>1, <4>2
    <3> QED BY <2>1, <3>4
  <2>3. CASE ~(n >= k)
    <3>1. n + 1 >= k => n + 1 = k
      BY <1>3, <2>1, <2>3
    <3>2. Agree(f[k], f[k])
      BY <1>1, <1>3
    <3> QED BY <2>1, <3>1, <3>2
  <2> QED BY <2>2, <2>3
<1>6. \A n \in 0 .. top : n \in S
  <2> HIDE DEF S
  <2> QED BY <1>3, <1>4, <1>5, Steps
<1> DEFINE a == f[k]
           b == f[top]
<1>7. a \in Seq(E) /\ b \in Seq(E) /\ Agree(a, b) /\ Len(a) \in Nat /\ Len(b) \in Nat
  <2>1. top \in 0 .. top /\ top >= k
    BY <1>3
  <2> QED BY <1>1, <1>3, <1>6, <2>1
<1> HIDE DEF a, b
<1>8. SubSeq(a, 1, Len(a)) = a
  BY <1>7, SubSeqFull
<1>9. SubSeq(b, 1, Len(a)) = a
  <2> DEFINE c == SubSeq(b, 1, Len(a))
  <2>1. \A j \in 1 .. Len(a) : j \in 1 .. Len(b) /\ b[j] \in E
    BY <1>7, ElementOfSeq
  <2>2. /\ c \in Seq(E) /\ Len(c) = IF 1 <= Len(a) THEN Len(a) - 1 + 1 ELSE 0
        /\ \A j \in 1 .. Len(a) - 1 + 1 : c[j] = b[1 + j - 1]
    BY <1>7, <2>1, SubSeqProperties
  <2> HIDE DEF c
  <2>3. Len(c) = Len(a) /\ \A j \in 1 .. Len(a) : c[j] = b[j]
    BY <1>7, <2>2
  <2> QED BY <1>7, <2>2, <2>3, SeqEqual DEF c
<1> QED BY <1>7, <1>8, <1>9 DEF IsPrefix, a, b, f, top

(* The line that was kept is the one that was sent.                        *)
LEMMA LineIsKept ==
  ASSUME TypeOK, IsClear(request), NEW k, Understood(k), handler = "headers"
  PROVE  LineIsThatSent
<1> DEFINE l == request.line
           t == Text(request)
<1>1. /\ LineRead(l, r) /\ LineEnd(l) <= last /\ Untouched(k) /\ LineIsClear(l) /\ last \in 1 .. End + 1
  BY DEF Understood, IsClear, TypeOK
<1>2. LineIn(l, t) /\ KeptIn(l, t)
  BY TextLayout
<1> HIDE DEF l, t
<1>3. /\ MethodAt(l) \in Nat \ {0} /\ MethodEnd(l) \in Nat /\ UriAt(l) \in Nat /\ UriEnd(l) \in Nat /\ ProtoAt(l) \in Nat
      /\ MethodAt(l) < MethodEnd(l) /\ MethodEnd(l) <= UriAt(l) /\ UriAt(l) < UriEnd(l) /\ UriEnd(l) <= ProtoAt(l)
      /\ EolAt(l) \in Nat /\ LineEnd(l) \in Nat /\ EolAt(l) < LineEnd(l) /\ ProtoAt(l) <= EolAt(l)
  BY <1>1, LineOffsets
<1>4. l.uri \in Seq(Cell) /\ ProtocolText(l) \in Seq(Cell) /\ MethodAndUri(l) \o ProtocolText(l) \in Seq(Cell)
  BY <1>1, LineTextIs, ProtocolTexts DEF LineIsClear
<1>5. ASSUME NEW a \in Nat, NEW e \in Nat, NEW text \in Seq(Cell), 1 <= a, e < LineEnd(l), Spans(t, a, e, text)
      PROVE  Between(a, e) = text
  <2>1. \A n \in a .. e - 1 : n \in 1 .. last - 1 /\ n < LineEnd(l)
    BY <1>1, <1>3, <1>5, HttpAssumption
  <2>2. \A n \in a .. e - 1 : buffer[n] = t[n]
    BY <1>1, <2>1 DEF Untouched, l, t
  <2>3. Spans(buffer, a, e, text)
    BY <1>5, <2>2 DEF Spans
  <2> QED BY <1>5, <2>3, CutOut DEF Between
<1>6. Spans(t, UriAt(l), UriEnd(l), l.uri)
  BY <1>2 DEF LineIn
<1>7. Spans(t, ProtoAt(l), EolAt(l), ProtocolText(l)) /\ Spans(t, MethodAt(l), EolAt(l), MethodAndUri(l) \o ProtocolText(l))
  BY <1>2 DEF KeptIn
<1>8. 1 <= UriAt(l) /\ UriEnd(l) < LineEnd(l) /\ 1 <= ProtoAt(l) /\ 1 <= MethodAt(l)
  BY <1>3
<1>9. Between(UriAt(l), UriEnd(l)) = l.uri
  BY <1>3, <1>4, <1>5, <1>6, <1>8
<1>10. Between(ProtoAt(l), EolAt(l)) = ProtocolText(l)
  BY <1>3, <1>4, <1>5, <1>7, <1>8
<1>11. Between(MethodAt(l), EolAt(l)) = MethodAndUri(l) \o ProtocolText(l)
  BY <1>3, <1>4, <1>5, <1>7, <1>8
<1> QED BY <1>1, <1>9, <1>10, <1>11 DEF LineRead, LineIsThatSent, l

(* Both properties follow from what is understood.                         *)
LEMMA AnswerIsTheRequestsHolds == ParseInv => AnswerIsTheRequests
BY DEF ParseInv, AnswerIsTheRequests

LEMMA RequestIsThatSentHolds ==
  ASSUME TypeOK, IsClear(request), ParseInv
  PROVE  RequestIsThatSent
<1> SUFFICES ASSUME ~cut PROVE HeadersAreThoseSent /\ (handler = "headers" => LineIsThatSent)
  BY DEF RequestIsThatSent
<1>1. PICK k \in 0 .. Len(request.lines) : Understood(k)
  BY DEF ParseInv
<1>2. headers = HeadersOf(request.lines)[k] /\ (answer.status = "101" => k = Len(request.lines)) /\ Len(request.lines) \in Nat
  BY <1>1, Ends DEF Understood, HeadersRead
<1>3. IsPrefix(headers, Headers(request))
  BY <1>1, <1>2, FirstHeaders DEF Headers
<1>4. answer.status = "101" => headers = Headers(request)
  BY <1>2 DEF Headers
<1> QED BY <1>1, <1>3, <1>4, LineIsKept DEF HeadersAreThoseSent

(* The invariant the parsers keep, with the types.                         *)
LEMMA ParseInvAlways ==
  ASSUME \A q \in Request : IsClear(q)
  PROVE  Spec => [](TypeOK /\ ParseInv /\ IsClear(request))
<1> DEFINE Inv == TypeOK /\ ParseInv /\ IsClear(request)
<1>1. Init => Inv
  BY InitType, ParseInvInit DEF Init
<1>2. Inv /\ [Next]_vars => Inv'
  <2>1. SUFFICES ASSUME Inv, [Next]_vars PROVE Inv'
    OBVIOUS
  <2>2. TypeOK' /\ request' \in Request
    BY <2>1, TypeNext DEF TypeOK
  <2> QED BY <2>1, <2>2, ParseInvNext
<1> QED BY <1>1, <1>2, PTL DEF Spec

(* What is kept of a request (the uri, the protocol and the whole line     *)
(* once the headers are read, and every header read so far) is what the    *)
(* client sent, in whatever pieces it arrives, as long as the method is    *)
(* not compared before all of it arrived (cut): although names and values  *)
(* are ended by a NUL in the buffer, and lowcase_header is used for every  *)
(* name again (ngx_http_parse_request_line, ngx_http_parse_header_line in  *)
(* http/ngx_http_parse.c and the handlers that call them in                *)
(* http/ngx_http_request.c).                                               *)
THEOREM WhatIsKeptWasSent ==
  ASSUME \A q \in Request : IsClear(q)
  PROVE  Spec => []RequestIsThatSent
<1>1. TypeOK /\ ParseInv /\ IsClear(request) => RequestIsThatSent
  BY RequestIsThatSentHolds
<1> QED BY <1>1, ParseInvAlways, PTL

(* A request is upgraded only when it is a complete and correct request    *)
(* for a websocket, and with its last key; it is refused only when it is   *)
(* not, and its connection is closed without an answer only for a line     *)
(* longer than the buffer: in whatever pieces it arrives, unless the       *)
(* method (cut) or a name (overread) is compared past what there is of it  *)
(* (ngx_http_process_request_line, ngx_http_process_request_headers,       *)
(* http/ngx_http_request.c).                                               *)
THEOREM RequestsAreAnswered ==
  ASSUME \A q \in Request : IsClear(q)
  PROVE  Spec => []AnswerIsTheRequests
<1>1. TypeOK /\ ParseInv /\ IsClear(request) => AnswerIsTheRequests
  BY AnswerIsTheRequestsHolds
<1> QED BY <1>1, ParseInvAlways, PTL
===============================================================================
