------------------------------- MODULE HttpParse -------------------------------
(***************************************************************************)
(* One HTTP request, read into one buffer and cut by the network anywhere: *)
(* the resumable parsers of the request line and of the header lines       *)
(* (http/ngx_http_parse.c) and the handlers that call them                 *)
(* (http/ngx_http_request.c), up to the decision between 101 and 403.      *)
(*                                                                         *)
(* The buffer holds cells: a character where the parser tells it from      *)
(* others; in the names and values of headers the stretches that are       *)
(* compared at once ("up" and "grade", "websocket", "sec-key").  Memory    *)
(* that was not written compares either way.  A pointer is an index from   *)
(* 1 on, 0 is NULL.                                                        *)
(***************************************************************************)
EXTENDS Integers, Sequences, SequencesExt

CONSTANTS
  End,      \* NGX_CLIENT_HEADER_BUFFER_SIZE, in cells
  LC,       \* NGX_HTTP_LC_HEADER_LEN, in cells
  Request   \* the requests clients may send

ASSUME HttpAssumption == End \in Nat \ {0} /\ LC \in Nat /\ LC >= 2

VARIABLES
  request,         \* what the client sends
  stream,          \* the cells of it that are not received
  buffer,          \* r->header_in
  pos, last,       \* 1 is b->start, End + 1 is b->end
  p,               \* the parser's own pointer
  state, hash, i,  \* the parser's copies of state, header_hash, lowcase_index
  r,               \* the request
  headers,         \* r->headers_in.headers
  handler,         \* rev->handler: which parser is called
  pc,              \* where the handler is
  answer,          \* what the client is answered
  cut,             \* history: the method was compared with cells not received
  overread         \* history: a header name was compared past its end

clientVars  == <<request, stream>>
bufferVars  == <<buffer, pos, last>>
parserVars  == <<p, state, hash, i>>
historyVars == <<cut, overread>>
vars == <<clientVars, bufferVars, parserVars, r, headers, handler, pc, answer, historyVars>>

-------------------------------------------------------------------------------
(* What a client sends: a record of a request line, of header lines and of *)
(* an end, each with its parts, and how that is written.                   *)

Spaces(n) == [j \in 1 .. n |-> "sp"]

MethodAndUri(l) == l.method \o Spaces(l.gap) \o l.uri \o Spaces(l.gap2)
ProtocolText(l) ==
  IF l.proto = <<>> THEN <<>> ELSE l.proto \o l.major \o <<".">> \o l.minor \o Spaces(l.trail)

LineText(l) == l.lead \o (MethodAndUri(l) \o ProtocolText(l)) \o l.eol

ValueText(h) == IF h.colon THEN <<":">> \o Spaces(h.gap) \o h.value \o Spaces(h.trail) ELSE <<>>
HeaderText(h) == h.name \o ValueText(h) \o h.eol

(* The text of the first n header lines, as a function of n.               *)
HeadersText(lines) ==
  LET text[n \in 0 .. Len(lines)] == IF n = 0 THEN <<>> ELSE text[n - 1] \o HeaderText(lines[n])
  IN text

Text(q) == LineText(q.line) \o HeadersText(q.lines)[Len(q.lines)] \o q.end

(* The cells: "sp" is a space, "us" an underscore, "x" any other character *)
(* of a name, "!" one that no name has, "unset" what was in the buffer     *)
(* before.                                                                 *)
Cell ==
  {"cr", "lf", "nul", "sp", "G", "E", "T", "H", "P", "g", "e", "t", "h", "p", "/", ".", ":", "0", "1", "2", "9",
   "up", "Up", "grade", "websocket", "sec-key", "x", "us", "!", "unset"}

(* A client sends cells, whatever they mean.                               *)
ASSUME RequestAssumption == \A q \in Request : Text(q) \in Seq(Cell)

(* A record is clear when it is the one way to read its text, right or     *)
(* wrong: no part of it holds what would end it.                           *)
Without(text, cells) == \A j \in 1 .. Len(text) : text[j] \notin cells

(* A line ends with LF, with CR and LF, or wrongly with CR and another.    *)
Ended(eol) == eol = <<"lf">> \/ (Len(eol) = 2 /\ eol[1] = "cr")

LineIsClear(l) ==
  /\ {l.lead, l.method, l.uri, l.proto, l.major, l.minor, l.eol} \subseteq Seq(Cell)
  /\ \A j \in 1 .. Len(l.lead) : l.lead[j] \in {"cr", "lf"}
  /\ {l.gap, l.gap2, l.trail} \subseteq Nat
  /\ l.method # <<>> /\ l.method[1] \notin {"cr", "lf"} /\ (l.method[1] = "G" => Len(l.method) = 4)
  /\ l.uri # <<>> /\ Without(l.uri, {"sp", "cr", "lf"})
  /\ IF l.proto = <<>> THEN Ended(l.eol)
     ELSE /\ l.gap2 > 0 /\ Len(l.proto) = 5 /\ l.proto[1] \notin {"sp", "cr", "lf"}
          /\ Without(l.major, {"."}) /\ Without(l.minor, {"sp", "cr", "lf"})
          /\ Ended(l.eol) \/ (l.eol # <<>> /\ l.eol[1] \notin {"sp", "cr", "lf", "0", "1", "2", "9"})

HeaderIsClear(h) ==
  /\ {h.name, h.value, h.eol} \subseteq Seq(Cell) /\ {h.gap, h.trail} \subseteq Nat /\ h.colon \in BOOLEAN
  /\ h.name # <<>> /\ Without(h.name, {":", "cr", "lf"}) /\ Without(h.value, {"cr", "lf"})
  /\ h.value # <<>> => h.colon /\ h.value[1] # "sp" /\ h.value[Len(h.value)] # "sp"
  /\ h.eol = <<"cr", "cr", "lf">> \/ (Ended(h.eol) /\ (Len(h.eol) = 2 => h.eol[2] # "cr"))

IsClear(q) ==
  /\ LineIsClear(q.line)
  /\ q.lines \in Seq(Range(q.lines)) /\ \A j \in 1 .. Len(q.lines) : HeaderIsClear(q.lines[j])
  /\ q.end \in Seq(Cell) /\ (q.end = <<>> \/ Ended(q.end))

-------------------------------------------------------------------------------
(* Characters.                                                             *)

IsDigit(ch) == ch \in {"0", "1", "2", "9"}
Digit(ch) == CASE ch = "0" -> 0 [] ch = "1" -> 1 [] ch = "2" -> 2 [] OTHER -> 9

(* lowcase[], where capitals become small, and the underscore, which is    *)
(* allowed: letters and digits are what a name is made of.                 *)
Capitals == [Up |-> "up", G |-> "g", E |-> "e", T |-> "t", H |-> "h", P |-> "p"]
Named(ch) ==
  \/ ch \in DOMAIN Capitals \/ IsDigit(ch)
  \/ ch \in {"up", "grade", "websocket", "sec-key", "g", "e", "t", "h", "p", "x", "us"}
Lowcase(ch) == IF ch \in DOMAIN Capitals THEN Capitals[ch] ELSE ch

LowcaseText(text) == [j \in 1 .. Len(text) |-> Lowcase(text[j])]

(* strncmp(): what is certain of a text that starts like a literal and may *)
(* end before it, with memory behind that holds anything.                  *)
StartsLike(text, literal) == \A j \in 1 .. Len(literal) : j <= Len(text) => text[j] = literal[j]
Shorter(text, literal) == Len(text) < Len(literal)

-------------------------------------------------------------------------------
NewRequest ==
  [state |-> "start", method |-> FALSE, request_start |-> 0, request_end |-> 0,
   uri_start |-> 0, uri_end |-> 0, http_protocol |-> 0, http_major |-> 0, http_minor |-> 0,
   header_hash |-> <<>>, lowcase_index |-> 0, lowcase_header |-> [j \in 0 .. LC - 1 |-> "nul"],
   invalid_header |-> FALSE, name_start |-> 0, name_end |-> 0, header_start |-> 0, header_end |-> 0,
   upgrade |-> FALSE, key |-> 0]

Init ==
  /\ request \in Request /\ stream = Text(request)
  /\ buffer = [j \in 1 .. End |-> "unset"] /\ pos = 1 /\ last = 1
  /\ p = 1 /\ state = "start" /\ hash = <<>> /\ i = 0
  /\ r = NewRequest /\ headers = <<>>
  /\ handler = "line" /\ pc = "read" /\ answer = [status |-> "none", key |-> <<>>]
  /\ cut = FALSE /\ overread = FALSE

-------------------------------------------------------------------------------
(* The end of a request.                                                   *)

Finish(status, key) ==
  /\ answer' = [status |-> status, key |-> key]
  /\ pc' = "done"
  /\ UNCHANGED <<bufferVars, parserVars, r, headers, handler>>

(* ngx_http_finalize_request() with an error: a 403, whatever the error.   *)
Refuse == Finish("403", <<>>)

(* The text a C string at q stands for.                                    *)
CString(q) == SubSeq(buffer, q, (CHOOSE e \in q .. End + 1 : (e > End \/ buffer[e] = "nul")
                                   /\ \A j \in q .. e - 1 : buffer[j] # "nul") - 1)

(* ngx_websocket_handler.                                                  *)
Decide == IF r.upgrade /\ r.key # 0 THEN Finish("101", CString(r.key)) ELSE Refuse

-------------------------------------------------------------------------------
(* ngx_http_read_request_header.                                           *)

(* The parser is called: it loads what the request has kept.               *)
Call ==
  /\ p' = pos /\ state' = r.state /\ hash' = r.header_hash /\ i' = r.lowcase_index
  /\ pc' = "parse"
  /\ UNCHANGED <<r, headers, handler, answer>>

Received(n) ==
  /\ buffer' = [j \in 1 .. End |-> IF j \in last .. last + n - 1 THEN stream[j - last + 1] ELSE buffer[j]]
  /\ last' = last + n
  /\ stream' = SubSeq(stream, n + 1, Len(stream))

(* Mutant: what the buffer already holds is not looked at before recv().   *)
Read_Waits ==
  /\ pc = "read"
  /\ \/ /\ \E n \in 1 .. Len(stream) : last + n <= End + 1 /\ Received(n)
        /\ Call /\ UNCHANGED pos
     \/ /\ last > End
        /\ Finish("closed", <<>>) /\ UNCHANGED stream
  /\ UNCHANGED <<request, historyVars>>

(* What is in the buffer first; else recv() into what is left of it, which *)
(* returns 0 if nothing is left.                                           *)
Read ==
  /\ pc = "read"
  /\ \/ /\ last > pos
        /\ Call /\ UNCHANGED <<stream, bufferVars>>
     \/ /\ last <= pos
        /\ \E n \in 1 .. Len(stream) : last + n <= End + 1 /\ Received(n)
        /\ Call /\ UNCHANGED pos
     \/ /\ last <= pos /\ last > End
        /\ Finish("closed", <<>>) /\ UNCHANGED stream
  /\ UNCHANGED <<request, historyVars>>

(* The client has left: recv() returns 0 or fails.                         *)
Left ==
  /\ pc = "read" /\ last <= pos
  /\ Finish("gone", <<>>)
  /\ UNCHANGED <<clientVars, historyVars>>

(* NGX_AGAIN: the parser leaves what it needs in the request.  A buffer    *)
(* that is full ends a request line with a close, headers with a 403.      *)
Again ==
  /\ pc = "parse" /\ p >= last
  /\ IF p = End + 1 THEN Finish(IF handler = "line" THEN "closed" ELSE "403", <<>>)
     ELSE /\ pos' = p
          /\ r' = [r EXCEPT !.state = state, !.header_hash = hash, !.lowcase_index = i]
          /\ pc' = "read"
          /\ UNCHANGED <<buffer, last, parserVars, headers, handler, answer>>
  /\ UNCHANGED <<clientVars, historyVars>>

-------------------------------------------------------------------------------
(* ngx_http_parse_request_line, one character ch = *p a step.              *)

(* On to the next character, in state st and with the request q.           *)
Step(st, q) ==
  /\ state' = st /\ r' = q /\ p' = p + 1
  /\ UNCHANGED <<bufferVars, hash, i, headers, handler, pc, answer>>

LineStart(ch) ==
  /\ state = "start"
  /\ LET q == [r EXCEPT !.request_start = p]
     IN \/ ch \in {"cr", "lf"} /\ Step("start", q)
        \/ ch = "G" /\ Step("method", q)
        \/ ch \notin {"cr", "lf", "G"} /\ Refuse

(* The method is compared at once, four characters from request_start on,  *)
(* received or not.                                                        *)
Get == <<"G", "E", "T", "sp">>

Method ==
  /\ state = "method"
  /\ LET read == SubSeq(buffer, r.request_start, last - 1)
     IN /\ \/ /\ StartsLike(read, Get)
              /\ state' = "spaces_before_uri" /\ r' = [r EXCEPT !.method = TRUE] /\ p' = p + 2
              /\ UNCHANGED <<bufferVars, hash, i, headers, handler, pc, answer>>
           \/ /\ ~StartsLike(read, Get) \/ Shorter(read, Get)
              /\ Refuse
        /\ cut' = (cut \/ Shorter(read, Get))
  /\ UNCHANGED overread

(* The line is complete: HTTP/1.1 and GET, or else it is refused.  Then    *)
(* the headers are read, unless the buffer is full.                        *)
LineDone(q) ==
  LET end  == IF q.request_end = 0 THEN p ELSE q.request_end
      done == [q EXCEPT !.request_end = end, !.state = "start"]
  IN IF 1000 * q.http_major + q.http_minor < 1001 \/ ~q.method \/ p = End THEN Refuse
     ELSE /\ r' = done /\ pos' = p + 1
          /\ handler' = "headers" /\ pc' = "read"
          /\ UNCHANGED <<buffer, last, parserVars, headers, answer>>

SpacesBeforeUri(ch) ==
  /\ state = "spaces_before_uri"
  /\ \/ ch = "/" /\ Step("after_slash_in_uri", [r EXCEPT !.uri_start = p])
     \/ ch = "sp" /\ Step(state, r)
     \/ ch \notin {"/", "sp"} /\ Refuse

AfterSlashInUri(ch) ==
  /\ state = "after_slash_in_uri"
  /\ LET q == [r EXCEPT !.uri_end = p]
     IN \/ ch = "sp" /\ Step("check_uri_http_09", q)
        \/ ch = "cr" /\ Step("almost_done", [q EXCEPT !.http_minor = 9])
        \/ ch = "lf" /\ LineDone([q EXCEPT !.http_minor = 9])
        \/ ch = "nul" /\ Refuse
        \/ ch \notin {"sp", "cr", "lf", "nul"} /\ Step(state, r)

CheckUriHttp09(ch) ==
  /\ state = "check_uri_http_09"
  /\ \/ ch = "sp" /\ Step(state, r)
     \/ ch = "cr" /\ Step("almost_done", [r EXCEPT !.http_minor = 9])
     \/ ch = "lf" /\ LineDone([r EXCEPT !.http_minor = 9])
     \/ ch = "H" /\ Step("http_H", [r EXCEPT !.http_protocol = p])
     \/ ch \notin {"sp", "cr", "lf", "H"} /\ Refuse

(* What each state of the protocol's name expects, and the state after it. *)
Protocol == [http_H    |-> <<"T", "http_HT">>,  http_HT   |-> <<"T", "http_HTT">>,
             http_HTT  |-> <<"P", "http_HTTP">>, http_HTTP |-> <<"/", "first_major_digit">>]

ProtocolName(ch) ==
  /\ state \in DOMAIN Protocol
  /\ IF ch = Protocol[state][1] THEN Step(Protocol[state][2], r) ELSE Refuse

Major(st, major) == IF major > 1 THEN Refuse ELSE Step(st, [r EXCEPT !.http_major = major])

MajorDigits(ch) ==
  \/ /\ state = "first_major_digit"
     /\ IF IsDigit(ch) /\ ch # "0" THEN Major("major_digit", Digit(ch)) ELSE Refuse
  \/ /\ state = "major_digit"
     /\ \/ ch = "." /\ Step("first_minor_digit", r)
        \/ IsDigit(ch) /\ Major(state, 10 * r.http_major + Digit(ch))
        \/ ch # "." /\ ~IsDigit(ch) /\ Refuse

MinorDigits(ch) ==
  \/ /\ state = "first_minor_digit"
     /\ IF IsDigit(ch) THEN Step("minor_digit", [r EXCEPT !.http_minor = Digit(ch)]) ELSE Refuse
  \/ /\ state = "minor_digit"
     /\ \/ ch = "cr" /\ Step("almost_done", r)
        \/ ch = "lf" /\ LineDone(r)
        \/ ch = "sp" /\ Step("spaces_after_digit", r)
        \/ /\ IsDigit(ch) /\ r.http_minor <= 99
           /\ Step(state, [r EXCEPT !.http_minor = 10 * @ + Digit(ch)])
        \/ ch \notin {"cr", "lf", "sp"} /\ ~(IsDigit(ch) /\ r.http_minor <= 99) /\ Refuse

SpacesAfterDigit(ch) ==
  /\ state = "spaces_after_digit"
  /\ \/ ch = "sp" /\ Step(state, r)
     \/ ch = "cr" /\ Step("almost_done", r)
     \/ ch = "lf" /\ LineDone(r)
     \/ ch \notin {"sp", "cr", "lf"} /\ Refuse

(* Mutant: the end of the line is taken one character too far.             *)
LineAlmostDone_OffByOne(ch) ==
  /\ state = "almost_done"
  /\ IF ch = "lf" THEN LineDone([r EXCEPT !.request_end = p]) ELSE Refuse

LineAlmostDone(ch) ==
  /\ state = "almost_done"
  /\ IF ch = "lf" THEN LineDone([r EXCEPT !.request_end = p - 1]) ELSE Refuse

ParseLine ==
  /\ pc = "parse" /\ handler = "line" /\ p < last
  /\ LET ch == buffer[p]
     IN \/ Method
        \/ /\ \/ LineStart(ch) \/ SpacesBeforeUri(ch) \/ AfterSlashInUri(ch) \/ CheckUriHttp09(ch)
              \/ ProtocolName(ch) \/ MajorDigits(ch) \/ MinorDigits(ch) \/ SpacesAfterDigit(ch) \/ LineAlmostDone(ch)
           /\ UNCHANGED historyVars
  /\ UNCHANGED clientVars

-------------------------------------------------------------------------------
(* ngx_http_parse_header_line, one character ch = *p a step.               *)

(* Mutant: the index into lowcase_header is not wrapped.                   *)
NameCharacter_NoWrap(q, ch, h, j) ==
  /\ hash' = Append(h, Lowcase(ch))
  /\ r' = [q EXCEPT !.lowcase_header[j] = Lowcase(ch)]
  /\ i' = j + 1
  /\ state' = "name" /\ p' = p + 1
  /\ UNCHANGED <<bufferVars, headers, handler, pc, answer>>

(* A character of a name: into the hash, and into lowcase_header at j.     *)
NameCharacter(q, ch, h, j) ==
  /\ hash' = Append(h, Lowcase(ch))
  /\ r' = [q EXCEPT !.lowcase_header[j] = Lowcase(ch)]
  /\ i' = (j + 1) % LC
  /\ state' = "name" /\ p' = p + 1
  /\ UNCHANGED <<bufferVars, headers, handler, pc, answer>>

(* Mutant: a line stays invalid if the one before it was.                  *)
HeaderStart_KeepsInvalid(ch) ==
  /\ state = "start"
  /\ LET q == [r EXCEPT !.name_start = p]
     IN \/ ch = "cr" /\ Step("header_almost_done", [q EXCEPT !.header_end = p])
        \/ ch = "lf" /\ Decide
        \/ Named(ch) /\ NameCharacter(q, ch, <<>>, 0)
        \/ ch = "nul" /\ Refuse
        \/ /\ ch \notin {"cr", "lf", "nul"} /\ ~Named(ch)
           /\ Step("name", [q EXCEPT !.invalid_header = TRUE])

HeaderStart(ch) ==
  /\ state = "start"
  /\ LET q == [r EXCEPT !.name_start = p, !.invalid_header = FALSE]
     IN \/ ch = "cr" /\ Step("header_almost_done", [q EXCEPT !.header_end = p])
        \/ ch = "lf" /\ Decide
        \/ Named(ch) /\ NameCharacter(q, ch, <<>>, 0)
        \/ ch = "nul" /\ Refuse
        \/ /\ ch \notin {"cr", "lf", "nul"} /\ ~Named(ch)
           /\ Step("name", [q EXCEPT !.invalid_header = TRUE])

(* NGX_OK: a header line is complete.                                      *)
HeaderDone(q) ==
  /\ pos' = p + 1 /\ pc' = "entry"
  /\ r' = [q EXCEPT !.state = "start", !.header_hash = hash, !.lowcase_index = i]
  /\ UNCHANGED <<buffer, last, parserVars, headers, handler, answer>>

Name(ch) ==
  /\ state = "name"
  /\ LET none == [r EXCEPT !.name_end = p, !.header_start = p, !.header_end = p]
     IN \/ Named(ch) /\ NameCharacter(r, ch, hash, i)
        \/ ch = ":" /\ Step("space_before_value", [r EXCEPT !.name_end = p])
        \/ ch = "cr" /\ Step("almost_done", none)
        \/ ch = "lf" /\ HeaderDone(none)
        \/ ch = "nul" /\ Refuse
        \/ ch \notin {":", "cr", "lf", "nul"} /\ ~Named(ch) /\ Step(state, [r EXCEPT !.invalid_header = TRUE])

SpaceBeforeValue(ch) ==
  /\ state = "space_before_value"
  /\ LET none == [r EXCEPT !.header_start = p, !.header_end = p]
     IN \/ ch = "sp" /\ Step(state, r)
        \/ ch = "cr" /\ Step("almost_done", none)
        \/ ch = "lf" /\ HeaderDone(none)
        \/ ch = "nul" /\ Refuse
        \/ ch \notin {"sp", "cr", "lf", "nul"} /\ Step("value", [r EXCEPT !.header_start = p])

(* Mutant: the end of a value stays at the first space in it.              *)
InValue_FirstSpace(ch) ==
  /\ state = "value"
  /\ LET q == [r EXCEPT !.header_end = IF @ > r.header_start THEN @ ELSE p]
     IN \/ ch = "sp" /\ Step("space_after_value", q)
        \/ ch = "cr" /\ Step("almost_done", q)
        \/ ch = "lf" /\ HeaderDone(q)
        \/ ch = "nul" /\ Refuse
        \/ ch \notin {"sp", "cr", "lf", "nul"} /\ Step(state, r)

InValue(ch) ==
  /\ state = "value"
  /\ LET q == [r EXCEPT !.header_end = p]
     IN \/ ch = "sp" /\ Step("space_after_value", q)
        \/ ch = "cr" /\ Step("almost_done", q)
        \/ ch = "lf" /\ HeaderDone(q)
        \/ ch = "nul" /\ Refuse
        \/ ch \notin {"sp", "cr", "lf", "nul"} /\ Step(state, r)

SpaceAfterValue(ch) ==
  /\ state = "space_after_value"
  /\ \/ ch = "sp" /\ Step(state, r)
     \/ ch = "cr" /\ Step("almost_done", r)
     \/ ch = "lf" /\ HeaderDone(r)
     \/ ch = "nul" /\ Refuse
     \/ ch \notin {"sp", "cr", "lf", "nul"} /\ Step("value", r)

HeaderAlmostDone(ch) ==
  \/ /\ state = "almost_done"
     /\ \/ ch = "lf" /\ HeaderDone(r)
        \/ ch = "cr" /\ Step(state, r)
        \/ ch \notin {"cr", "lf"} /\ Refuse
  \/ /\ state = "header_almost_done"
     /\ IF ch = "lf" THEN Decide ELSE Refuse

ParseHeaders ==
  /\ pc = "parse" /\ handler = "headers" /\ p < last
  /\ LET ch == buffer[p]
     IN \/ HeaderStart(ch) \/ Name(ch) \/ SpaceBeforeValue(ch) \/ InValue(ch) \/ SpaceAfterValue(ch)
        \/ HeaderAlmostDone(ch)
  /\ UNCHANGED <<clientVars, historyVars>>

-------------------------------------------------------------------------------
(* A header line in ngx_http_process_request_headers.                      *)

Upgrade == <<"up", "grade">>
SecWebsocketKey == <<"sec-key">>
Websocket == <<"websocket">>

(* The name in lower case: as the parser has kept it, if all of it fits.   *)
LowcaseKey(key) ==
  IF Len(key) = r.lowcase_index THEN [j \in 1 .. Len(key) |-> r.lowcase_header[j - 1]] ELSE LowcaseText(key)

(* An invalid line is skipped.  Another is added to the list, its name and *)
(* value are ended by a NUL in the buffer, and the two headers the upgrade *)
(* needs are looked for; the name in lower case has no NUL.                *)
HeaderEntry ==
  /\ pc = "entry" /\ pc' = "parse"
  /\ p' = pos /\ state' = r.state
  /\ IF r.invalid_header THEN UNCHANGED <<buffer, r, headers, overread>>
     ELSE LET key   == SubSeq(buffer, r.name_start, r.name_end - 1)
              value == SubSeq(buffer, r.header_start, r.header_end - 1)
              low   == LowcaseKey(key)
              wants == StartsLike(value, Websocket) /\ ~Shorter(value, Websocket)
          IN /\ headers' = Append(headers, [hash |-> r.header_hash, key |-> key, value |-> value,
                                            lowcase_key |-> low])
             /\ buffer' = [buffer EXCEPT ![r.name_end] = "nul", ![r.header_end] = "nul"]
             /\ \E match \in BOOLEAN :
                  /\ match => StartsLike(low, Upgrade)
                  /\ ~match => (~StartsLike(low, Upgrade) \/ Shorter(low, Upgrade))
                  /\ r' = [r EXCEPT !.upgrade = @ \/ (match /\ wants),
                                    !.key = IF StartsLike(low, SecWebsocketKey) THEN r.header_start ELSE @]
             /\ overread' = (overread \/ (StartsLike(low, Upgrade) /\ Shorter(low, Upgrade)))
  /\ UNCHANGED <<clientVars, pos, last, hash, i, handler, answer, cut>>

-------------------------------------------------------------------------------
Process == Read \/ Again \/ ParseLine \/ ParseHeaders \/ HeaderEntry

Next == Process \/ Left

(* The worker runs, and what a client has sent arrives; nobody need leave. *)
Spec == Init /\ [][Next]_vars /\ WF_vars(Process)

-------------------------------------------------------------------------------
(* What a request means, from its parts and not from its characters.       *)

Characters(text) == {text[j] : j \in 1 .. Len(text)}

(* The number the first n digits stand for, as a function of n.            *)
NumberOf(digits) ==
  LET number[n \in 0 .. Len(digits)] == IF n = 0 THEN 0 ELSE 10 * number[n - 1] + Digit(digits[n])
  IN number

Number(digits) == NumberOf(digits)[Len(digits)]

GoodLine(l) ==
  /\ l.method = Get /\ l.uri[1] = "/" /\ "nul" \notin Characters(l.uri)
  /\ l.proto = <<"H", "T", "T", "P", "/">>
  /\ l.major = <<"1">> /\ l.minor # <<>>
  /\ \A j \in 1 .. Len(l.minor) : IsDigit(l.minor[j])
  /\ Number(l.minor) \in 1 .. 999
  /\ l.eol \in {<<"cr", "lf">>, <<"lf">>}

GoodHeader(h) ==
  /\ "nul" \notin Characters(h.name \o h.value)
  /\ h.eol \in {<<"cr", "lf">>, <<"lf">>, <<"cr", "cr", "lf">>}

Complete(q) == q.end \in {<<"cr", "lf">>, <<"lf">>}

ValidName(name) == \A j \in 1 .. Len(name) : Named(name[j])
Entry(h) == [hash |-> LowcaseText(h.name), key |-> h.name, value |-> h.value, lowcase_key |-> LowcaseText(h.name)]

(* The headers of the first n lines, without the lines whose name is       *)
(* invalid, as a function of n.                                            *)
HeadersOf(lines) ==
  LET list[n \in 0 .. Len(lines)] ==
        IF n = 0 THEN <<>>
        ELSE IF ValidName(lines[n].name) THEN Append(list[n - 1], Entry(lines[n])) ELSE list[n - 1]
  IN list

Headers(q) == HeadersOf(q.lines)[Len(q.lines)]

Begins(text, literal) == StartsLike(text, literal) /\ ~Shorter(text, literal)

(* Where in a list of headers those for an upgrade and those with a key    *)
(* are.                                                                    *)
Upgrades(list) == {j \in 1 .. Len(list) : Begins(list[j].lowcase_key, Upgrade) /\ Begins(list[j].value, Websocket)}
Keys(list) == {j \in 1 .. Len(list) : Begins(list[j].lowcase_key, SecWebsocketKey)}

(* A request for a websocket, complete and not too long for the buffer.    *)
ForWebsocket(q) ==
  /\ GoodLine(q.line) /\ Complete(q) /\ Len(Text(q)) <= End
  /\ \A j \in 1 .. Len(q.lines) : GoodHeader(q.lines[j])
  /\ Upgrades(Headers(q)) # {} /\ Keys(Headers(q)) # {}

-------------------------------------------------------------------------------
(* Properties.                                                             *)

State ==
  {"start", "method", "spaces_before_uri", "after_slash_in_uri", "check_uri_http_09", "http_H", "http_HT",
   "http_HTT", "http_HTTP", "first_major_digit", "major_digit", "first_minor_digit", "minor_digit",
   "spaces_after_digit", "almost_done", "name", "space_before_value", "value", "space_after_value",
   "header_almost_done"}

Texts == Seq(Cell)
Kept == [0 .. LC - 1 -> Cell]

RequestType ==
  [state : State,
   method : BOOLEAN, request_start : 0 .. End, request_end : 0 .. End,
   uri_start : 0 .. End, uri_end : 0 .. End, http_protocol : 0 .. End, http_major : 0 .. 1, http_minor : 0 .. 999,
   header_hash : Texts, lowcase_index : 0 .. LC - 1, lowcase_header : Kept,
   invalid_header : BOOLEAN, name_start : 0 .. End, name_end : 0 .. End,
   header_start : 0 .. End, header_end : 0 .. End, upgrade : BOOLEAN, key : 0 .. End]

(* Every variable has its type: no pointer leaves the buffer by more than  *)
(* the comparison of the method, and lowcase_header is not overrun.        *)
TypeOK ==
  /\ request \in Request /\ stream \in Texts
  /\ buffer \in [1 .. End -> Cell] /\ last \in 1 .. End + 1
  /\ pos \in 1 .. last + 1 /\ p \in 1 .. last + 1
  /\ r \in RequestType
  /\ state \in State /\ hash \in Texts /\ i \in 0 .. LC - 1
  /\ handler \in {"line", "headers"} /\ pc \in {"read", "parse", "entry", "done"}
  /\ answer.status \in {"none", "101", "403", "closed", "gone"}
  /\ cut \in BOOLEAN /\ overread \in BOOLEAN

(* Wherever the request is cut, it is upgraded if and only if it is a      *)
(* complete and correct request for a websocket that fits the buffer, and  *)
(* with the last key in it; it is only closed unanswered for a line that   *)
(* is longer than the buffer.                                              *)
AnswerIsTheRequests ==
  ~cut /\ ~overread =>
    /\ answer.status = "101" =>
         ForWebsocket(request) /\ answer.key = Headers(request)[Max(Keys(Headers(request)))].value
    /\ answer.status = "403" => ~ForWebsocket(request)
    /\ answer.status = "closed" => Len(LineText(request.line)) > End

(* The list of headers is what was sent: names, values, names in lower     *)
(* case and their hash, without the invalid lines; all at an upgrade.      *)
HeadersAreThoseSent ==
  /\ IsPrefix(headers, Headers(request))
  /\ answer.status = "101" => headers = Headers(request)

Between(a, b) == SubSeq(buffer, a, b - 1)

(* The pointers of the request line enclose the line, its uri and its      *)
(* protocol.                                                               *)
LineIsThatSent ==
  LET l == request.line
  IN /\ Between(r.uri_start, r.uri_end) = l.uri
     /\ Between(r.http_protocol, r.request_end) = ProtocolText(l)
     /\ Between(r.request_start, r.request_end) = MethodAndUri(l) \o ProtocolText(l)

(* What is kept of the request is what was sent, whatever was cut, ended   *)
(* by a NUL or overwritten: the line once the headers are read, and every  *)
(* header read so far.                                                     *)
RequestIsThatSent == ~cut => HeadersAreThoseSent /\ (handler = "headers" => LineIsThatSent)

(* A request that is complete is answered, or its connection closed:       *)
(* nothing of it waits in the buffer for bytes that do not come.           *)
CompleteIsAnswered == Complete(request) ~> pc = "done"
===============================================================================
