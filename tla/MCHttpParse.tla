------------------------------ MODULE MCHttpParse ------------------------------
(***************************************************************************)
(* HttpParse for TLC: a request for a websocket, and every request that    *)
(* differs from it in one part.                                            *)
(***************************************************************************)
EXTENDS HttpParse

CRLF == <<"cr", "lf">>
LF == <<"lf">>

TheLine == [lead |-> <<>>, method |-> Get, gap |-> 0, uri |-> <<"/">>, gap2 |-> 1,
            proto |-> <<"H", "T", "T", "P", "/">>, major |-> <<"1">>, minor |-> <<"1">>, trail |-> 0,
            eol |-> CRLF]

Header(name, value) == [name |-> name, colon |-> TRUE, gap |-> 0, value |-> value, trail |-> 0, eol |-> LF]

UpgradeLine == Header(<<"Up", "grade">>, Websocket)
KeyLine == Header(SecWebsocketKey, <<"x">>)
AnyLine == Header(<<"x">>, <<"x">>)

TheRequest == [line |-> TheLine, lines |-> <<UpgradeLine, KeyLine>>, end |-> CRLF]

LineVariants ==
  {[TheLine EXCEPT !.lead = CRLF], [TheLine EXCEPT !.gap = 1], [TheLine EXCEPT !.gap2 = 2],
   [TheLine EXCEPT !.trail = 1], [TheLine EXCEPT !.proto = <<>>]}
  \cup {[TheLine EXCEPT !.method = m] : m \in {<<"x">>, <<"G", "E", "x", "sp">>}}
  \cup {[TheLine EXCEPT !.uri = u] : u \in {<<"/", "x">>, <<"x">>, <<"/", "nul">>, <<"/">> \o [j \in 1 .. End |-> "x"]}}
  \cup {[TheLine EXCEPT !.proto = <<>>, !.gap2 = n, !.eol = e] : n \in {0, 1}, e \in {CRLF, LF}}
  \cup {[TheLine EXCEPT !.proto[j] = "x"] : j \in 1 .. 5}
  \cup {[TheLine EXCEPT !.major = m] : m \in {<<"0">>, <<"2">>, <<"1", "0">>, <<"1", "x">>}}
  \cup {[TheLine EXCEPT !.minor = m] : m \in {<<>>, <<"0">>, <<"0", "1">>, <<"1", "x">>, <<"9", "9", "9">>,
                                              <<"9", "9", "9", "9">>}}
  \cup {[TheLine EXCEPT !.trail = n, !.eol = e] : n \in {0, 1}, e \in {CRLF, <<"x", "lf">>, <<"cr", "x">>}}

HeaderVariants ==
  {Header(n, <<"x">>) : n \in {<<"!", "x">>, <<"x", "!">>, <<"us", "x">>, <<"x", "nul">>, <<"nul">>,
                              <<"G", "x">>, <<"x", "1">>}}
  \cup {Header(<<"x">>, v) : v \in {<<>>, <<"x", "sp", "x">>, <<"nul">>, <<"x", "sp", "nul">>}}
  \cup {[AnyLine EXCEPT !.eol = e] : e \in {CRLF, <<"cr", "cr", "lf">>, <<"cr", "x">>}}
  \cup {[Header(<<"x">>, v) EXCEPT !.gap = 1, !.trail = 2, !.eol = e] : v \in {<<"x">>, <<>>}, e \in {CRLF, LF}}
  \cup {[AnyLine EXCEPT !.colon = FALSE, !.value = <<>>, !.eol = e] : e \in {CRLF, LF}}
  \cup {Header(SecWebsocketKey, <<"x", "sp", "x">>), Header(<<"up">>, Websocket)}

UpgradeVariants ==
  {Header(n, Websocket) : n \in {<<"x">>, <<"up">>, <<"up", "grade", "x">>}}
  \cup {Header(<<"up", "grade">>, v) : v \in {<<"x">>, <<>>, <<"websocket", "x">>}}

Requests ==
  {TheRequest, [TheRequest EXCEPT !.lines = <<UpgradeLine>>], [TheRequest EXCEPT !.lines = <<KeyLine>>]}
  \cup {[TheRequest EXCEPT !.line = l] : l \in LineVariants}
  \cup {[TheRequest EXCEPT !.lines = <<h>> \o @] : h \in HeaderVariants}
  \cup {[TheRequest EXCEPT !.lines = <<h, KeyLine>>] : h \in UpgradeVariants}
  \cup {[TheRequest EXCEPT !.end = e] : e \in {<<>>, <<"lf">>, <<"cr", "x">>}}

(* All of them are clear: what is proved of such requests is about them.   *)
ASSUME RequestsAreClear == \A q \in Requests : IsClear(q)
===============================================================================
