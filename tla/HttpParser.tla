----------------------------- MODULE HttpParser ------------------------------
(***************************************************************************)
(* http_parser_execute, strict build: one action per case of its switch,   *)
(* one step per byte and per REEXECUTE, and the calls between which the    *)
(* bytes of a connection are cut at any place.                             *)
(*                                                                         *)
(* The bytes are the classes the cases tell apart.  A word that the parser *)
(* matches letter by letter (a method, HTTP/1.1, a header name or value)   *)
(* is one byte here, offered in the states that look for it; any other     *)
(* word is made of ordinary letters.                                       *)
(***************************************************************************)
EXTENDS UrlChar, Integers, FiniteSets

CONSTANTS Types,     \* how the parser is initialised: REQUEST, RESPONSE, BOTH
          Bytes,     \* the classes of bytes sent, offered in every state
          Words,     \* the words sent
          MaxHeader, \* HTTP_MAX_HEADER_SIZE, counted in bytes and words
          MaxLen,    \* ULLONG_MAX
          MaxPiece,  \* bound on what one call brings of a body without length
          MayFail,   \* the callbacks that may return an error
          HeadersResults \* what else on_headers_complete returns

ASSUME TypesAssumption   == Types \subseteq {"REQUEST", "RESPONSE", "BOTH"}
ASSUME LimitsAssumption  == /\ MaxHeader \in Nat \ {0} /\ MaxPiece \in Nat \ {0}
                            /\ MaxLen \in Nat /\ MaxLen > 18
ASSUME ResultsAssumption == HeadersResults \subseteq {0, 1, 2}

VARIABLES
  parser,  \* the struct: type, method, old (before HTTP/1.1), status, state,
           \* flags, hs (header_state), nread, length, upgrade, errno
  call,    \* out: no call running; first, more: in a call, before its first
           \* byte and after it; full: its last byte was read; ended: no more
  whole,   \* the last call returned its length
  ch,      \* the byte being looked at again, or NoByte
  mark,    \* for each mark that is set, how far p is behind it
  run,     \* bytes read in the inner loop of s_header_field or s_header_value
  skip,    \* that loop goes on to the end of the line without looking
  cb,      \* the callback made by the last step, with its length
  owed,    \* bytes of a part of the message not yet handed to a callback
  due,     \* the body length announced and not yet read, without overflow
  order    \* the last callback, whether it was in the chunked part, and
           \* whether a message was the connection's last

aux  == <<owed, due, order>>
vars == <<parser, call, whole, ch, mark, run, skip, cb, aux>>

NoByte == "none"
NoMarks == [k \in {} |-> 0]
MarkHere(k) == [j \in {k} |-> 0]
NoCall == [on |-> "none", len |-> 0]

-----------------------------------------------------------------------------
(* Bytes *)

FieldWords  == {"Content-Length", "Transfer-Encoding", "Connection", "Upgrade"}
TokenByte   == Alpha \union Digits \union Mark \union {"+", "%", "#"} \union FieldWords
StatusWords == {"101", "200", "204"}
Versions    == {"TTP/1.1", "TTP/1.0"}
Blank       == {"SP", "TAB"}

Notifications == {"message_begin", "headers_complete", "message_complete",
                  "chunk_header", "chunk_complete"}
Pieces == {"url", "status", "header_field", "header_value", "body"}

BodyStates == {"s_body_identity", "s_body_identity_eof", "s_chunk_data"}

\* "co" stands for a word that only begins like close.
ConnectionWords == {"close", "keep-alive", "upgrade", "co"}

ValueWords(hs) ==
  CASE hs = "h_transfer_encoding" -> {"chunked"}
    [] hs \in {"h_connection", "h_matching_connection_token_start"} ->
         ConnectionWords
    [] OTHER -> {}

WordsIn(s, hs) ==
  CASE s = "s_start_req_or_res" -> {"GET", "CONNECT", "H"}
    [] s = "s_start_req"        -> {"GET", "CONNECT", "HEAD"}
    [] s \in {"s_start_res", "s_req_http_start"} -> {"H"}
    [] s = "s_res_or_resp_H"    -> Versions \union {"EAD"}
    [] s \in {"s_res_H", "s_req_http_H"} -> Versions
    [] s = "s_res_first_status_code" -> StatusWords
    [] s = "s_header_field_start"    -> FieldWords
    [] s \in {"s_header_value_discard_ws", "s_header_value"} -> ValueWords(hs)
    [] OTHER -> {}

Offered == IF parser.state \in BodyStates THEN {"DATA"}
           ELSE Bytes \union (Words \intersect WordsIn(parser.state, parser.hs))

\* The value of a digit of a length; "a" is a hexadecimal one.
Hex(b) == IF b = "a" THEN 10 ELSE DigitValue[b]

\* Arithmetic on content_length.
Wrap(n) == n % (MaxLen + 1)

ASSUME FailAssumption == MayFail \subseteq Notifications

-----------------------------------------------------------------------------
(* What a case does when it is done with the byte: break, REEXECUTE, goto   *)
(* error, or a callback first.  `seen` bytes of it belong to a part of the  *)
(* message that a callback is owed.                                         *)

BodyPhase == {"s_chunk_data", "s_chunk_data_almost_done", "s_chunk_data_done",
              "s_body_identity", "s_body_identity_eof", "s_message_done"}

Counts == ch = NoByte /\ parser.state \notin BodyPhase /\ run = 0

\* COUNT_HEADER_SIZE(n) on p goes to error.
TooLong(p, n) == p.nread + n > MaxHeader

\* The parser when it looks at a byte: COUNT_HEADER_SIZE(1) for a new one.
P == IF Counts THEN [parser EXCEPT !.nread = @ + 1] ELSE parser

\* The loop, or REEXECUTE, brings byte b to state s.
At(s, b) ==
  /\ call \in {"first", "more"} /\ parser.state = s
  /\ b \in (IF ch = NoByte THEN Offered ELSE {ch})
  /\ Counts => ~TooLong(parser, 1)

\* Mutant: the mark stays set after its callback.
UnmarkedKeeps(k) == mark

To(s)       == [P EXCEPT !.state = s]
Marked(k)   == [j \in DOMAIN mark \union {k} |->
                  IF j \in DOMAIN mark THEN mark[j] ELSE 0]
Unmarked(k) == [j \in DOMAIN mark \ {k} |-> mark[j]]
Moved(m, n) == [j \in DOMAIN m |-> m[j] + n]

Quiet(p, seen) == /\ parser' = p /\ cb' = NoCall /\ owed' = owed + seen
                  /\ run' = 0 /\ skip' = FALSE /\ UNCHANGED order

Leave(adv) == /\ call' = "out" /\ ch' = NoByte /\ mark' = NoMarks
              /\ whole' \in IF adv THEN BOOLEAN ELSE {FALSE}

Goes(c, b, m) == call' = c /\ ch' = b /\ mark' = m /\ UNCHANGED whole

Take(p, m, seen) == Quiet(p, seen) /\ Goes("more", NoByte, Moved(m, 1))
Break(p)         == Take(p, mark, 0)
Again(p, b)      == Quiet(p, 0) /\ Goes("more", b, mark)
Fail(p)          == Quiet([p EXCEPT !.errno = "error"], 0) /\ Leave(FALSE)

MessageNeedsEof(p) ==
  /\ p.type # "REQUEST" /\ p.status \notin {"101", "204"}
  /\ "SKIPBODY" \notin p.flags /\ "CHUNKED" \notin p.flags
  /\ p.length = MaxLen

ShouldKeepAlive(p) ==
  /\ IF p.old THEN "KEEP_ALIVE" \in p.flags ELSE "CLOSE" \notin p.flags
  /\ ~MessageNeedsEof(p)

\* Callback `on` is made; it returns 0 and the case goes on, or an error.
Callback(on, len, seen, p, go, stop) ==
  /\ cb' = [on |-> on, len |-> len]
  /\ owed' = owed + seen - len
  /\ order' = [last  |-> on,
               chunk |-> CASE on = "chunk_header" -> TRUE
                           [] on \in {"chunk_complete", "message_begin"} -> FALSE
                           [] OTHER -> order.chunk,
               final |-> \/ order.final
                         \/ on = "message_complete" /\ ~ShouldKeepAlive(p)]
  /\ run' = 0 /\ skip' = FALSE
  /\ \/ parser' = p /\ go
     \/ on \in MayFail /\ parser' = [p EXCEPT !.errno = "error"] /\ stop

\* CALLBACK_NOTIFY and its variant that does not consume the byte.
Notify(on, p) ==
  Callback(on, 0, 0, p, Goes("more", NoByte, Moved(mark, 1)), Leave(TRUE))
NotifyAgain(on, p, b) ==
  Callback(on, 0, 0, p, Goes("more", b, mark), Leave(FALSE))

\* CALLBACK_DATA and its variant; nothing is called without a mark.
Data(k, p) ==
  IF k \in DOMAIN mark
  THEN Callback(k, mark[k], 0, p,
                Goes("more", NoByte, Moved(Unmarked(k), 1)), Leave(TRUE))
  ELSE Break(p)
DataAgain(k, m, p, b) ==
  Callback(k, m[k], 0, p, Goes("more", b, Unmarked(k)), Leave(FALSE))

Ok == parser.errno = "OK"

StartState(t) == CASE t = "REQUEST"  -> "s_start_req"
                   [] t = "RESPONSE" -> "s_start_res"
                   [] t = "BOTH"     -> "s_start_req_or_res"

\* NEW_MESSAGE().
NewMessage(p) == [p EXCEPT !.state = IF ~ShouldKeepAlive(p) THEN "s_dead"
                                     ELSE IF p.type = "REQUEST"
                                     THEN "s_start_req" ELSE "s_start_res"]

\* http_parser_init, and the bytes to come not yet offered.
Init ==
  /\ \E t \in Types :
       parser = [type |-> t, method |-> "DELETE", old |-> TRUE, status |-> "0",
                 state |-> StartState(t), flags |-> {}, hs |-> "h_general",
                 nread |-> 0, length |-> 0, upgrade |-> FALSE, errno |-> "OK"]
  /\ call = "out" /\ whole = TRUE /\ ch = NoByte /\ mark = NoMarks
  /\ run = 0 /\ skip = FALSE /\ cb = NoCall
  /\ owed = 0 /\ due = 0
  /\ order = [last |-> "none", chunk |-> FALSE, final |-> FALSE]

-----------------------------------------------------------------------------
(* The call and its end *)

\* Mutant: the mark of a URL cut in two is not set again.
ExecuteForgets ==
  /\ call = "out" /\ Ok
  /\ mark' = CASE parser.state = "s_header_field" -> MarkHere("header_field")
               [] parser.state = "s_header_value" -> MarkHere("header_value")
               [] parser.state = "s_res_status"   -> MarkHere("status")
               [] OTHER -> NoMarks
  /\ call' = "first" /\ whole' = TRUE /\ cb' = NoCall
  /\ UNCHANGED <<parser, ch, run, skip, aux>>

\* The user has bytes for http_parser_execute: one at least.  In the middle of
\* a part its mark is set to the first of them.
Execute ==
  /\ call = "out" /\ Ok
  /\ mark' = CASE parser.state = "s_header_field" -> MarkHere("header_field")
               [] parser.state = "s_header_value" -> MarkHere("header_value")
               [] parser.state \in UrlStates      -> MarkHere("url")
               [] parser.state = "s_res_status"   -> MarkHere("status")
               [] OTHER -> NoMarks
  /\ call' = "first" /\ whole' = TRUE /\ cb' = NoCall
  /\ UNCHANGED <<parser, ch, run, skip, aux>>

\* After an error nothing is done any more and 0 is returned.
ExecuteLatched ==
  /\ call = "out" /\ ~Ok /\ cb' = NoCall
  /\ whole' \in BOOLEAN /\ call' = IF whole' THEN "ended" ELSE "out"
  /\ UNCHANGED <<parser, ch, mark, run, skip, aux>>

\* Execute on no bytes, the end of the stream: the user's last call.
ExecuteEof ==
  /\ call = "out" /\ Ok
  /\ IF parser.state = "s_body_identity_eof"
     THEN LET Return == call' = "ended" /\ whole' = TRUE IN
          /\ Callback("message_complete", 0, 0, parser, Return, Return)
          /\ UNCHANGED <<ch, mark, due>>
     ELSE LET quiet == parser.state \in {"s_dead", "s_start_req_or_res",
                                         "s_start_res", "s_start_req"} IN
          /\ parser' = [parser EXCEPT !.errno = IF quiet THEN @ ELSE "error"]
          /\ whole' = quiet /\ call' = "ended" /\ cb' = NoCall
          /\ UNCHANGED <<ch, mark, run, skip, aux>>

\* The call has no more bytes: what is left of a part goes to its callback.
EndOfData ==
  /\ call \in {"more", "full"} /\ ch = NoByte /\ UNCHANGED due
  /\ LET p == [parser EXCEPT !.nread = @ + run]
         Return == /\ call' = "out" /\ whole' = TRUE /\ ch' = NoByte
                   /\ mark' = NoMarks
     IN IF run > 0 /\ TooLong(parser, run)
        THEN Quiet([p EXCEPT !.errno = "error"], 0) /\ Return
        ELSE IF DOMAIN mark = {} THEN Quiet(p, 0) /\ Return
        ELSE LET k == CHOOSE j \in DOMAIN mark : TRUE IN
             Callback(k, mark[k], 0, p, Return, Return)

\* COUNT_HEADER_SIZE(1) of the loop exceeds the limit.
HeaderOverflow ==
  /\ call \in {"first", "more"} /\ Counts /\ TooLong(parser, 1)
  /\ Fail(P) /\ UNCHANGED due

-----------------------------------------------------------------------------
(* The cases that only expect certain bytes *)

Only(bytes, s) == [b \in bytes |-> s]

ExpectMoves ==
  [s_dead                   |-> Only(NewLine, "s_dead"),
   s_res_line_almost_done   |-> Only({"LF"}, "s_header_field_start"),
   s_res_http_end           |-> Only({"SP"}, "s_res_first_status_code"),
   s_req_method             |-> Only({"SP"}, "s_req_spaces_before_url"),
   s_req_http_start         |-> [b \in {"H", "SP"} |->
                                   IF b = "H" THEN "s_req_http_H"
                                              ELSE "s_req_http_start"],
   s_req_http_end           |-> [b \in NewLine |->
                                   IF b = "CR" THEN "s_req_line_almost_done"
                                               ELSE "s_header_field_start"],
   s_req_line_almost_done   |-> Only({"LF"}, "s_header_field_start"),
   s_header_almost_done     |-> Only({"LF"}, "s_header_value_lws"),
   s_header_value_discard_ws_almost_done |->
                               Only({"LF"}, "s_header_value_discard_lws")]

Expect(s, b) ==
  /\ At(s, b)
  /\ IF b \in DOMAIN ExpectMoves[s] THEN Break(To(ExpectMoves[s][b])) ELSE Fail(P)
  /\ UNCHANGED due

-----------------------------------------------------------------------------
(* The first line *)

NewHeaders(p) == [p EXCEPT !.flags = {}, !.length = MaxLen]

StartReqOrRes(b) ==
  /\ At("s_start_req_or_res", b)
  /\ \/ b \in NewLine /\ Break(P) /\ UNCHANGED due
     \/ /\ b = "H" /\ due' = MaxLen
        /\ Notify("message_begin", NewHeaders(To("s_res_or_resp_H")))
     \/ /\ b \notin NewLine \union {"H"} /\ due' = MaxLen
        /\ Again([NewHeaders(To("s_start_req")) EXCEPT !.type = "REQUEST"], b)

\* An empty line is told to on_message_begin, too.
StartRes(b) ==
  /\ At("s_start_res", b) /\ due' = MaxLen
  /\ LET p == NewHeaders(P) IN
     \/ b = "H" /\ Notify("message_begin", [p EXCEPT !.state = "s_res_H"])
     \/ b \in NewLine /\ Notify("message_begin", p)
     \/ b \notin NewLine \union {"H"} /\ Fail(p)

\* The version, up to its minor number.
Version(s, p, b) ==
  IF b \in Versions
  THEN Break([p EXCEPT !.state = s, !.old = b = "TTP/1.0"])
  ELSE Fail(p)

ResOrReqH(b) ==
  /\ At("s_res_or_resp_H", b) /\ UNCHANGED due
  /\ \/ /\ b = "EAD"
        /\ Break([To("s_req_method") EXCEPT !.type = "REQUEST",
                                            !.method = "HEAD"])
     \/ /\ b # "EAD"
        /\ Version("s_res_http_end", [P EXCEPT !.type = "RESPONSE"], b)

ResVersion(b) ==
  At("s_res_H", b) /\ Version("s_res_http_end", P, b) /\ UNCHANGED due

ReqVersion(b) ==
  At("s_req_http_H", b) /\ Version("s_req_http_end", P, b) /\ UNCHANGED due

\* A code is one word here, never single digits.
FirstStatusCode(b) ==
  /\ At("s_res_first_status_code", b) /\ b \notin Digits /\ UNCHANGED due
  /\ \/ b = "SP" /\ Break(P)
     \/ b \in StatusWords /\ Break([To("s_res_status_code") EXCEPT !.status = b])
     \/ b \notin StatusWords \union {"SP"} /\ Fail(P)

StatusCode(b) ==
  /\ At("s_res_status_code", b) /\ UNCHANGED due
  /\ \/ b = "SP" /\ Break(To("s_res_status_start"))
     \/ b \in NewLine /\ Again(To("s_res_status_start"), b)
     \/ b \notin NewLine \union {"SP"} /\ Fail(P)

StatusStart(b) ==
  /\ At("s_res_status_start", b) /\ UNCHANGED due
  /\ IF b \in NewLine
     THEN Quiet(To("s_res_status"), 0) /\ Goes("more", b, Marked("status"))
     ELSE Take(To("s_res_status"), Marked("status"), 1)

Status(b) ==
  /\ At("s_res_status", b) /\ UNCHANGED due
  /\ \/ b = "CR" /\ Data("status", To("s_res_line_almost_done"))
     \/ b = "LF" /\ Data("status", To("s_header_field_start"))
     \/ b \notin NewLine /\ Take(P, mark, 1)

StartReq(b) ==
  /\ At("s_start_req", b)
  /\ \/ b \in NewLine /\ Break(P) /\ UNCHANGED due
     \/ /\ b \in {"GET", "CONNECT", "HEAD"} /\ due' = MaxLen
        /\ Notify("message_begin",
                  [NewHeaders(To("s_req_method")) EXCEPT !.method = b])
     \/ /\ b \notin NewLine \union {"GET", "CONNECT", "HEAD"}
        /\ Fail(NewHeaders(P)) /\ due' = MaxLen

\* parse_url_char leads to s, or nowhere.
UrlTo(s, m) == IF s = "s_dead" THEN Fail(P) ELSE Take(To(s), m, 1)

SpacesBeforeUrl(b) ==
  /\ At("s_req_spaces_before_url", b) /\ UNCHANGED due
  /\ IF b = "SP" THEN Break(P)
     ELSE UrlTo(parse_url_char(IF parser.method = "CONNECT"
                               THEN "s_req_server_start" ELSE parser.state, b),
                Marked("url"))

\* Where a URL cannot end yet.
UrlPrefix == {"s_req_schema", "s_req_schema_slash", "s_req_schema_slash_slash",
              "s_req_server_start"}

Url(s, b) ==
  /\ At(s, b) /\ UNCHANGED due
  /\ \/ b \notin NewLine \union {"SP"} /\ UrlTo(parse_url_char(s, b), mark)
     \/ b \in NewLine \union {"SP"} /\ s \in UrlPrefix /\ Fail(P)
     \/ b = "SP" /\ s \notin UrlPrefix /\ Data("url", To("s_req_http_start"))
     \/ /\ b \in NewLine /\ s \notin UrlPrefix
        /\ Data("url", [To(ExpectMoves.s_req_http_end[b]) EXCEPT !.old = TRUE])

-----------------------------------------------------------------------------
(* Headers and trailers *)

FieldState(b) == CASE b = "Content-Length"    -> "h_content_length"
                   [] b = "Transfer-Encoding" -> "h_transfer_encoding"
                   [] b = "Connection"        -> "h_connection"
                   [] b = "Upgrade"           -> "h_upgrade"
                   [] OTHER                   -> "h_general"

\* Mutant: UPDATE_STATE forgotten before REEXECUTE.
FieldStartLoops(b) ==
  /\ At("s_header_field_start", b) /\ UNCHANGED due
  /\ \/ b = "CR" /\ Break(To("s_headers_almost_done"))
     \/ b = "LF" /\ Again(P, b)
     \/ /\ b \in TokenByte
        /\ Take([To("s_header_field") EXCEPT !.hs = FieldState(b)],
                Marked("header_field"), 1)

FieldStart(b) ==
  /\ At("s_header_field_start", b) /\ UNCHANGED due
  /\ \/ b = "CR" /\ Break(To("s_headers_almost_done"))
     \/ b = "LF" /\ Again(To("s_headers_almost_done"), b)
     \/ /\ b \in TokenByte
        /\ Take([To("s_header_field") EXCEPT !.hs = FieldState(b)],
                Marked("header_field"), 1)
     \/ b \notin TokenByte \union NewLine /\ Fail(P)

\* One more byte of an inner loop, which counts them when it ends; when there
\* are too many of them already, how many more does not matter.
InLoop(p, jump) ==
  /\ ~TooLong(P, run)
  /\ parser' = p /\ run' = run + 1 /\ skip' = jump
  /\ cb' = NoCall /\ owed' = owed + 1 /\ UNCHANGED order
  /\ Goes("more", NoByte, Moved(mark, 1))

CountedNot(p) == p    \* Mutant: COUNT_HEADER_SIZE(p - start) left out

Counted(p) == [p EXCEPT !.nread = @ + run]

Field(b) ==
  /\ At("s_header_field", b) /\ UNCHANGED due
  /\ \/ b \in TokenByte /\ InLoop([P EXCEPT !.hs = "h_general"], FALSE)
     \/ /\ b = ":" /\ ~TooLong(P, run)
        /\ Data("header_field", Counted(To("s_header_value_discard_ws")))
     \/ b \notin TokenByte /\ (b = ":" => TooLong(P, run)) /\ Fail(P)

Matched(w) == CASE w = "close"      -> "h_connection_close"
                [] w = "keep-alive" -> "h_connection_keep_alive"
                [] w = "upgrade"    -> "h_connection_upgrade"
                [] w = "co"         -> "h_matching_connection_close"

\* The flag a matched value stands for.
Finished == [h_connection_close          |-> {"CLOSE"},
             h_connection_keep_alive     |-> {"KEEP_ALIVE"},
             h_connection_upgrade        |-> {"CONNECTION_UPGRADE"},
             h_transfer_encoding_chunked |-> {"CHUNKED"}]
Flag(hs) == IF hs \in DOMAIN Finished THEN Finished[hs] ELSE {}

\* The first byte of a value, or of a folded line of it.
FirstOfValue(b) ==
  LET p    == To("s_header_value")
      Go(q) == Take(q, Marked("header_value"), 1)
      hs   == parser.hs IN
  \/ /\ hs = "h_upgrade" /\ UNCHANGED due
     /\ Go([p EXCEPT !.flags = @ \union {"UPGRADE"}, !.hs = "h_general"])
  \/ /\ hs = "h_content_length"
     /\ IF b \in Digits /\ "CONTENTLENGTH" \notin parser.flags
        THEN /\ Go([p EXCEPT !.flags = @ \union {"CONTENTLENGTH"},
                             !.length = DigitValue[b]])
             /\ due' = DigitValue[b]
        ELSE Fail(p) /\ UNCHANGED due
  \/ /\ hs \notin {"h_upgrade", "h_content_length"} /\ UNCHANGED due
     /\ Go([p EXCEPT !.hs =
              CASE hs = "h_transfer_encoding" /\ b = "chunked" ->
                     "h_transfer_encoding_chunked"
                [] hs = "h_connection" ->
                     IF b \in ConnectionWords THEN Matched(b)
                     ELSE "h_matching_connection_token"
                [] hs = "h_matching_connection_token_start" -> hs
                [] OTHER -> "h_general"])

DiscardWs(b) ==
  /\ At("s_header_value_discard_ws", b)
  /\ \/ b \in Blank /\ Break(P) /\ UNCHANGED due
     \/ /\ b = "CR" /\ UNCHANGED due
        /\ Break(To("s_header_value_discard_ws_almost_done"))
     \/ b = "LF" /\ Break(To("s_header_value_discard_lws")) /\ UNCHANGED due
     \/ b \notin Blank \union NewLine /\ FirstOfValue(b)

ValueStart(b) == At("s_header_value_start", b) /\ FirstOfValue(b)

\* How a byte of a value that is no number changes header_state.
NextValueState(hs, b) ==
  CASE hs = "h_matching_connection_token_start" ->
         CASE b \in ConnectionWords -> Matched(b)
           [] b \in TokenByte       -> "h_matching_connection_token"
           [] b \in Blank           -> hs
           [] OTHER                 -> "h_general"
    [] hs = "h_matching_connection_close" -> "h_matching_connection_token"
    [] hs = "h_matching_connection_token" ->
         IF b = "," THEN "h_matching_connection_token_start" ELSE hs
    [] hs = "h_transfer_encoding_chunked" -> IF b = "SP" THEN hs ELSE "h_general"
    [] hs \in DOMAIN Finished \ {"h_transfer_encoding_chunked"} ->
         CASE b = ","  -> "h_matching_connection_token_start"
           [] b = "SP" -> hs
           [] OTHER    -> "h_matching_connection_token"
    [] OTHER -> "h_general"

\* A comma ends a value of Connection.
ListFlag == Flag(parser.hs) \ {"CHUNKED"}

ValueByte(b) ==
  /\ At("s_header_value", b) /\ b \notin NewLine
  /\ parser.hs # "h_content_length" /\ UNCHANGED due
  /\ \/ skip /\ InLoop(P, TRUE)      \* memchr() jumps over it, a control byte too
     \/ ~skip /\ b = "CTL" /\ Fail(P)
     \/ /\ ~skip /\ b # "CTL"
        /\ InLoop([P EXCEPT !.hs = NextValueState(@, b),
                            !.flags = IF b = "," THEN @ \union ListFlag ELSE @],
                  parser.hs = "h_general")

\* Mutant: the test forgets the digit to be added.
TooBigLate(length, base) == MaxLen \div base < length

TooBig(length, base) == (MaxLen - base) \div base < length

LengthByte(b) ==
  /\ At("s_header_value", b) /\ b \notin NewLine
  /\ parser.hs = "h_content_length"
  /\ \/ b = "SP" /\ InLoop(P, FALSE) /\ UNCHANGED due
     \/ /\ b \in Digits /\ ~TooBig(parser.length, 10)
        /\ InLoop([P EXCEPT !.length = Wrap(@ * 10 + DigitValue[b])], FALSE)
        /\ due' = due * 10 + DigitValue[b]
     \/ /\ b # "SP" /\ (b \in Digits => TooBig(parser.length, 10))
        /\ Fail(P) /\ UNCHANGED due

\* The value ends; at CR the callback comes before the count.
ValueEnd(b) ==
  LET p == Counted(To("s_header_almost_done")) IN
  /\ At("s_header_value", b) /\ UNCHANGED due
  /\ \/ b = "CR" /\ ~TooLong(P, run) /\ Data("header_value", p)
     \/ /\ b = "CR" /\ TooLong(P, run)
        /\ Callback("header_value", mark["header_value"], 0,
                    [p EXCEPT !.errno = "error"], Leave(FALSE), FALSE)
     \/ b = "LF" /\ ~TooLong(P, run) /\ DataAgain("header_value", mark, p, b)
     \/ b = "LF" /\ TooLong(P, run) /\ Fail(p)

FinishHeader ==
  [To("s_header_field_start") EXCEPT !.flags = @ \union Flag(parser.hs)]

ValueLws(b) ==
  /\ At("s_header_value_lws", b) /\ UNCHANGED due
  /\ IF b \in Blank THEN Again(To("s_header_value_start"), b)
                     ELSE Again(FinishHeader, b)

\* Mutant: no callback for an empty value.
DiscardLwsSilent(b) ==
  /\ At("s_header_value_discard_lws", b) /\ UNCHANGED due
  /\ IF b \in Blank THEN Break(To("s_header_value_discard_ws"))
                     ELSE Again(FinishHeader, b)

\* The value is empty, unless the line goes on.
DiscardLws(b) ==
  /\ At("s_header_value_discard_lws", b) /\ UNCHANGED due
  /\ IF b \in Blank THEN Break(To("s_header_value_discard_ws"))
     ELSE DataAgain("header_value", Marked("header_value"), FinishHeader, b)

-----------------------------------------------------------------------------
(* The end of the headers and the body *)

SetUpgrade(p) ==
  [p EXCEPT !.upgrade = IF {"UPGRADE", "CONNECTION_UPGRADE"} \subseteq p.flags
                        THEN p.type = "REQUEST" \/ p.status = "101"
                        ELSE p.method = "CONNECT"]

\* What on_headers_complete returns: 2 asks for an upgrade, 1 for no body.
Answered(p, r) ==
  [p EXCEPT !.upgrade = @ \/ r = 2,
            !.flags = IF r = 0 THEN @ ELSE @ \union {"SKIPBODY"}]

HeadersAlmostDone(b) ==
  LET p == SetUpgrade(To("s_headers_done")) IN
  /\ At("s_headers_almost_done", b) /\ UNCHANGED due
  /\ \/ b # "LF" /\ Fail(P)
     \/ /\ b = "LF" /\ "TRAILING" \in P.flags
        /\ NotifyAgain("chunk_complete", To("s_message_done"), b)
     \/ /\ b = "LF" /\ "TRAILING" \notin P.flags
        /\ IF {"CHUNKED", "CONTENTLENGTH"} \subseteq P.flags THEN Fail(P)
           ELSE \E r \in HeadersResults :
                  NotifyAgain("headers_complete", Answered(p, r), b)

\* Mutant: RETURN left out after an upgrade.
CompleteGoesOn(p, stop) ==
  Callback("message_complete", 0, 0, NewMessage(p),
           Goes("more", NoByte, Moved(mark, 1)), Leave(TRUE))

\* CALLBACK_NOTIFY(message_complete); after an upgrade the rest of the call's
\* bytes is left to another protocol.
Complete(p, stop) ==
  Callback("message_complete", 0, 0, NewMessage(p),
           IF stop THEN Leave(TRUE) ELSE Goes("more", NoByte, Moved(mark, 1)),
           Leave(TRUE))

HasBody(p) == "CHUNKED" \in p.flags \/ p.length \notin {0, MaxLen}

HeadersDone(b) ==
  LET p == [P EXCEPT !.nread = 0]
      leave == p.upgrade /\ (\/ p.method = "CONNECT" \/ ~HasBody(p)
                             \/ "SKIPBODY" \in p.flags)
      Body(s) == Break([p EXCEPT !.state = s]) IN
  /\ At("s_headers_done", b) /\ UNCHANGED due
  /\ \/ leave /\ Complete(p, TRUE)
     \/ ~leave /\ "SKIPBODY" \in p.flags /\ Complete(p, FALSE)
     \/ /\ ~leave /\ "SKIPBODY" \notin p.flags
        /\ \/ "CHUNKED" \in p.flags /\ Body("s_chunk_size_start")
           \/ "CHUNKED" \notin p.flags /\ HasBody(p) /\ Body("s_body_identity")
           \/ ~HasBody(p) /\ ~MessageNeedsEof(p) /\ Complete(p, FALSE)
           \/ ~HasBody(p) /\ MessageNeedsEof(p) /\ Body("s_body_identity_eof")

\* The call holds n of the bytes that are left; with all of them the last one
\* is looked at again.
BodyIdentity(b) ==
  /\ At("s_body_identity", b)
  /\ \E n \in 1..parser.length :
       LET p == [P EXCEPT !.length = Wrap(@ - n)]
           m == Moved(Marked("body"), n - 1) IN
       /\ due' = due - n
       /\ IF p.length = 0
          THEN Callback("body", m["body"] + 1, n, [p EXCEPT !.state = "s_message_done"],
                        Goes("more", b, Unmarked("body")), Leave(FALSE))
          ELSE Quiet(p, n) /\ Goes("full", NoByte, Moved(m, 1))

BodyIdentityEof(b) ==
  /\ At("s_body_identity_eof", b) /\ UNCHANGED due
  /\ \E n \in 1..MaxPiece :
       Quiet(P, n) /\ Goes("full", NoByte, Moved(Marked("body"), n))

MessageDone(b) ==
  /\ At("s_message_done", b) /\ UNCHANGED due
  /\ Complete(P, P.upgrade)

ChunkSizeStart(b) ==
  /\ At("s_chunk_size_start", b)
  /\ IF b \in Digits \union {"a"}
     THEN Break([To("s_chunk_size") EXCEPT !.length = Hex(b)]) /\ due' = Hex(b)
     ELSE Fail(P) /\ UNCHANGED due

ChunkSize(b) ==
  /\ At("s_chunk_size", b)
  /\ \/ b = "CR" /\ Break(To("s_chunk_size_almost_done")) /\ UNCHANGED due
     \/ b = "SP" /\ Break(To("s_chunk_parameters")) /\ UNCHANGED due
     \/ /\ b \in Digits \union {"a"} /\ ~TooBig(parser.length, 16)
        /\ Break([P EXCEPT !.length = Wrap(@ * 16 + Hex(b))])
        /\ due' = due * 16 + Hex(b)
     \/ /\ b \notin {"CR", "SP"} /\ UNCHANGED due /\ Fail(P)
        /\ b \in Digits \union {"a"} => TooBig(parser.length, 16)

ChunkParameters(b) ==
  /\ At("s_chunk_parameters", b) /\ UNCHANGED due
  /\ Break(IF b = "CR" THEN To("s_chunk_size_almost_done") ELSE P)

\* Mutant: a chunk without bytes is not the last one.
ChunkSizeAlmostDoneGoesOn(b) ==
  /\ At("s_chunk_size_almost_done", b) /\ UNCHANGED due
  /\ IF b # "LF" THEN Fail(P)
     ELSE Notify("chunk_header", [To("s_chunk_data") EXCEPT !.nread = 0])

ChunkSizeAlmostDone(b) ==
  LET p == [P EXCEPT !.nread = 0] IN
  /\ At("s_chunk_size_almost_done", b) /\ UNCHANGED due
  /\ \/ b # "LF" /\ Fail(P)
     \/ /\ b = "LF" /\ p.length = 0
        /\ Notify("chunk_header", [p EXCEPT !.state = "s_header_field_start",
                                            !.flags = @ \union {"TRAILING"}])
     \/ /\ b = "LF" /\ p.length # 0
        /\ Notify("chunk_header", [p EXCEPT !.state = "s_chunk_data"])

ChunkData(b) ==
  /\ At("s_chunk_data", b)
  /\ \E n \in 1..parser.length :
       LET p == [P EXCEPT !.length = Wrap(@ - n)]
           m == Moved(Marked("body"), n) IN
       /\ due' = due - n
       /\ IF p.length = 0
          THEN Quiet([p EXCEPT !.state = "s_chunk_data_almost_done"], n)
               /\ Goes("more", NoByte, m)
          ELSE Quiet(p, n) /\ Goes("full", NoByte, m)

ChunkDataAlmostDone(b) ==
  /\ At("s_chunk_data_almost_done", b) /\ UNCHANGED due
  /\ IF b = "CR" THEN Data("body", To("s_chunk_data_done")) ELSE Fail(P)

ChunkDataDone(b) ==
  /\ At("s_chunk_data_done", b) /\ UNCHANGED due
  /\ IF b = "LF" THEN Notify("chunk_complete",
                             [To("s_chunk_size_start") EXCEPT !.nread = 0])
     ELSE Fail(P)

-----------------------------------------------------------------------------
\* One turn of the loop of http_parser_execute, and its end.
FirstLine(b) ==
  \/ StartReqOrRes(b) \/ StartRes(b) \/ StartReq(b)
  \/ ResOrReqH(b) \/ ResVersion(b) \/ ReqVersion(b)
  \/ FirstStatusCode(b) \/ StatusCode(b) \/ StatusStart(b) \/ Status(b)
  \/ SpacesBeforeUrl(b) \/ \E s \in UrlStates : Url(s, b)
  \/ \E s \in DOMAIN ExpectMoves : Expect(s, b)

Headers(b) ==
  \/ FieldStart(b) \/ Field(b) \/ DiscardWs(b) \/ ValueStart(b)
  \/ ValueByte(b) \/ LengthByte(b) \/ ValueEnd(b) \/ ValueLws(b)
  \/ DiscardLws(b) \/ HeadersAlmostDone(b) \/ HeadersDone(b)

BodyPart(b) ==
  \/ BodyIdentity(b) \/ BodyIdentityEof(b) \/ MessageDone(b)
  \/ ChunkSizeStart(b) \/ ChunkSize(b) \/ ChunkParameters(b)
  \/ ChunkSizeAlmostDone(b) \/ ChunkData(b)
  \/ ChunkDataAlmostDone(b) \/ ChunkDataDone(b)

Step == \/ \E b \in IF ch = NoByte THEN Offered ELSE {ch} :
             FirstLine(b) \/ Headers(b) \/ BodyPart(b)
        \/ HeaderOverflow \/ EndOfData

Next == Execute \/ ExecuteLatched \/ ExecuteEof \/ Step

Spec == Init /\ [][Next]_vars

\* A call that was made runs; nobody has to make one.
FairSpec == Spec /\ WF_vars(Step)

-----------------------------------------------------------------------------
(* What the parser promises *)

\* The parser's fields and the call have their types.
TypeOK ==
  /\ parser.type \in {"REQUEST", "RESPONSE", "BOTH"}
  /\ parser.nread \in Nat /\ parser.length \in 0..MaxLen
  /\ parser.upgrade \in BOOLEAN /\ parser.errno \in {"OK", "error"}
  /\ call \in {"out", "first", "more", "full", "ended"} /\ whole \in BOOLEAN
  /\ DOMAIN mark \subseteq Pieces /\ run \in Nat
  /\ skip \in BOOLEAN
  /\ cb.on \in Notifications \union Pieces \union {"none"} /\ cb.len \in Nat
  /\ owed \in Nat /\ due \in Nat

\* The assertions of the code hold whatever comes and wherever it is cut: one
\* mark at most, the count at a chunk, the flags and lengths of body states,
\* the header states their loops know.
Asserts ==
  LET s == parser.state IN
  /\ Cardinality(DOMAIN mark) <= 1
  /\ Ok /\ s = "s_chunk_size_start" => parser.nread = 0
  /\ s \in {"s_chunk_size_start", "s_chunk_size", "s_chunk_parameters",
            "s_chunk_size_almost_done", "s_chunk_data",
            "s_chunk_data_almost_done", "s_chunk_data_done"} =>
       "CHUNKED" \in parser.flags
  /\ s \in {"s_body_identity", "s_chunk_data"} =>
       parser.length \notin {0, MaxLen}
  /\ s = "s_chunk_data_almost_done" => parser.length = 0
  /\ s = "s_header_value" =>
       parser.hs \notin {"h_connection", "h_transfer_encoding"}

\* No byte of a URL, a status, a header or a body is lost or told twice, and no
\* other byte is told: a callback gets all there is so far, and nothing is left
\* when a call returns in the middle (the marks of http_parser_execute).
PiecesWhole ==
  Ok /\ (call = "out" \/ cb.on \in Pieces) => owed = 0

\* The bytes still to come of a body or chunk are as many as the number in its
\* header says, read so far without overflow (content_length).
LengthExact ==
  Ok /\ \/ parser.state \in {"s_body_identity", "s_chunk_data", "s_chunk_size"}
        \/ parser.state = "s_header_value" /\ parser.hs = "h_content_length"
  => parser.length = due

\* The bytes counted: the first of an inner loop is in nread and in run.
HeaderCount == parser.nread + IF run > 0 THEN run - 1 ELSE 0

\* Every byte of a line or header counts against HTTP_MAX_HEADER_SIZE, at once
\* or at the end of an inner loop, until the headers or a chunk line are whole;
\* no call returns with a count above it (COUNT_HEADER_SIZE).
HeaderCounted ==
  [][/\ Ok' => parser'.nread <= MaxHeader
     /\ ch = NoByte /\ parser.state \notin BodyPhase /\ call' = "more" =>
          \/ call = "out"
          \/ HeaderCount' > HeaderCount
          \/ parser.state \in {"s_headers_done", "s_chunk_size_almost_done"}]_vars

\* After a request to switch protocols the call ends with the message: what
\* follows in the same bytes is left to the new protocol.
UpgradeStops ==
  cb.on = "message_complete" /\ parser.upgrade => call \in {"out", "ended"}

\* A byte that is looked at again is used up in the end: the REEXECUTEs make no
\* loop.
ByteUsed == (ch # NoByte) ~> (ch = NoByte)

\* The calls a user gets are those of messages with their parts in order.
Messages == INSTANCE HttpMessages
              WITH now     <- cb.on,
                   last    <- order.last,
                   trailer <- order.chunk,
                   over    <- order.final \/ ~Ok \/ call = "ended"
ImplementsMessages == Messages!Spec

=============================================================================
