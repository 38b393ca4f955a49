-------------------------- MODULE HttpParserProofs ---------------------------
(***************************************************************************)
(* Theorems about http_parser_execute as HttpParser has it: for any bytes  *)
(* and words, any limit of the header size and of lengths, callbacks that  *)
(* may fail, and calls that end at any byte.  Then about HttpConn, the http*)
(* object of a connection that drives it: what mcr_http_parse returns and  *)
(* which URL is routed.                                                    *)
(***************************************************************************)
EXTENDS HttpConn, FiniteSetTheorems, TLAPS

-----------------------------------------------------------------------------
(* The states, by the part of a message they are in and by what was told last *)

BegunStates == {"s_res_or_resp_H", "s_res_H", "s_res_http_end",
                "s_res_first_status_code", "s_res_status_code",
                "s_res_status_start", "s_req_method", "s_req_spaces_before_url"}
UrlToldStates == {"s_req_http_start", "s_req_http_H", "s_req_http_end",
                  "s_req_line_almost_done"}
LineStates == BegunStates \union UrlStates \union UrlToldStates
              \union {"s_res_status", "s_res_line_almost_done"}
FieldToldStates == {"s_header_value_discard_ws", "s_header_value_discard_lws",
                    "s_header_value_discard_ws_almost_done"}
ValueToldStates == {"s_header_almost_done", "s_header_value_lws",
                    "s_header_value_start"}
HeaderStates == FieldToldStates \union ValueToldStates
                \union {"s_header_field_start", "s_header_field",
                        "s_header_value", "s_headers_almost_done"}
SizeStates == {"s_chunk_size", "s_chunk_parameters", "s_chunk_size_almost_done"}
InChunkStates == {"s_chunk_data", "s_chunk_data_almost_done", "s_chunk_data_done"}
ChunkStates == SizeStates \union InChunkStates \union {"s_chunk_size_start"}
OutOfChunkStates == SizeStates \union
                    {"s_headers_done", "s_chunk_size_start", "s_body_identity",
                     "s_body_identity_eof", "s_message_done"}

States == LineStates \union HeaderStates \union OutOfChunkStates \union InChunkStates
          \union {"s_dead", "s_start_req", "s_start_res", "s_start_req_or_res"}

ValueStates == {"h_general", "h_content_length", "h_transfer_encoding", "h_connection",
                "h_upgrade", "h_matching_connection_token_start",
                "h_matching_connection_token", "h_matching_connection_close"}
               \union DOMAIN Finished

FlagNames == {"KEEP_ALIVE", "CLOSE", "CONNECTION_UPGRADE", "UPGRADE", "CHUNKED",
              "CONTENTLENGTH", "TRAILING", "SKIPBODY"}

-----------------------------------------------------------------------------
(* The inductive invariant *)

ParserRecords ==
  [type : {"REQUEST", "RESPONSE", "BOTH"}, method : {"DELETE", "GET", "CONNECT", "HEAD"},
   old : BOOLEAN, status : StatusWords \union {"0"}, state : States,
   flags : SUBSET FlagNames, hs : ValueStates, nread : Nat, length : 0..MaxLen,
   upgrade : BOOLEAN, errno : {"OK", "error"}]

Calls == Notifications \union Pieces \union {"none"}
Orders == [last : Calls, chunk : BOOLEAN, final : BOOLEAN]

VarTypes ==
  /\ parser \in ParserRecords
  /\ call \in {"out", "first", "more", "full", "ended"} /\ whole \in BOOLEAN
  /\ mark \in [DOMAIN mark -> Nat] /\ DOMAIN mark \subseteq Pieces
  /\ run \in Nat /\ skip \in BOOLEAN
  /\ cb \in [on : Calls, len : Nat]
  /\ owed \in Nat /\ due \in Nat
  /\ order \in Orders

\* A call runs only without an error; it comes back with less than its length
\* only after one, or when the connection is upgraded.
Running ==
  /\ call \in {"first", "more", "full"} => Ok
  /\ call = "full" => parser.state \in BodyStates /\ ch = NoByte
  /\ Ok /\ ~whole => parser.upgrade /\ call = "out"
  /\ run > 0 => /\ call = "more" /\ ch = NoByte
                /\ parser.state \in {"s_header_field", "s_header_value"}

\* The mark that is set while a call is in state s.
MarkSet(s) == {k \in Pieces : \/ k = "header_field" /\ s = "s_header_field"
                              \/ k = "header_value" /\ s = "s_header_value"
                              \/ k = "url" /\ s \in UrlStates
                              \/ k = "status" /\ s = "s_res_status"}

\* The same for a call c: at the end of a body's bytes there is one, and behind
\* a chunk there may be.
MarksFit(c, s, m) ==
  /\ m \in [DOMAIN m -> Nat]
  /\ c \in {"out", "ended"} => DOMAIN m = {}
  /\ c \in {"first", "more"} =>
       \/ DOMAIN m = MarkSet(s)
       \/ s = "s_chunk_data_almost_done" /\ DOMAIN m = {"body"}
  /\ c = "full" => DOMAIN m = {"body"}

\* A mark is as far behind as there are bytes owed; without one there are none.
Owes(m, n) == /\ \A k \in DOMAIN m : m[k] = n
              /\ DOMAIN m = {} => n = 0

Marks == /\ MarksFit(call, parser.state, mark)
         /\ Ok => Owes(mark, owed)
         /\ Ok /\ cb.on \in Pieces => owed = 0

\* What the fields of the parser tell of each other.
Fields(p) ==
  /\ p.errno = "OK" /\ p.state = "s_chunk_size_start" => p.nread = 0
  /\ p.state \in ChunkStates => "CHUNKED" \in p.flags
  /\ p.state \in SizeStates => p.length < MaxLen
  /\ p.state \in {"s_body_identity", "s_chunk_data"} => p.length \notin {0, MaxLen}
  /\ p.state = "s_chunk_data_almost_done" => p.length = 0
  /\ p.state = "s_header_value" => p.hs \notin {"h_connection", "h_transfer_encoding"}

\* Without an error the count is within its limit and the length is exact.
Measures(p, d) == p.nread <= MaxHeader /\ p.length = d

\* What was told when the parser comes to the headers or to trailers.
BeforeHeaders(chunk) == IF chunk THEN {"chunk_header", "header_value"}
                                 ELSE {"url", "status", "header_value"}

\* The last callback fits the state s, and whether it was in the chunked part.
InOrder(p, o) ==
  LET s == p.state IN
  /\ o.final => s = "s_dead"
  /\ s \in {"s_start_req", "s_start_req_or_res"} => o.last \in {"none", "message_complete"}
  /\ s = "s_start_res" => o.last \in {"none", "message_begin", "message_complete"}
  /\ s \in BegunStates => o.last = "message_begin"
  /\ s = "s_res_status" => o.last \in {"message_begin", "status"}
  /\ s \in UrlStates => o.last \in {"message_begin", "url"}
  /\ s \in UrlToldStates => o.last = "url"
  /\ s = "s_res_line_almost_done" => o.last = "status"
  /\ s \in {"s_header_field_start", "s_headers_almost_done"} =>
       o.last \in BeforeHeaders(o.chunk)
  /\ s = "s_header_field" => o.last \in BeforeHeaders(o.chunk) \union {"header_field"}
  /\ s \in FieldToldStates => o.last = "header_field"
  /\ s = "s_header_value" => o.last \in {"header_field", "header_value"}
  /\ s \in ValueToldStates => o.last = "header_value"
  /\ s = "s_headers_done" => o.last = "headers_complete"
  /\ s \in {"s_body_identity", "s_body_identity_eof"} => o.last \in {"headers_complete", "body"}
  /\ s \in SizeStates \union {"s_chunk_size_start"} =>
       o.last \in {"headers_complete", "chunk_complete"}
  /\ s \in InChunkStates => o.last \in {"chunk_header", "body"} /\ o.chunk
  /\ s = "s_message_done" => o.last \in {"body", "chunk_complete"}
  /\ s \in OutOfChunkStates => ~o.chunk
  /\ s \in LineStates => ~o.chunk /\ "TRAILING" \notin p.flags
  /\ s \in HeaderStates => (o.chunk <=> "TRAILING" \in p.flags)

ParserInv ==
  /\ VarTypes /\ Running /\ Marks /\ Fields(parser)
  /\ Ok => Measures(parser, due)
  /\ Ok /\ call # "ended" => InOrder(parser, order)
  /\ UpgradeStops

\* What HeaderCounted says of a step.
CountedStep ==
  /\ Ok' => parser'.nread <= MaxHeader
  /\ ch = NoByte /\ parser.state \notin BodyPhase /\ call' = "more" =>
       \/ call = "out"
       \/ HeaderCount' > HeaderCount
       \/ parser.state \in {"s_headers_done", "s_chunk_size_almost_done"}

\* A step of the parser is one of the abstract specification, or none.
MessageStep == [Messages!Next]_<<cb.on, order.last, order.chunk,
                                  order.final \/ ~Ok \/ call = "ended">>

StepOK == ParserInv' /\ CountedStep /\ MessageStep

-----------------------------------------------------------------------------
(* Marks, records and the order of callbacks *)

LEMMA MovedIs ==
  ASSUME NEW m, m \in [DOMAIN m -> Nat], NEW n \in Nat
  PROVE  /\ Moved(m, n) \in [DOMAIN Moved(m, n) -> Nat]
         /\ DOMAIN Moved(m, n) = DOMAIN m
         /\ \A k \in DOMAIN m : Moved(m, n)[k] = m[k] + n
BY DEF Moved

LEMMA MarkedIs ==
  ASSUME VarTypes, NEW k \in Pieces
  PROVE  /\ Marked(k) \in [DOMAIN Marked(k) -> Nat]
         /\ DOMAIN Marked(k) = DOMAIN mark \union {k}
         /\ \A j \in DOMAIN mark : Marked(k)[j] = mark[j]
         /\ k \notin DOMAIN mark => Marked(k)[k] = 0
BY DEF Marked, VarTypes

LEMMA UnmarkedIs ==
  ASSUME VarTypes, NEW k
  PROVE  /\ Unmarked(k) \in [DOMAIN Unmarked(k) -> Nat]
         /\ DOMAIN Unmarked(k) = DOMAIN mark \ {k}
BY DEF Unmarked, VarTypes

LEMMA NoMarksIs == NoMarks \in [DOMAIN NoMarks -> Nat] /\ DOMAIN NoMarks = {}
BY DEF NoMarks

LEMMA NoCallIs ==
  NoCall \in [on : Calls, len : Nat] /\ NoCall.on = "none"
BY DEF NoCall, Calls

\* What a record of the parser is with one field changed.
LEMMA WithState ==
  ASSUME NEW p \in ParserRecords, NEW s \in States
  PROVE  LET q == [p EXCEPT !.state = s] IN
         /\ q \in ParserRecords /\ q.state = s /\ q.type = p.type /\ q.method = p.method
         /\ q.old = p.old /\ q.status = p.status /\ q.flags = p.flags /\ q.hs = p.hs
         /\ q.nread = p.nread /\ q.length = p.length /\ q.upgrade = p.upgrade
         /\ q.errno = p.errno
BY DEF ParserRecords

LEMMA WithError ==
  ASSUME NEW p \in ParserRecords
  PROVE  LET q == [p EXCEPT !.errno = "error"] IN
         /\ q \in ParserRecords /\ q.state = p.state /\ q.flags = p.flags /\ q.hs = p.hs
         /\ q.nread = p.nread /\ q.length = p.length /\ q.upgrade = p.upgrade
         /\ q.errno = "error"
BY DEF ParserRecords

\* An error changes nothing that Fields tells of, but for the count at a chunk.
LEMMA FieldsWithError ==
  ASSUME NEW p \in ParserRecords, Fields(p)
  PROVE  Fields([p EXCEPT !.errno = "error"])
BY WithError DEF Fields

-----------------------------------------------------------------------------
(* The ways a case ends *)

\* The byte counts, unless the count starts again.
CountsUp(p) == ch = NoByte /\ parser.state \notin BodyPhase =>
                 \/ p.nread > HeaderCount
                 \/ parser.state \in {"s_headers_done", "s_chunk_size_almost_done"}

\* A record the parser may go on with.
Fits(p, o, d) == /\ p \in ParserRecords /\ p.errno = "OK" /\ Fields(p)
                 /\ Measures(p, d) /\ InOrder(p, o)

InCall == call \in {"first", "more"}

\* Nothing is called, nothing changes but the parser: a return to the abstract
\* specification, which may be its last.
LEMMA NoCallStep ==
  ASSUME VarTypes, cb' = NoCall, order' = order,
         Ok' => Ok, call = "ended" => call' = "ended"
  PROVE  MessageStep
BY DEF VarTypes, NoCall, MessageStep, Messages!Next, Messages!Return

LEMMA FailStep ==
  ASSUME ParserInv, InCall, due' \in Nat, NEW p \in ParserRecords,
         Fields([p EXCEPT !.errno = "error"]), Fail(p)
  PROVE  StepOK
<1> DEFINE q == [p EXCEPT !.errno = "error"]
<1>1. q \in ParserRecords /\ q.errno = "error" /\ q.state = p.state
  BY WithError
<1>2. /\ parser' = q /\ cb' = NoCall /\ owed' = owed + 0 /\ run' = 0 /\ skip' = FALSE
      /\ order' = order /\ call' = "out" /\ ch' = NoByte /\ mark' = NoMarks /\ whole' = FALSE
  BY DEF Fail, Quiet, Leave
<1> HIDE DEF q
<1>3. VarTypes'
  <2>1. mark' \in [DOMAIN mark' -> Nat] /\ DOMAIN mark' \subseteq Pieces
    BY <1>2, NoMarksIs
  <2>2. /\ cb' \in [on : Calls, len : Nat]
        /\ order' \in Orders
    BY <1>2, NoCallIs DEF ParserInv, VarTypes
  <2>3. call' \in {"out", "first", "more", "full", "ended"} /\ run' \in Nat /\ skip' \in BOOLEAN
    BY <1>2
  <2>4. whole' \in BOOLEAN
    BY <1>2
  <2>5. owed' \in Nat
    BY <1>2 DEF ParserInv, VarTypes
  <2> QED
    BY <1>1, <1>2, <2>1, <2>2, <2>3, <2>4, <2>5 DEF VarTypes
<1>4. ~Ok'
  BY <1>1, <1>2 DEF Ok
<1>5. Running' /\ Marks' /\ UpgradeStops'
  BY <1>2, <1>4, NoMarksIs DEF Running, Marks, MarksFit, UpgradeStops, NoCall
<1>6. Fields(parser)'
  BY <1>2 DEF q
<1>7. MessageStep
  BY <1>2, <1>4, NoCallStep DEF ParserInv, InCall
<1> QED
  BY <1>2, <1>3, <1>4, <1>5, <1>6, <1>7 DEF ParserInv, StepOK, CountedStep

LEMMA QuietStep ==
  ASSUME ParserInv, InCall, due' \in Nat, NEW p, Fits(p, order, due'), CountsUp(p),
         NEW seen \in Nat, Quiet(p, seen),
         NEW c \in {"more", "full"}, c = "full" => p.state \in BodyStates,
         NEW x, c = "full" => x = NoByte,
         NEW m, MarksFit(c, p.state, m), DOMAIN m \subseteq Pieces, Owes(m, owed + seen),
         Goes(c, x, m)
  PROVE  StepOK
<1>1. /\ parser' = p /\ cb' = NoCall /\ owed' = owed + seen /\ run' = 0 /\ skip' = FALSE
      /\ order' = order /\ call' = c /\ ch' = x /\ mark' = m /\ whole' = whole
  BY DEF Quiet, Goes
<1>2. Ok' /\ Ok /\ whole
  BY <1>1 DEF Ok, Fits, ParserInv, Running, InCall, VarTypes
<1>3. VarTypes'
  <2>1. mark' \in [DOMAIN mark' -> Nat] /\ DOMAIN mark' \subseteq Pieces
    BY <1>1 DEF MarksFit
  <2>2. /\ cb' \in [on : Calls, len : Nat]
        /\ order' \in Orders
    BY <1>1, NoCallIs DEF ParserInv, VarTypes
  <2>3. parser' \in ParserRecords
    BY <1>1 DEF Fits
  <2>4. call' \in {"out", "first", "more", "full", "ended"} /\ run' \in Nat /\ skip' \in BOOLEAN
    BY <1>1
  <2>5. whole' \in BOOLEAN
    BY <1>1 DEF ParserInv, VarTypes
  <2>6. owed' \in Nat
    BY <1>1 DEF ParserInv, VarTypes
  <2> QED
    BY <2>1, <2>2, <2>3, <2>4, <2>5, <2>6 DEF VarTypes
<1>4. Running' /\ Marks' /\ UpgradeStops'
  BY <1>1, <1>2 DEF Running, Marks, UpgradeStops, NoCall, Pieces
<1>5. Fields(parser)' /\ Measures(parser, due)' /\ InOrder(parser, order)'
  BY <1>1 DEF Fits
<1>6. MessageStep
  BY <1>1, <1>2, NoCallStep DEF ParserInv, InCall
<1>7. CountedStep
  <2>1. HeaderCount' = p.nread
    BY <1>1 DEF HeaderCount, Fits, ParserRecords
  <2> QED
    BY <1>1, <2>1 DEF CountedStep, Fits, Measures, CountsUp
<1> QED
  BY <1>3, <1>4, <1>5, <1>6, <1>7 DEF ParserInv, StepOK

-----------------------------------------------------------------------------
(* Callbacks *)

NewOrder(on, p) ==
  [last  |-> on,
   chunk |-> CASE on = "chunk_header" -> TRUE
               [] on \in {"chunk_complete", "message_begin"} -> FALSE
               [] OTHER -> order.chunk,
   final |-> \/ order.final
             \/ on = "message_complete" /\ ~ShouldKeepAlive(p)]

\* What every callback does, whatever it returns.
Called(on, len, seen, p) ==
  /\ cb' = [on |-> on, len |-> len] /\ owed' = owed + seen - len
  /\ order' = NewOrder(on, p) /\ run' = 0 /\ skip' = FALSE

\* A callback that may be made now.
MayCall(on) == /\ on \in Notifications \union Pieces
               /\ ~order.final /\ on \in Messages!Follows(order.last, order.chunk)

LEMMA NewOrderIs ==
  ASSUME VarTypes, NEW on \in Notifications \union Pieces, NEW p
  PROVE  LET o == NewOrder(on, p) IN
         /\ o \in Orders
         /\ o.last = on
         /\ o.chunk = IF on = "chunk_header" THEN TRUE
                      ELSE IF on \in {"chunk_complete", "message_begin"} THEN FALSE
                      ELSE order.chunk
         /\ o.final = (order.final \/ (on = "message_complete" /\ ~ShouldKeepAlive(p)))
<1>1. on \in Calls
  BY DEF Calls
<1>2. order.chunk \in BOOLEAN /\ order.final \in BOOLEAN
  BY DEF VarTypes, Orders
<1>3. CASE on = "chunk_header"
  BY <1>1, <1>2, <1>3 DEF NewOrder, Orders
<1>4. CASE on \in {"chunk_complete", "message_begin"}
  BY <1>1, <1>2, <1>4 DEF NewOrder, Orders
<1>5. CASE on \notin {"chunk_header", "chunk_complete", "message_begin"}
  BY <1>1, <1>2, <1>5 DEF NewOrder, Orders
<1> QED
  BY <1>3, <1>4, <1>5

\* The callbacks that are not about a message or a chunk as a whole.
LEMMA OtherOrder ==
  ASSUME VarTypes, NEW on \in Notifications \union Pieces, NEW p,
         on \notin {"chunk_header", "chunk_complete", "message_begin", "message_complete"}
  PROVE  LET o == NewOrder(on, p) IN
         o.last = on /\ o.chunk = order.chunk /\ o.final = order.final
<1>1. order.chunk \in BOOLEAN /\ order.final \in BOOLEAN
  BY DEF VarTypes, Orders
<1> QED
  BY <1>1 DEF NewOrder

LEMMA CalledTypes ==
  ASSUME ParserInv, NEW on \in Notifications \union Pieces, NEW p, NEW len \in Nat,
         NEW seen \in Nat, owed + seen - len \in Nat, Called(on, len, seen, p)
  PROVE  /\ cb' \in [on : Calls, len : Nat]
         /\ cb'.on = on /\ owed' \in Nat /\ run' \in Nat /\ skip' \in BOOLEAN
         /\ order' \in Orders
<1>1. order' \in Orders
  BY NewOrderIs DEF Called, ParserInv
<1>2. cb' \in [on : Calls, len : Nat] /\ cb'.on = on
  BY DEF Called, Calls
<1>3. owed' \in Nat /\ run' \in Nat /\ skip' \in BOOLEAN
  BY DEF Called
<1> QED
  BY <1>1, <1>2, <1>3

\* A callback that may be made is a call of the abstract specification.
LEMMA CalledMessage ==
  ASSUME ParserInv, Ok, call # "ended", NEW on, MayCall(on), NEW p, NEW len \in Nat,
         NEW seen \in Nat, Called(on, len, seen, p)
  PROVE  MessageStep
<1>1. cb'.on = on
  BY DEF Called
<1>2. order'.last = on
  BY DEF Called, NewOrder
<1>3. order'.chunk = CASE on = "chunk_header" -> TRUE
                       [] on \in {"chunk_complete", "message_begin"} -> FALSE
                       [] OTHER -> order.chunk
  BY DEF Called, NewOrder
<1>4. (order.final \/ ~Ok \/ call = "ended")' \in BOOLEAN
  OBVIOUS
<1>5. ~(order.final \/ ~Ok \/ call = "ended")
  BY DEF MayCall
<1>6. Messages!Call(on)
  BY <1>1, <1>2, <1>3, <1>4, <1>5, Zenon DEF Messages!Call, MayCall
<1> QED
  BY <1>6, Zenon
     DEF MessageStep, Messages!Next, MayCall, Notifications, Pieces, Messages!Notifications,
         Messages!Pieces

LEMMA CallbackGoes ==
  ASSUME ParserInv, InCall, due' \in Nat, NEW on, MayCall(on), NEW p,
         Fits(p, NewOrder(on, p), due'), CountsUp(p), on = "message_complete" => ~p.upgrade,
         NEW len \in Nat, NEW seen \in Nat, Called(on, len, seen, p), parser' = p,
         NEW x, NEW m, MarksFit("more", p.state, m), DOMAIN m \subseteq Pieces,
         owed + seen - len \in Nat, Owes(m, owed + seen - len),
         on \in Pieces => owed + seen - len = 0, Goes("more", x, m)
  PROVE  StepOK
<1>1. on \in Notifications \union Pieces
  BY DEF MayCall
<1>2. call' = "more" /\ ch' = x /\ mark' = m /\ whole' = whole
  BY DEF Goes
<1>3. Ok' /\ Ok /\ whole
  BY DEF Ok, Fits, ParserInv, Running, InCall, VarTypes
<1>4. /\ cb' \in [on : Calls, len : Nat]
      /\ cb'.on = on /\ owed' \in Nat /\ run' \in Nat /\ skip' \in BOOLEAN
      /\ order' \in Orders
  BY <1>1, CalledTypes
<1>5. order' = NewOrder(on, p) /\ owed' = owed + seen - len /\ run' = 0
  BY DEF Called
<1>6. VarTypes'
  <2>1. mark' \in [DOMAIN mark' -> Nat] /\ DOMAIN mark' \subseteq Pieces
    BY <1>2 DEF MarksFit
  <2>2. parser' \in ParserRecords
    BY DEF Fits
  <2>3. call' \in {"out", "first", "more", "full", "ended"}
    BY <1>2
  <2>4. whole' \in BOOLEAN
    BY <1>2 DEF ParserInv, VarTypes
  <2> QED
    BY <1>4, <2>1, <2>2, <2>3, <2>4 DEF VarTypes
<1>7. Running' /\ Marks'
  BY <1>2, <1>3, <1>4, <1>5 DEF Running, Marks
<1>8. UpgradeStops'
  BY <1>4 DEF UpgradeStops
<1>9. Fields(parser)' /\ Measures(parser, due)' /\ InOrder(parser, order)'
  BY <1>5 DEF Fits
<1>10. MessageStep
  BY <1>3, CalledMessage DEF InCall
<1>11. CountedStep
  <2>1. HeaderCount' = p.nread
    BY <1>5 DEF HeaderCount, Fits, ParserRecords
  <2> QED
    BY <2>1 DEF CountedStep, Fits, Measures, CountsUp
<1> QED
  BY <1>6, <1>7, <1>8, <1>9, <1>10, <1>11 DEF ParserInv, StepOK

\* The call ends after a callback, at its last byte or, with an upgrade, before.
LEMMA CallbackReturns ==
  ASSUME ParserInv, call \in {"first", "more", "full"}, due' \in Nat, NEW on, MayCall(on),
         NEW p, Fits(p, NewOrder(on, p), due'), NEW len \in Nat, NEW seen \in Nat,
         owed + seen - len = 0, Called(on, len, seen, p), parser' = p,
         call' = "out", mark' = NoMarks, ch' = NoByte, whole' \in BOOLEAN, whole' \/ p.upgrade
  PROVE  StepOK
<1>1. on \in Notifications \union Pieces
  BY DEF MayCall
<1>2. Ok' /\ Ok
  BY DEF Ok, Fits, ParserInv, Running
<1>3. /\ cb' \in [on : Calls, len : Nat]
      /\ cb'.on = on /\ owed' \in Nat /\ run' \in Nat /\ skip' \in BOOLEAN
      /\ order' \in Orders
  BY <1>1, CalledTypes
<1>4. order' = NewOrder(on, p) /\ owed' = 0 /\ run' = 0
  BY DEF Called
<1>5. VarTypes'
  <2>1. mark' \in [DOMAIN mark' -> Nat] /\ DOMAIN mark' \subseteq Pieces
    BY NoMarksIs
  <2>2. parser' \in ParserRecords
    BY DEF Fits
  <2> QED
    BY <1>3, <2>1, <2>2 DEF VarTypes
<1>6. Running' /\ Marks' /\ UpgradeStops'
  BY <1>4, NoMarksIs DEF Running, Marks, MarksFit, Owes, UpgradeStops
<1>7. Fields(parser)' /\ Measures(parser, due)' /\ InOrder(parser, order)'
  BY <1>4 DEF Fits
<1>8. MessageStep
  BY <1>2, CalledMessage
<1>9. CountedStep
  BY DEF CountedStep, Fits, Measures
<1> QED
  BY <1>5, <1>6, <1>7, <1>8, <1>9 DEF ParserInv, StepOK

\* The callback asks to stop: an error, and the call is over.
LEMMA CallbackFails ==
  ASSUME ParserInv, call \in {"first", "more", "full"}, due' \in Nat, NEW on, MayCall(on),
         NEW p, NEW q \in ParserRecords, Fields(q), q.errno = "error", NEW len \in Nat,
         NEW seen \in Nat, owed + seen - len \in Nat, Called(on, len, seen, p), parser' = q,
         call' = "out", ch' = NoByte, mark' = NoMarks, whole' \in BOOLEAN
  PROVE  StepOK
<1>1. on \in Notifications \union Pieces
  BY DEF MayCall
<1>2. Ok /\ ~Ok' /\ parser' \in ParserRecords
  BY DEF Ok, ParserInv, Running
<1>3. call' = "out" /\ ch' = NoByte /\ mark' = NoMarks /\ whole' \in BOOLEAN
  OBVIOUS
<1>4. /\ cb' \in [on : Calls, len : Nat]
      /\ cb'.on = on /\ owed' \in Nat /\ run' \in Nat /\ skip' \in BOOLEAN
      /\ order' \in Orders
  BY <1>1, CalledTypes
<1>5. VarTypes'
  <2>1. mark' \in [DOMAIN mark' -> Nat] /\ DOMAIN mark' \subseteq Pieces
    BY <1>3, NoMarksIs
  <2> QED
    BY <1>2, <1>3, <1>4, <2>1 DEF VarTypes
<1>6. Running' /\ Marks' /\ UpgradeStops'
  <2>1. run' = 0
    BY DEF Called
  <2> QED
    BY <1>2, <1>3, <2>1, NoMarksIs DEF Running, Marks, MarksFit, UpgradeStops
<1>7. Fields(parser)'
  OBVIOUS
<1>8. MessageStep
  BY <1>2, CalledMessage
<1> QED
  BY <1>2, <1>3, <1>5, <1>6, <1>7, <1>8 DEF ParserInv, StepOK, CountedStep

-----------------------------------------------------------------------------
(* What a state asks of the parser's fields and of the callbacks so far *)

PlainStates == LineStates \union (HeaderStates \ {"s_header_value"}) \union
               {"s_dead", "s_start_req", "s_start_res", "s_start_req_or_res",
                "s_headers_done", "s_body_identity_eof", "s_message_done"}

LEMMA PlainFields ==
  ASSUME NEW p, p.state \in PlainStates
  PROVE  Fields(p)
BY DEF PlainStates, Fields, LineStates, BegunStates, UrlStates, UrlToldStates, HeaderStates,
       FieldToldStates, ValueToldStates, ChunkStates, SizeStates, InChunkStates

InLine(p, o) == ~o.final /\ ~o.chunk /\ "TRAILING" \notin p.flags
InHeader(p, o) == ~o.final /\ (o.chunk <=> "TRAILING" \in p.flags)

\* InOrder, state by state: what it says there, and no more.

LEMMA StartOrder ==
  ASSUME NEW p, NEW o, p.state \in {"s_start_req", "s_start_req_or_res"}
  PROVE  InOrder(p, o) <=> ~o.final /\ o.last \in {"none", "message_complete"}
BY DEF InOrder, InLine, InHeader, LineStates, BegunStates, UrlStates, UrlToldStates,
       HeaderStates, FieldToldStates, ValueToldStates, OutOfChunkStates, SizeStates, InChunkStates

LEMMA StartResOrder ==
  ASSUME NEW p, NEW o, p.state = "s_start_res"
  PROVE  InOrder(p, o) <=> /\ ~o.final
                        /\ o.last \in {"none", "message_begin", "message_complete"}
BY DEF InOrder, InLine, InHeader, LineStates, BegunStates, UrlStates, UrlToldStates,
       HeaderStates, FieldToldStates, ValueToldStates, OutOfChunkStates, SizeStates, InChunkStates

LEMMA BegunOrder ==
  ASSUME NEW p, NEW o, p.state \in BegunStates
  PROVE  InOrder(p, o) <=> InLine(p, o) /\ o.last = "message_begin"
BY DEF InOrder, InLine, InHeader, LineStates, BegunStates, UrlStates, UrlToldStates,
       HeaderStates, FieldToldStates, ValueToldStates, OutOfChunkStates, SizeStates, InChunkStates

LEMMA StatusOrder ==
  ASSUME NEW p, NEW o, p.state = "s_res_status"
  PROVE  InOrder(p, o) <=> InLine(p, o) /\ o.last \in {"message_begin", "status"}
BY DEF InOrder, InLine, InHeader, LineStates, BegunStates, UrlStates, UrlToldStates,
       HeaderStates, FieldToldStates, ValueToldStates, OutOfChunkStates, SizeStates, InChunkStates

LEMMA UrlOrder ==
  ASSUME NEW p, NEW o, p.state \in UrlStates
  PROVE  InOrder(p, o) <=> InLine(p, o) /\ o.last \in {"message_begin", "url"}
BY DEF InOrder, InLine, InHeader, LineStates, BegunStates, UrlStates, UrlToldStates,
       HeaderStates, FieldToldStates, ValueToldStates, OutOfChunkStates, SizeStates, InChunkStates

LEMMA UrlToldOrder ==
  ASSUME NEW p, NEW o, p.state \in UrlToldStates
  PROVE  InOrder(p, o) <=> InLine(p, o) /\ o.last = "url"
BY DEF InOrder, InLine, InHeader, LineStates, BegunStates, UrlStates, UrlToldStates,
       HeaderStates, FieldToldStates, ValueToldStates, OutOfChunkStates, SizeStates, InChunkStates

LEMMA StatusToldOrder ==
  ASSUME NEW p, NEW o, p.state = "s_res_line_almost_done"
  PROVE  InOrder(p, o) <=> InLine(p, o) /\ o.last = "status"
BY DEF InOrder, InLine, InHeader, LineStates, BegunStates, UrlStates, UrlToldStates,
       HeaderStates, FieldToldStates, ValueToldStates, OutOfChunkStates, SizeStates, InChunkStates

LEMMA FieldStartOrder ==
  ASSUME NEW p, NEW o, p.state \in {"s_header_field_start", "s_headers_almost_done"}
  PROVE  InOrder(p, o) <=> InHeader(p, o) /\ o.last \in BeforeHeaders(o.chunk)
BY DEF InOrder, InLine, InHeader, LineStates, BegunStates, UrlStates, UrlToldStates,
       HeaderStates, FieldToldStates, ValueToldStates, OutOfChunkStates, SizeStates, InChunkStates

LEMMA FieldOrder ==
  ASSUME NEW p, NEW o, p.state = "s_header_field"
  PROVE  InOrder(p, o) <=> /\ InHeader(p, o)
                        /\ o.last \in BeforeHeaders(o.chunk) \union {"header_field"}
BY DEF InOrder, InLine, InHeader, LineStates, BegunStates, UrlStates, UrlToldStates,
       HeaderStates, FieldToldStates, ValueToldStates, OutOfChunkStates, SizeStates, InChunkStates

LEMMA FieldToldOrder ==
  ASSUME NEW p, NEW o, p.state \in FieldToldStates
  PROVE  InOrder(p, o) <=> InHeader(p, o) /\ o.last = "header_field"
BY DEF InOrder, InLine, InHeader, LineStates, BegunStates, UrlStates, UrlToldStates,
       HeaderStates, FieldToldStates, ValueToldStates, OutOfChunkStates, SizeStates, InChunkStates

LEMMA ValueOrder ==
  ASSUME NEW p, NEW o, p.state = "s_header_value"
  PROVE  InOrder(p, o) <=> InHeader(p, o) /\ o.last \in {"header_field", "header_value"}
BY DEF InOrder, InLine, InHeader, LineStates, BegunStates, UrlStates, UrlToldStates,
       HeaderStates, FieldToldStates, ValueToldStates, OutOfChunkStates, SizeStates, InChunkStates

LEMMA ValueToldOrder ==
  ASSUME NEW p, NEW o, p.state \in ValueToldStates
  PROVE  InOrder(p, o) <=> InHeader(p, o) /\ o.last = "header_value"
BY DEF InOrder, InLine, InHeader, LineStates, BegunStates, UrlStates, UrlToldStates,
       HeaderStates, FieldToldStates, ValueToldStates, OutOfChunkStates, SizeStates, InChunkStates

LEMMA HeadersDoneOrder ==
  ASSUME NEW p, NEW o, p.state = "s_headers_done"
  PROVE  InOrder(p, o) <=> ~o.final /\ ~o.chunk /\ o.last = "headers_complete"
BY DEF InOrder, InLine, InHeader, LineStates, BegunStates, UrlStates, UrlToldStates,
       HeaderStates, FieldToldStates, ValueToldStates, OutOfChunkStates, SizeStates, InChunkStates

LEMMA BodyOrder ==
  ASSUME NEW p, NEW o, p.state \in {"s_body_identity", "s_body_identity_eof"}
  PROVE  InOrder(p, o) <=> ~o.final /\ ~o.chunk /\ o.last \in {"headers_complete", "body"}
BY DEF InOrder, InLine, InHeader, LineStates, BegunStates, UrlStates, UrlToldStates,
       HeaderStates, FieldToldStates, ValueToldStates, OutOfChunkStates, SizeStates, InChunkStates

LEMMA SizeOrder ==
  ASSUME NEW p, NEW o, p.state \in SizeStates \union {"s_chunk_size_start"}
  PROVE  InOrder(p, o) <=> /\ ~o.final /\ ~o.chunk
                        /\ o.last \in {"headers_complete", "chunk_complete"}
BY DEF InOrder, InLine, InHeader, LineStates, BegunStates, UrlStates, UrlToldStates,
       HeaderStates, FieldToldStates, ValueToldStates, OutOfChunkStates, SizeStates, InChunkStates

LEMMA InChunkOrder ==
  ASSUME NEW p, NEW o, p.state \in InChunkStates
  PROVE  InOrder(p, o) <=> ~o.final /\ o.chunk /\ o.last \in {"chunk_header", "body"}
BY DEF InOrder, InLine, InHeader, LineStates, BegunStates, UrlStates, UrlToldStates,
       HeaderStates, FieldToldStates, ValueToldStates, OutOfChunkStates, SizeStates, InChunkStates

LEMMA MessageDoneOrder ==
  ASSUME NEW p, NEW o, p.state = "s_message_done"
  PROVE  InOrder(p, o) <=> ~o.final /\ ~o.chunk /\ o.last \in {"body", "chunk_complete"}
BY DEF InOrder, InLine, InHeader, LineStates, BegunStates, UrlStates, UrlToldStates,
       HeaderStates, FieldToldStates, ValueToldStates, OutOfChunkStates, SizeStates, InChunkStates

LEMMA DeadOrder ==
  ASSUME NEW p, NEW o, p.state = "s_dead"
  PROVE  InOrder(p, o) <=> TRUE
BY DEF InOrder, InLine, InHeader, LineStates, BegunStates, UrlStates, UrlToldStates,
       HeaderStates, FieldToldStates, ValueToldStates, OutOfChunkStates, SizeStates, InChunkStates

-----------------------------------------------------------------------------
(* A byte that is looked at *)

NoMarkStates == States \ (UrlStates \union {"s_header_field", "s_header_value",
                                            "s_res_status"})

LEMMA MarkSetIs ==
  /\ \A s \in NoMarkStates : MarkSet(s) = {}
  /\ \A s \in UrlStates : MarkSet(s) = {"url"}
  /\ MarkSet("s_header_field") = {"header_field"}
  /\ MarkSet("s_header_value") = {"header_value"}
  /\ MarkSet("s_res_status") = {"status"}
<1>1. \A s \in NoMarkStates : MarkSet(s) = {}
  BY DEF MarkSet, NoMarkStates
<1>2. \A s \in UrlStates : MarkSet(s) = {"url"}
  BY DEF MarkSet, UrlStates, Pieces
<1>3. MarkSet("s_header_field") = {"header_field"}
  BY DEF MarkSet, UrlStates, Pieces
<1>4. MarkSet("s_header_value") = {"header_value"}
  BY DEF MarkSet, UrlStates, Pieces
<1>5. MarkSet("s_res_status") = {"status"}
  BY DEF MarkSet, UrlStates, Pieces
<1> QED
  BY <1>1, <1>2, <1>3, <1>4, <1>5

\* What P is while a byte is looked at.
LEMMA PIs ==
  ASSUME ParserInv, NEW s, NEW b, At(s, b)
  PROVE  /\ P \in ParserRecords /\ P.type = parser.type /\ P.method = parser.method
         /\ P.old = parser.old /\ P.status = parser.status /\ P.state = s
         /\ P.flags = parser.flags /\ P.hs = parser.hs /\ P.length = parser.length
         /\ P.upgrade = parser.upgrade /\ P.errno = "OK"
         /\ P.nread = (IF Counts THEN parser.nread + 1 ELSE parser.nread)
         /\ P.nread <= MaxHeader
<1>1. parser \in ParserRecords /\ parser.errno = "OK" /\ parser.state = s
  BY DEF ParserInv, VarTypes, Running, At, Ok
<1>2. parser.nread <= MaxHeader /\ parser.nread \in Nat
  BY <1>1 DEF ParserInv, Measures, Ok, ParserRecords
<1>3. CASE Counts
  <2>1. P = [parser EXCEPT !.nread = @ + 1] /\ parser.nread + 1 <= MaxHeader
    BY <1>2, <1>3, LimitsAssumption DEF P, At, TooLong
  <2> QED
    BY <1>1, <1>2, <1>3, <2>1 DEF ParserRecords
<1>4. CASE ~Counts
  BY <1>1, <1>2, <1>4 DEF P, ParserRecords
<1> QED
  BY <1>3, <1>4

LEMMA AtIs ==
  ASSUME ParserInv, NEW s, NEW b, At(s, b)
  PROVE  /\ Ok /\ InCall /\ whole = TRUE /\ s \in States
         /\ parser.length = due /\ due \in 0..MaxLen /\ due \in Nat
         /\ Fields(parser) /\ InOrder(parser, order)
         /\ s # "s_dead" => ~order.final
         /\ s \notin {"s_header_field", "s_header_value"} => run = 0
         /\ s \in NoMarkStates /\ s # "s_chunk_data_almost_done" =>
              DOMAIN mark = {} /\ owed = 0
         /\ s = "s_chunk_data_almost_done" => DOMAIN mark \in {{}, {"body"}}
         /\ s \notin NoMarkStates => DOMAIN mark = MarkSet(s)
<1>1. /\ InCall /\ Ok /\ whole = TRUE /\ parser.state = s
      /\ parser \in ParserRecords /\ s \in States
  BY DEF ParserInv, VarTypes, Running, At, Ok, InCall, ParserRecords
<1>2. parser.length = due /\ due \in 0..MaxLen /\ due \in Nat
  BY <1>1 DEF ParserInv, VarTypes, Measures, ParserRecords
<1>3. Fields(parser) /\ InOrder(parser, order)
  BY <1>1 DEF ParserInv, InCall
<1>4. s # "s_dead" => ~order.final
  BY <1>1, <1>3 DEF InOrder
<1>5. s \notin {"s_header_field", "s_header_value"} => run = 0
  BY <1>1 DEF ParserInv, VarTypes, Running
<1>6. /\ \/ DOMAIN mark = MarkSet(s)
         \/ s = "s_chunk_data_almost_done" /\ DOMAIN mark = {"body"}
      /\ DOMAIN mark = {} => owed = 0
  BY <1>1 DEF ParserInv, Marks, MarksFit, Owes, InCall
<1>7. "s_chunk_data_almost_done" \in NoMarkStates
  BY DEF NoMarkStates, UrlStates, States, InChunkStates
<1> QED
  BY <1>1, <1>2, <1>3, <1>4, <1>5, <1>6, <1>7, MarkSetIs

\* A byte looked at counts, if it is not one of an inner loop.
LEMMA OneCounts ==
  ASSUME ParserInv, NEW s, NEW b, At(s, b), run = 0, NEW p \in ParserRecords,
         p.nread >= P.nread
  PROVE  CountsUp(p)
<1>1. P.nread = (IF Counts THEN parser.nread + 1 ELSE parser.nread)
  BY PIs
<1>2. parser.nread \in Nat /\ p.nread \in Nat
  BY DEF ParserInv, VarTypes, ParserRecords
<1> QED
  BY <1>1, <1>2 DEF CountsUp, Counts, HeaderCount

-----------------------------------------------------------------------------
(* The ways a case ends, each with the marks it leaves *)

LEMMA BreakStep ==
  ASSUME ParserInv, InCall, due' \in Nat, DOMAIN mark = {}, NEW p,
         Fits(p, order, due'), CountsUp(p), p.state \in NoMarkStates, Break(p)
  PROVE  StepOK
<1>1. mark \in [DOMAIN mark -> Nat] /\ owed = 0
  BY DEF ParserInv, VarTypes, Marks, Owes, Running, InCall
<1> DEFINE m == Moved(mark, 1)
<1>2. m \in [DOMAIN m -> Nat] /\ DOMAIN m = {}
  BY <1>1, MovedIs
<1>3. Quiet(p, 0) /\ Goes("more", NoByte, m)
  BY DEF Break, Take
<1> HIDE DEF m
<1>4. MarksFit("more", p.state, m) /\ Owes(m, owed + 0)
  BY <1>1, <1>2, MarkSetIs DEF MarksFit, Owes
<1> QED
  BY <1>2, <1>3, <1>4, QuietStep

LEMMA AgainStep ==
  ASSUME ParserInv, InCall, due' \in Nat, DOMAIN mark = {}, NEW p, NEW b,
         Fits(p, order, due'), CountsUp(p), p.state \in NoMarkStates, Again(p, b)
  PROVE  StepOK
<1>1. mark \in [DOMAIN mark -> Nat] /\ owed = 0
  BY DEF ParserInv, VarTypes, Marks, Owes, Running, InCall
<1>2. MarksFit("more", p.state, mark) /\ Owes(mark, owed + 0)
  BY <1>1, MarkSetIs DEF MarksFit, Owes
<1>3. Quiet(p, 0) /\ Goes("more", b, mark)
  BY DEF Again
<1> QED
  BY <1>2, <1>3, QuietStep

\* The byte is the first of a part of the message.
LEMMA MarkStep ==
  ASSUME ParserInv, InCall, due' \in Nat, DOMAIN mark = {}, NEW p, NEW k \in Pieces,
         Fits(p, order, due'), CountsUp(p), MarkSet(p.state) = {k}, Take(p, Marked(k), 1)
  PROVE  StepOK
<1>1. owed = 0
  BY DEF ParserInv, Marks, Owes, Running, InCall
<1>2. /\ Marked(k) \in [DOMAIN Marked(k) -> Nat] /\ DOMAIN Marked(k) = {k}
      /\ Marked(k)[k] = 0
  BY MarkedIs DEF ParserInv
<1> DEFINE m == Moved(Marked(k), 1)
<1>3. m \in [DOMAIN m -> Nat] /\ DOMAIN m = {k} /\ m[k] = 1
  BY <1>2, MovedIs
<1>4. Quiet(p, 1) /\ Goes("more", NoByte, m)
  BY DEF Take
<1> HIDE DEF m
<1>5. MarksFit("more", p.state, m) /\ Owes(m, owed + 1)
  BY <1>1, <1>3 DEF MarksFit, Owes
<1> QED
  BY <1>3, <1>4, <1>5, QuietStep

\* The byte is one more of such a part.
LEMMA KeepStep ==
  ASSUME ParserInv, InCall, due' \in Nat, NEW p, NEW k \in Pieces, DOMAIN mark = {k},
         Fits(p, order, due'), CountsUp(p), MarkSet(p.state) = {k}, Take(p, mark, 1)
  PROVE  StepOK
<1>1. mark \in [DOMAIN mark -> Nat] /\ mark[k] = owed
  BY DEF ParserInv, VarTypes, Marks, Owes, Running, InCall
<1> DEFINE m == Moved(mark, 1)
<1>2. m \in [DOMAIN m -> Nat] /\ DOMAIN m = {k} /\ m[k] = owed + 1
  BY <1>1, MovedIs
<1>3. Quiet(p, 1) /\ Goes("more", NoByte, m)
  BY DEF Take
<1> HIDE DEF m
<1>4. MarksFit("more", p.state, m) /\ Owes(m, owed + 1)
  BY <1>2 DEF MarksFit, Owes
<1> QED
  BY <1>2, <1>3, <1>4, QuietStep

LEMMA NotifyStep ==
  ASSUME ParserInv, InCall, due' \in Nat, DOMAIN mark = {}, NEW p,
         NEW on \in Notifications, MayCall(on), on = "message_complete" => ~p.upgrade,
         Fits(p, NewOrder(on, p), due'), CountsUp(p), p.state \in NoMarkStates,
         Notify(on, p)
  PROVE  StepOK
<1>1. mark \in [DOMAIN mark -> Nat] /\ owed = 0
  BY DEF ParserInv, VarTypes, Marks, Owes, Running, InCall
<1> DEFINE m == Moved(mark, 1)
<1>2. m \in [DOMAIN m -> Nat] /\ DOMAIN m = {}
  BY <1>1, MovedIs
<1>3. /\ Called(on, 0, 0, p)
      /\ \/ parser' = p /\ Goes("more", NoByte, m)
         \/ parser' = [p EXCEPT !.errno = "error"] /\ Leave(TRUE)
  BY DEF Notify, Callback, Called, NewOrder
<1> HIDE DEF m
<1>4. /\ MarksFit("more", p.state, m) /\ Owes(m, owed + 0 - 0) /\ on \notin Pieces
      /\ owed + 0 - 0 = 0
  BY <1>1, <1>2, MarkSetIs DEF MarksFit, Owes, Notifications, Pieces
<1>5. CASE parser' = p /\ Goes("more", NoByte, m)
  BY <1>1, <1>2, <1>3, <1>4, <1>5, CallbackGoes
<1>6. CASE parser' = [p EXCEPT !.errno = "error"] /\ Leave(TRUE)
  <2> DEFINE q == [p EXCEPT !.errno = "error"]
  <2>1. q \in ParserRecords /\ Fields(q) /\ q.errno = "error"
    BY FieldsWithError, WithError DEF Fits
  <2>2. /\ call \in {"first", "more", "full"} /\ parser' = q
        /\ call' = "out" /\ ch' = NoByte /\ mark' = NoMarks /\ whole' \in BOOLEAN
    BY <1>6 DEF InCall, Leave
  <2> HIDE DEF q
  <2> QED
    BY <1>1, <1>3, <1>4, <2>1, <2>2, CallbackFails
<1> QED
  BY <1>3, <1>5, <1>6

LEMMA NotifyAgainStep ==
  ASSUME ParserInv, InCall, due' \in Nat, DOMAIN mark = {}, NEW p, NEW b,
         NEW on \in Notifications, MayCall(on), on # "message_complete",
         Fits(p, NewOrder(on, p), due'), CountsUp(p), p.state \in NoMarkStates,
         NotifyAgain(on, p, b)
  PROVE  StepOK
<1>1. mark \in [DOMAIN mark -> Nat] /\ owed = 0
  BY DEF ParserInv, VarTypes, Marks, Owes, Running, InCall
<1>2. /\ Called(on, 0, 0, p)
      /\ \/ parser' = p /\ Goes("more", b, mark)
         \/ parser' = [p EXCEPT !.errno = "error"] /\ Leave(FALSE)
  BY DEF NotifyAgain, Callback, Called, NewOrder
<1>3. /\ MarksFit("more", p.state, mark) /\ Owes(mark, owed + 0 - 0) /\ on \notin Pieces
      /\ owed + 0 - 0 = 0
  BY <1>1, MarkSetIs DEF MarksFit, Owes, Notifications, Pieces
<1>4. CASE parser' = p /\ Goes("more", b, mark)
  BY <1>1, <1>2, <1>3, <1>4, CallbackGoes
<1>5. CASE parser' = [p EXCEPT !.errno = "error"] /\ Leave(FALSE)
  <2> DEFINE q == [p EXCEPT !.errno = "error"]
  <2>1. q \in ParserRecords /\ Fields(q) /\ q.errno = "error"
    BY FieldsWithError, WithError DEF Fits
  <2>2. /\ call \in {"first", "more", "full"} /\ parser' = q
        /\ call' = "out" /\ ch' = NoByte /\ mark' = NoMarks /\ whole' \in BOOLEAN
    BY <1>5 DEF InCall, Leave
  <2> HIDE DEF q
  <2> QED
    BY <1>1, <1>2, <1>3, <2>1, <2>2, CallbackFails
<1> QED
  BY <1>2, <1>4, <1>5

\* Only a notification may fail.
LEMMA PiecesPass == \A k \in Pieces : k \notin MayFail
BY FailAssumption DEF Pieces, Notifications

LEMMA DataStep ==
  ASSUME ParserInv, InCall, due' \in Nat, NEW k \in Pieces, DOMAIN mark = {k}, NEW p,
         MayCall(k), Fits(p, NewOrder(k, p), due'), CountsUp(p),
         p.state \in NoMarkStates, Data(k, p)
  PROVE  StepOK
<1>1. mark[k] = owed /\ owed \in Nat
  BY DEF ParserInv, VarTypes, Marks, Owes, Running, InCall
<1> DEFINE m == Moved(Unmarked(k), 1)
<1>2. m \in [DOMAIN m -> Nat] /\ DOMAIN m = {}
  <2>1. /\ Unmarked(k) \in [DOMAIN Unmarked(k) -> Nat]
        /\ DOMAIN Unmarked(k) = {}
    BY UnmarkedIs DEF ParserInv
  <2> QED
    BY <2>1, MovedIs
<1>3. Called(k, owed, 0, p) /\ parser' = p /\ Goes("more", NoByte, m)
  BY <1>1, PiecesPass DEF Data, Callback, Called, NewOrder
<1> HIDE DEF m
<1>4. MarksFit("more", p.state, m) /\ Owes(m, owed + 0 - owed) /\ owed + 0 - owed = 0
  BY <1>1, <1>2, MarkSetIs DEF MarksFit, Owes
<1>5. k # "message_complete"
  BY DEF Pieces
<1> QED
  BY <1>1, <1>2, <1>3, <1>4, <1>5, CallbackGoes

LEMMA DataAgainStep ==
  ASSUME ParserInv, InCall, due' \in Nat, NEW k \in Pieces, DOMAIN mark \subseteq {k},
         NEW p, NEW m, m[k] = owed, NEW b,
         MayCall(k), Fits(p, NewOrder(k, p), due'), CountsUp(p),
         p.state \in NoMarkStates, DataAgain(k, m, p, b)
  PROVE  StepOK
<1>1. owed \in Nat
  BY DEF ParserInv, VarTypes
<1> DEFINE n == Unmarked(k)
<1>2. n \in [DOMAIN n -> Nat] /\ DOMAIN n = {}
  BY UnmarkedIs DEF ParserInv
<1>3. Called(k, owed, 0, p) /\ parser' = p /\ Goes("more", b, n)
  BY <1>1, PiecesPass DEF DataAgain, Callback, Called, NewOrder
<1> HIDE DEF n
<1>4. MarksFit("more", p.state, n) /\ Owes(n, owed + 0 - owed) /\ owed + 0 - owed = 0
  BY <1>1, <1>2, MarkSetIs DEF MarksFit, Owes
<1>5. k # "message_complete"
  BY DEF Pieces
<1> QED
  BY <1>1, <1>2, <1>3, <1>4, <1>5, CallbackGoes

\* One more byte of an inner loop.
LEMMA InLoopStep ==
  ASSUME ParserInv, NEW s \in {"s_header_field", "s_header_value"}, NEW b, At(s, b),
         due' \in Nat, NEW p, Fits(p, order, due'), p.state = s, p.nread = P.nread,
         NEW jump \in BOOLEAN, InLoop(p, jump)
  PROVE  StepOK
<1>1. /\ Ok /\ InCall /\ whole = TRUE /\ parser.state = s
  BY AtIs, PIs DEF At
<1>2. PICK k \in Pieces : MarkSet(s) = {k}
  BY MarkSetIs DEF Pieces
<1>3. s \notin NoMarkStates
  BY DEF NoMarkStates
<1>4. DOMAIN mark = {k} /\ mark \in [DOMAIN mark -> Nat] /\ mark[k] = owed /\ owed \in Nat
  BY <1>1, <1>2, <1>3, AtIs DEF ParserInv, VarTypes, Marks, Owes
<1> DEFINE m == Moved(mark, 1)
<1>5. m \in [DOMAIN m -> Nat] /\ DOMAIN m = {k} /\ m[k] = owed + 1
  <2>1. mark \in [DOMAIN mark -> Nat] /\ k \in DOMAIN mark
    BY <1>4
  <2>2. m \in [DOMAIN m -> Nat] /\ DOMAIN m = DOMAIN mark /\ m[k] = mark[k] + 1
    BY <2>1, MovedIs
  <2> QED
    BY <1>4, <2>2
<1>6. /\ parser' = p /\ run' = run + 1 /\ skip' = jump /\ cb' = NoCall
      /\ owed' = owed + 1 /\ order' = order
      /\ call' = "more" /\ ch' = NoByte /\ mark' = m /\ whole' = TRUE
  BY <1>1 DEF InLoop, Goes
<1> HIDE DEF m
<1>7. Ok' /\ run \in Nat /\ run' > 0
  BY <1>6 DEF Ok, Fits, ParserInv, VarTypes
<1>8. VarTypes'
  <2>1. mark' \in [DOMAIN mark' -> Nat] /\ DOMAIN mark' \subseteq Pieces
    BY <1>5, <1>6
  <2>2. /\ cb' \in [on : Calls, len : Nat]
        /\ order' \in Orders
    BY <1>6, NoCallIs DEF ParserInv, VarTypes
  <2>3. parser' \in ParserRecords
    BY <1>6 DEF Fits
  <2>4. /\ call' \in {"out", "first", "more", "full", "ended"} /\ run' \in Nat
        /\ skip' \in BOOLEAN /\ whole' \in BOOLEAN /\ owed' \in Nat
    BY <1>4, <1>6, <1>7
  <2> QED
    BY <2>1, <2>2, <2>3, <2>4 DEF VarTypes
<1>9. Running'
  BY <1>6, <1>7 DEF Running
<1>10. Marks' /\ UpgradeStops'
  BY <1>2, <1>5, <1>6 DEF Marks, MarksFit, Owes, UpgradeStops, NoCall, Pieces
<1>11. Fields(parser)' /\ Measures(parser, due)' /\ InOrder(parser, order)'
  BY <1>6 DEF Fits
<1>12. MessageStep
  BY <1>1, <1>6, <1>7, NoCallStep DEF ParserInv, InCall
<1>13. CountedStep
  <2>1. HeaderCount' = p.nread + run
    BY <1>6, <1>7 DEF HeaderCount, Fits, ParserRecords
  <2>2. p.nread = (IF Counts THEN parser.nread + 1 ELSE parser.nread)
    BY PIs
  <2>3. parser.nread \in Nat
    BY DEF ParserInv, VarTypes, ParserRecords
  <2>4. ch = NoByte /\ parser.state \notin BodyPhase => HeaderCount' > HeaderCount
    BY <1>7, <2>1, <2>2, <2>3 DEF Counts, HeaderCount
  <2> QED
    BY <1>6, <2>4 DEF CountedStep, Fits, Measures
<1> QED
  BY <1>8, <1>9, <1>10, <1>11, <1>12, <1>13 DEF ParserInv, StepOK

-----------------------------------------------------------------------------
(* The cases *)

\* The callbacks that may come next, as the cases need them.
LEMMA FollowsIs ==
  ASSUME NEW c
  PROVE  LET F(from) == Messages!Follows(from, c) IN
         /\ "message_begin" \in F("none") /\ "message_begin" \in F("message_begin")
         /\ "message_begin" \in F("message_complete")
         /\ "url" \in F("message_begin") /\ "url" \in F("url")
         /\ "status" \in F("message_begin") /\ "status" \in F("status")
         /\ "header_field" \in F("url") /\ "header_field" \in F("status")
         /\ "header_field" \in F("header_field") /\ "header_field" \in F("header_value")
         /\ "header_field" \in F("chunk_header")
         /\ "header_value" \in F("header_field") /\ "header_value" \in F("header_value")
         /\ "headers_complete" \in F("url") /\ "headers_complete" \in F("status")
         /\ ~c => "headers_complete" \in F("header_value")
         /\ "chunk_header" \in F("headers_complete") /\ "chunk_header" \in F("chunk_complete")
         /\ "body" \in F("headers_complete") /\ "body" \in F("chunk_header")
         /\ "body" \in F("body")
         /\ "chunk_complete" \in F("chunk_header")
         /\ c => "chunk_complete" \in F("header_value") /\ "chunk_complete" \in F("body")
         /\ "message_complete" \in F("headers_complete")
         /\ "message_complete" \in F("chunk_complete")
         /\ ~c => "message_complete" \in F("body")
<1> DEFINE F(from) == Messages!Follows(from, c)
<1>1. F("none") = {"message_begin"}
  BY Zenon DEF Messages!Follows
<1>2. F("message_begin") = {"message_begin", "url", "status"}
  BY Zenon DEF Messages!Follows
<1>3. F("url") = {"url", "header_field", "headers_complete"}
  BY Zenon DEF Messages!Follows
<1>4. F("status") = {"status", "header_field", "headers_complete"}
  BY Zenon DEF Messages!Follows
<1>5. F("header_field") = {"header_field", "header_value"}
  BY Zenon DEF Messages!Follows
<1>6. F("header_value") = {"header_value", "header_field"} \union
                          IF c THEN {"chunk_complete"} ELSE {"headers_complete"}
  BY Zenon DEF Messages!Follows
<1>7. F("headers_complete") = {"body", "chunk_header", "message_complete"}
  BY Zenon DEF Messages!Follows
<1>8. F("body") = {"body"} \union IF c THEN {"chunk_complete"} ELSE {"message_complete"}
  BY Zenon DEF Messages!Follows
<1>9. F("chunk_header") = {"body", "header_field", "chunk_complete"}
  BY Zenon DEF Messages!Follows
<1>10. F("chunk_complete") = {"chunk_header", "message_complete"}
  BY Zenon DEF Messages!Follows
<1>11. F("message_complete") = {"message_begin"}
  BY Zenon DEF Messages!Follows
<1> HIDE DEF F
<1>12. /\ "message_begin" \in F("none") /\ "message_begin" \in F("message_begin")
       /\ "message_begin" \in F("message_complete")
       /\ "url" \in F("message_begin") /\ "url" \in F("url")
       /\ "status" \in F("message_begin") /\ "status" \in F("status")
       /\ "header_field" \in F("url") /\ "header_field" \in F("status")
       /\ "header_field" \in F("header_field") /\ "header_field" \in F("header_value")
       /\ "header_field" \in F("chunk_header")
       /\ "header_value" \in F("header_field") /\ "header_value" \in F("header_value")
       /\ "headers_complete" \in F("url") /\ "headers_complete" \in F("status")
  BY <1>1, <1>2, <1>3, <1>4, <1>5, <1>6, <1>9, <1>11
<1>13. /\ "chunk_header" \in F("headers_complete") /\ "chunk_header" \in F("chunk_complete")
       /\ "body" \in F("headers_complete") /\ "body" \in F("chunk_header")
       /\ "body" \in F("body")
       /\ "chunk_complete" \in F("chunk_header")
       /\ "message_complete" \in F("headers_complete")
       /\ "message_complete" \in F("chunk_complete")
  BY <1>7, <1>8, <1>9, <1>10
<1>14. /\ ~c => "headers_complete" \in F("header_value")
       /\ c => "chunk_complete" \in F("header_value") /\ "chunk_complete" \in F("body")
       /\ ~c => "message_complete" \in F("body")
  BY <1>6, <1>8
<1> QED
  BY <1>12, <1>13, <1>14 DEF F

LEMMA MayCallIs ==
  ASSUME ~order.final
  PROVE  /\ order.last \in {"none", "message_begin", "message_complete"} =>
              MayCall("message_begin")
         /\ order.last \in {"message_begin", "url"} => MayCall("url")
         /\ order.last \in {"message_begin", "status"} => MayCall("status")
         /\ order.last \in {"url", "status", "header_field", "header_value", "chunk_header"} =>
              MayCall("header_field")
         /\ order.last \in {"header_field", "header_value"} => MayCall("header_value")
         /\ order.last \in BeforeHeaders(order.chunk) =>
              IF order.chunk THEN MayCall("chunk_complete") ELSE MayCall("headers_complete")
         /\ order.last \in {"headers_complete", "chunk_complete"} => MayCall("chunk_header")
         /\ order.last \in {"headers_complete", "chunk_header", "body"} => MayCall("body")
         /\ order.last \in {"chunk_header", "body"} /\ order.chunk => MayCall("chunk_complete")
         /\ \/ order.last \in {"headers_complete", "chunk_complete"}
            \/ order.last = "body" /\ ~order.chunk
            => MayCall("message_complete")
BY FollowsIs DEF MayCall, Notifications, Pieces, BeforeHeaders

\* A byte that changes nothing but the count.
LEMMA PFits ==
  ASSUME ParserInv, NEW s, NEW b, At(s, b), s # "s_chunk_size_start"
  PROVE  Fits(P, order, due)
<1>1. parser.state = s
  BY DEF At
<1> QED
  BY <1>1, PIs, AtIs DEF Fits, Fields, Measures, InOrder

\* What Fail does with any change of the parser.
LEMMA FailIs ==
  ASSUME ParserInv, NEW s, NEW b, At(s, b), due' \in Nat,
         NEW p \in ParserRecords, Fields([p EXCEPT !.errno = "error"]), Fail(p)
  PROVE  StepOK
BY AtIs, FailStep

LEMMA FailHere ==
  ASSUME ParserInv, NEW s, NEW b, At(s, b), due' = due, Fail(P)
  PROVE  StepOK
<1> DEFINE q == [P EXCEPT !.errno = "error"]
<1>1. P \in ParserRecords /\ due' \in Nat
  BY PIs, AtIs
<1>2. Fields(q)
  <2>1. parser.state = s
    BY DEF At
  <2>2. /\ q.state = parser.state /\ q.flags = parser.flags /\ q.hs = parser.hs
        /\ q.length = parser.length /\ q.errno = "error"
    BY <1>1, <2>1, PIs, WithError
  <2>3. Fields(parser)
    BY DEF ParserInv
  <2> HIDE DEF q
  <2> QED
    BY <2>2, <2>3 DEF Fields
<1> QED
  BY <1>1, <1>2, FailIs

\* Which states are without a mark, and which ask nothing of the fields.
LEMMA Kinds ==
  /\ BegunStates \union UrlToldStates \union FieldToldStates \union ValueToldStates \union
     {"s_res_line_almost_done", "s_header_field_start", "s_headers_almost_done",
      "s_headers_done", "s_body_identity_eof", "s_message_done", "s_dead",
      "s_start_req", "s_start_res", "s_start_req_or_res"}
     \subseteq PlainStates \intersect NoMarkStates
  /\ SizeStates \union InChunkStates \union {"s_chunk_size_start", "s_body_identity"}
     \subseteq NoMarkStates
  /\ UrlStates \union {"s_header_field", "s_res_status"} \subseteq PlainStates
  /\ NoMarkStates \union UrlStates \union {"s_header_field", "s_header_value", "s_res_status"}
     \subseteq States
  /\ UrlStates \subseteq States \ NoMarkStates
  /\ {"s_header_field", "s_header_value", "s_res_status"} \intersect NoMarkStates = {}
BY DEF NoMarkStates, PlainStates, States, LineStates, BegunStates, UrlStates, UrlToldStates,
       HeaderStates, FieldToldStates, ValueToldStates, OutOfChunkStates, SizeStates,
       InChunkStates

\* The parser's record at a byte, in another state.
LEMMA ToIs ==
  ASSUME ParserInv, NEW s, NEW b, At(s, b), NEW t \in States
  PROVE  /\ To(t) \in ParserRecords /\ To(t).state = t /\ To(t).type = parser.type
         /\ To(t).method = parser.method /\ To(t).old = parser.old
         /\ To(t).status = parser.status /\ To(t).flags = parser.flags
         /\ To(t).hs = parser.hs /\ To(t).nread = P.nread
         /\ To(t).length = parser.length /\ To(t).upgrade = parser.upgrade
         /\ To(t).errno = "OK"
BY PIs, WithState DEF To

LEMMA NewHeadersIs ==
  ASSUME NEW p \in ParserRecords
  PROVE  LET q == NewHeaders(p) IN
         /\ q \in ParserRecords /\ q.state = p.state /\ q.flags = {} /\ q.length = MaxLen
         /\ q.nread = p.nread /\ q.errno = p.errno /\ q.upgrade = p.upgrade /\ q.hs = p.hs
<1>1. MaxLen \in 0..MaxLen /\ {} \in SUBSET FlagNames
  BY LimitsAssumption
<1>2. NewHeaders(p) \in ParserRecords
  BY <1>1 DEF NewHeaders, ParserRecords
<1>3. LET q == NewHeaders(p) IN
      /\ q.state = p.state /\ q.flags = {} /\ q.length = MaxLen /\ q.nread = p.nread
      /\ q.errno = p.errno /\ q.upgrade = p.upgrade /\ q.hs = p.hs
  BY DEF NewHeaders, ParserRecords
<1> QED
  BY <1>2, <1>3

\* The count of p is that of the byte, or starts again where it may.
Counting(p) ==
  \/ p.nread = P.nread
  \/ /\ p.nread = 0
     /\ parser.state \in BodyPhase \union {"s_headers_done", "s_chunk_size_almost_done"}

\* A case may go on with p, when o are the callbacks so far.
Sound(p, o) ==
  /\ p \in ParserRecords /\ p.errno = "OK" /\ Counting(p) /\ p.length = due'
  /\ Fields(p) /\ InOrder(p, o)

LEMMA SoundFits ==
  ASSUME ParserInv, NEW s, NEW b, At(s, b), NEW p, NEW o, Sound(p, o)
  PROVE  /\ Fits(p, o, due') /\ due' \in Nat
         /\ run = 0 => CountsUp(p)
<1>1. p.nread \in Nat /\ p.length \in Nat
  BY LimitsAssumption DEF Sound, ParserRecords
<1>2. P.nread <= MaxHeader /\ MaxHeader \in Nat
  BY PIs, LimitsAssumption
<1>3. Fits(p, o, due')
  BY <1>1, <1>2 DEF Fits, Sound, Counting, Measures
<1>4. ASSUME run = 0 PROVE CountsUp(p)
  <2>1. CASE p.nread = P.nread
    BY <1>1, <1>4, <2>1, OneCounts DEF Sound
  <2>2. CASE parser.state \in BodyPhase \union {"s_headers_done", "s_chunk_size_almost_done"}
    BY <2>2 DEF CountsUp
  <2> QED
    BY <2>1, <2>2 DEF Sound, Counting
<1> QED
  BY <1>1, <1>3, <1>4 DEF Sound

\* Between the parts of a message there is no mark.
BetweenStates == NoMarkStates \ {"s_chunk_data_almost_done"}

LEMMA Between ==
  ASSUME ParserInv, NEW s \in BetweenStates, NEW b, At(s, b)
  PROVE  InCall /\ DOMAIN mark = {} /\ run = 0
BY AtIs, Kinds DEF BetweenStates

LEMMA BreakAt ==
  ASSUME ParserInv, NEW s \in BetweenStates, NEW b, At(s, b),
         NEW p, Sound(p, order), p.state \in NoMarkStates, Break(p)
  PROVE  StepOK
BY SoundFits, Between, BreakStep

LEMMA AgainAt ==
  ASSUME ParserInv, NEW s \in BetweenStates, NEW b, At(s, b),
         NEW p, Sound(p, order), p.state \in NoMarkStates, NEW c, Again(p, c)
  PROVE  StepOK
BY SoundFits, Between, AgainStep

LEMMA MarkAt ==
  ASSUME ParserInv, NEW s \in BetweenStates, NEW b, At(s, b), NEW k \in Pieces,
         NEW p, Sound(p, order), MarkSet(p.state) = {k}, Take(p, Marked(k), 1)
  PROVE  StepOK
BY SoundFits, Between, MarkStep

LEMMA NotifyAt ==
  ASSUME ParserInv, NEW s \in BetweenStates, NEW b, At(s, b),
         NEW on \in Notifications, MayCall(on), NEW p, on = "message_complete" => ~p.upgrade,
         Sound(p, NewOrder(on, p)), p.state \in NoMarkStates, Notify(on, p)
  PROVE  StepOK
BY SoundFits, Between, NotifyStep

LEMMA NotifyAgainAt ==
  ASSUME ParserInv, NEW s \in BetweenStates, NEW b, At(s, b),
         NEW on \in Notifications, MayCall(on), NEW p, on # "message_complete",
         Sound(p, NewOrder(on, p)), p.state \in NoMarkStates, NEW c, NotifyAgain(on, p, c)
  PROVE  StepOK
BY SoundFits, Between, NotifyAgainStep

\* A byte that changes nothing but the count.
LEMMA SameIsSound ==
  ASSUME ParserInv, NEW s, NEW b, At(s, b), s # "s_chunk_size_start", due' = due
  PROVE  Sound(P, order)
BY PFits, PIs, AtIs DEF Sound, Fits, Counting

\* Another state, and nothing else.
LEMMA ToIsSound ==
  ASSUME ParserInv, NEW s, NEW b, At(s, b), due' = due, NEW o,
         NEW t \in PlainStates \intersect States, InOrder(To(t), o)
  PROVE  Sound(To(t), o)
BY ToIs, AtIs, PlainFields DEF Sound, Counting

LEMMA FailTo ==
  ASSUME ParserInv, NEW s, NEW b, At(s, b), due' \in Nat,
         NEW p \in ParserRecords, p.state \in PlainStates, Fail(p)
  PROVE  StepOK
<1> DEFINE q == [p EXCEPT !.errno = "error"]
<1>1. q.state \in PlainStates
  BY WithError
<1>2. Fields(q)
  BY <1>1, PlainFields
<1> QED
  BY <1>2, FailIs

LEMMA NewHeadersTo ==
  ASSUME ParserInv, NEW s, NEW b, At(s, b), NEW t \in States
  PROVE  LET q == NewHeaders(To(t)) IN
         /\ q \in ParserRecords /\ q.state = t /\ q.flags = {} /\ q.length = MaxLen
         /\ q.nread = P.nread /\ q.errno = "OK"
BY ToIs, NewHeadersIs

LEMMA StartReqStep ==
  ASSUME ParserInv, NEW b, StartReq(b)
  PROVE  StepOK
<1>1. At("s_start_req", b) /\ "s_start_req" \in BetweenStates
  BY Kinds DEF StartReq, BetweenStates
<1>2. ~order.final /\ MayCall("message_begin")
  <2>1. parser.state = "s_start_req" /\ InOrder(parser, order)
    BY <1>1, AtIs DEF At
  <2> QED
    BY <2>1, StartOrder, MayCallIs
<1>3. CASE b \in NewLine /\ Break(P) /\ due' = due
  BY <1>1, <1>3, PIs, SameIsSound, BreakAt DEF BetweenStates
<1>4. CASE /\ b \in {"GET", "CONNECT", "HEAD"} /\ due' = MaxLen
           /\ Notify("message_begin", [NewHeaders(To("s_req_method")) EXCEPT !.method = b])
  <2> DEFINE p == [NewHeaders(To("s_req_method")) EXCEPT !.method = b]
             o == NewOrder("message_begin", p)
  <2>1. /\ p \in ParserRecords /\ p.state = "s_req_method" /\ p.flags = {} /\ p.length = MaxLen
        /\ p.nread = P.nread /\ p.errno = "OK"
    <3> DEFINE q == NewHeaders(To("s_req_method"))
    <3>1. "s_req_method" \in States
      BY Kinds DEF BegunStates
    <3>2. /\ q \in ParserRecords /\ q.state = "s_req_method" /\ q.flags = {} /\ q.length = MaxLen
          /\ q.nread = P.nread /\ q.errno = "OK"
      BY <1>1, <3>1, NewHeadersTo
    <3> HIDE DEF q
    <3>3. p = [q EXCEPT !.method = b] /\ b \in {"GET", "CONNECT", "HEAD"}
      BY <1>4 DEF q
    <3> HIDE DEF p
    <3> QED
      BY <3>2, <3>3 DEF ParserRecords
  <2>2. p.state \in PlainStates \intersect NoMarkStates /\ p.state \in BegunStates
    BY <2>1, Kinds DEF BegunStates
  <2>3. Notify("message_begin", p) /\ due' = MaxLen
    BY <1>4
  <2> HIDE DEF p
  <2>4. "message_begin" \in Notifications
    BY DEF Notifications
  <2>5. o.last = "message_begin" /\ ~o.chunk /\ ~o.final
    BY <1>2, <2>4, NewOrderIs DEF ParserInv
  <2>6. Sound(p, o)
    BY <1>2, <2>1, <2>2, <2>3, <2>5, BegunOrder, PlainFields DEF InLine, Sound, Counting
  <2> QED
    BY <1>1, <1>2, <2>2, <2>3, <2>4, <2>6, NotifyAt
<1>5. CASE Fail(NewHeaders(P)) /\ due' = MaxLen
  <2>1. NewHeaders(P) \in ParserRecords /\ NewHeaders(P).state \in PlainStates
    BY <1>1, PIs, NewHeadersIs, Kinds
  <2> QED
    BY <1>1, <1>5, <2>1, FailTo, LimitsAssumption
<1> QED
  BY <1>3, <1>4, <1>5 DEF StartReq

LEMMA StartReqOrResStep ==
  ASSUME ParserInv, NEW b, StartReqOrRes(b)
  PROVE  StepOK
<1>1. At("s_start_req_or_res", b) /\ "s_start_req_or_res" \in BetweenStates
  BY Kinds DEF StartReqOrRes, BetweenStates
<1>2. /\ ~order.final /\ MayCall("message_begin")
      /\ order.last \in {"none", "message_complete"}
  <2>1. parser.state = "s_start_req_or_res" /\ InOrder(parser, order)
    BY <1>1, AtIs DEF At
  <2> QED
    BY <2>1, StartOrder, MayCallIs
<1>3. CASE b \in NewLine /\ Break(P) /\ due' = due
  BY <1>1, <1>3, PIs, SameIsSound, BreakAt DEF BetweenStates
<1>4. CASE /\ due' = MaxLen
           /\ Notify("message_begin", NewHeaders(To("s_res_or_resp_H")))
  <2> DEFINE p == NewHeaders(To("s_res_or_resp_H"))
             o == NewOrder("message_begin", p)
  <2>1. "s_res_or_resp_H" \in States /\ "s_res_or_resp_H" \in BegunStates
    BY Kinds DEF BegunStates
  <2>2. /\ p \in ParserRecords /\ p.state = "s_res_or_resp_H" /\ p.flags = {}
        /\ p.length = MaxLen /\ p.nread = P.nread /\ p.errno = "OK"
    BY <1>1, <2>1, NewHeadersTo
  <2> HIDE DEF p
  <2>3. p.state \in PlainStates \intersect NoMarkStates /\ p.state \in BegunStates
    BY <2>1, <2>2, Kinds
  <2>4. "message_begin" \in Notifications
    BY DEF Notifications
  <2>5. o.last = "message_begin" /\ ~o.chunk /\ ~o.final
    BY <1>2, <2>4, NewOrderIs DEF ParserInv
  <2>6. Sound(p, o)
    BY <1>4, <2>2, <2>3, <2>5, BegunOrder, PlainFields DEF InLine, Sound, Counting
  <2>7. Notify("message_begin", p)
    BY <1>4 DEF p
  <2> QED
    BY <1>1, <1>2, <2>3, <2>4, <2>6, <2>7, NotifyAt
<1>5. CASE /\ due' = MaxLen
           /\ Again([NewHeaders(To("s_start_req")) EXCEPT !.type = "REQUEST"], b)
  <2> DEFINE q == NewHeaders(To("s_start_req"))
             p == [q EXCEPT !.type = "REQUEST"]
  <2>1. /\ q \in ParserRecords /\ q.state = "s_start_req" /\ q.flags = {}
        /\ q.length = MaxLen /\ q.nread = P.nread /\ q.errno = "OK"
    BY <1>1, NewHeadersTo, Kinds
  <2> HIDE DEF q
  <2>2. /\ p \in ParserRecords /\ p.state = "s_start_req" /\ p.flags = {}
        /\ p.length = MaxLen /\ p.nread = P.nread /\ p.errno = "OK"
    BY <2>1 DEF ParserRecords
  <2>3. Again(p, b)
    BY <1>5 DEF q
  <2> HIDE DEF p
  <2>4. Sound(p, order)
    BY <1>2, <1>5, <2>2, StartOrder, PlainFields, Kinds DEF Sound, Counting
  <2> QED
    BY <1>1, <2>2, <2>3, <2>4, AgainAt, Kinds
<1> QED
  BY <1>3, <1>4, <1>5 DEF StartReqOrRes

LEMMA StartResStep ==
  ASSUME ParserInv, NEW b, StartRes(b)
  PROVE  StepOK
<1> DEFINE q == NewHeaders(P)
<1>1. At("s_start_res", b) /\ "s_start_res" \in BetweenStates /\ due' = MaxLen
  BY Kinds DEF StartRes, BetweenStates
<1>2. ~order.final /\ MayCall("message_begin")
  <2>1. parser.state = "s_start_res" /\ InOrder(parser, order)
    BY <1>1, AtIs DEF At
  <2> QED
    BY <2>1, StartResOrder, MayCallIs
<1>3. /\ q \in ParserRecords /\ q.state = "s_start_res" /\ q.flags = {}
      /\ q.length = MaxLen /\ q.nread = P.nread /\ q.errno = "OK"
  BY <1>1, PIs, NewHeadersIs
<1>4. \/ Notify("message_begin", [q EXCEPT !.state = "s_res_H"])
      \/ Notify("message_begin", q)
      \/ Fail(q)
  BY DEF StartRes
<1> HIDE DEF q
<1>5. "message_begin" \in Notifications
  BY DEF Notifications
<1>6. CASE Notify("message_begin", [q EXCEPT !.state = "s_res_H"])
  <2> DEFINE p == [q EXCEPT !.state = "s_res_H"]
             o == NewOrder("message_begin", p)
  <2>1. "s_res_H" \in States \intersect BegunStates
    BY Kinds DEF BegunStates
  <2>2. /\ p \in ParserRecords /\ p.state = "s_res_H" /\ p.flags = {}
        /\ p.length = MaxLen /\ p.nread = P.nread /\ p.errno = "OK"
    BY <1>3, <2>1, WithState
  <2> HIDE DEF p
  <2>3. p.state \in PlainStates \intersect NoMarkStates /\ p.state \in BegunStates
    BY <2>1, <2>2, Kinds
  <2>4. o.last = "message_begin" /\ ~o.chunk /\ ~o.final
    BY <1>2, <1>5, NewOrderIs DEF ParserInv
  <2>5. Sound(p, o)
    BY <1>1, <2>2, <2>3, <2>4, BegunOrder, PlainFields DEF InLine, Sound, Counting
  <2>6. Notify("message_begin", p)
    BY <1>6 DEF p
  <2> QED
    BY <1>1, <1>2, <1>5, <2>3, <2>5, <2>6, NotifyAt
<1>7. CASE Notify("message_begin", q)
  <2> DEFINE o == NewOrder("message_begin", q)
  <2>1. o.last = "message_begin" /\ ~o.chunk /\ ~o.final
    BY <1>2, <1>5, NewOrderIs DEF ParserInv
  <2>2. Sound(q, o)
    BY <1>1, <1>3, <2>1, StartResOrder, PlainFields, Kinds DEF Sound, Counting
  <2> QED
    BY <1>1, <1>2, <1>3, <1>5, <1>7, <2>2, NotifyAt DEF BetweenStates
<1>8. CASE Fail(q)
  BY <1>1, <1>3, <1>8, FailTo, Kinds, LimitsAssumption
<1> QED
  BY <1>4, <1>6, <1>7, <1>8

\* The states after on_message_begin and before the URL or the status.
LEMMA BegunAt ==
  ASSUME ParserInv, NEW s \in BegunStates, NEW b, At(s, b)
  PROVE  /\ InLine(parser, order) /\ order.last = "message_begin"
         /\ s \in BetweenStates
<1>1. parser.state = s /\ InOrder(parser, order)
  BY AtIs DEF At
<1>2. s # "s_chunk_data_almost_done"
  BY DEF BegunStates
<1> QED
  BY <1>1, <1>2, BegunOrder, Kinds DEF BetweenStates

\* States one of which may lead to the other without a callback.
Follow(s, t) ==
  \/ \E G \in {BegunStates, UrlToldStates, FieldToldStates, ValueToldStates} :
       s \in G /\ t \in G
  \/ s \in UrlToldStates \union {"s_res_line_almost_done"} /\ t = "s_header_field_start"
  \/ s = "s_dead" /\ t = "s_dead"

LEMMA MoveStep ==
  ASSUME ParserInv, NEW s, NEW b, At(s, b), due' = due,
         NEW p \in ParserRecords, p.errno = "OK", p.nread = P.nread,
         p.length = parser.length, p.flags = parser.flags, Follow(s, p.state),
         NEW c, Break(p) \/ Again(p, c)
  PROVE  StepOK
<1>1. parser.state = s /\ InOrder(parser, order)
  BY AtIs DEF At
<1>2. InOrder(p, order)
  <2>1. CASE s \in BegunStates /\ p.state \in BegunStates
    BY <1>1, <2>1, BegunOrder DEF InLine
  <2>2. CASE s \in UrlToldStates /\ p.state \in UrlToldStates
    BY <1>1, <2>2, UrlToldOrder DEF InLine
  <2>3. CASE s \in FieldToldStates /\ p.state \in FieldToldStates
    BY <1>1, <2>3, FieldToldOrder DEF InHeader
  <2>4. CASE s \in ValueToldStates /\ p.state \in ValueToldStates
    BY <1>1, <2>4, ValueToldOrder DEF InHeader
  <2>5. CASE /\ s \in UrlToldStates \union {"s_res_line_almost_done"}
             /\ p.state = "s_header_field_start"
    <3>1. InLine(parser, order) /\ order.last \in {"url", "status"}
      BY <1>1, <2>5, UrlToldOrder, StatusToldOrder
    <3> QED
      BY <2>5, <3>1, FieldStartOrder DEF InLine, InHeader, BeforeHeaders
  <2>6. CASE s = "s_dead" /\ p.state = "s_dead"
    BY <2>6, DeadOrder
  <2> QED
    BY <2>1, <2>2, <2>3, <2>4, <2>5, <2>6 DEF Follow
<1>3. p.state \in PlainStates \intersect NoMarkStates
  BY Kinds DEF Follow
<1>4. s \in BetweenStates
  <2>1. s \in NoMarkStates
    BY Kinds DEF Follow
  <2>2. s # "s_chunk_data_almost_done"
    BY DEF Follow, BegunStates, UrlToldStates, FieldToldStates, ValueToldStates
  <2> QED
    BY <2>1, <2>2 DEF BetweenStates
<1>5. Sound(p, order)
  BY <1>2, <1>3, AtIs, PlainFields DEF Sound, Counting
<1> QED
  BY <1>3, <1>4, <1>5, BreakAt, AgainAt

LEMMA VersionStep ==
  ASSUME ParserInv, NEW s, NEW b, At(s, b), due' = due, s \in PlainStates,
         NEW t, Follow(s, t), t \in States, NEW p \in ParserRecords, p.state = s,
         p.errno = "OK", p.nread = P.nread, p.length = parser.length,
         p.flags = parser.flags, Version(t, p, b)
  PROVE  StepOK
<1>1. CASE Fail(p)
  BY <1>1, AtIs, FailTo
<1>2. CASE Break([p EXCEPT !.state = t, !.old = b = "TTP/1.0"])
  <2> DEFINE q == [p EXCEPT !.state = t, !.old = b = "TTP/1.0"]
  <2>1. /\ q \in ParserRecords /\ q.state = t /\ q.errno = p.errno /\ q.nread = p.nread
        /\ q.length = p.length /\ q.flags = p.flags
    BY DEF ParserRecords
  <2> HIDE DEF q
  <2>2. Break(q)
    BY <1>2 DEF q
  <2> QED
    BY <2>1, <2>2, MoveStep
<1> QED
  BY <1>1, <1>2 DEF Version

LEMMA ResOrReqHStep ==
  ASSUME ParserInv, NEW b, ResOrReqH(b)
  PROVE  StepOK
<1> DEFINE s == "s_res_or_resp_H"
<1>1. At(s, b) /\ due' = due
  BY DEF ResOrReqH
<1>2. /\ s \in PlainStates /\ {"s_req_method", "s_res_http_end"} \subseteq States
      /\ Follow(s, "s_req_method") /\ Follow(s, "s_res_http_end")
  BY Kinds DEF Follow, BegunStates
<1>3. CASE Break([To("s_req_method") EXCEPT !.type = "REQUEST", !.method = "HEAD"])
  <2> DEFINE q == To("s_req_method")
             p == [q EXCEPT !.type = "REQUEST", !.method = "HEAD"]
  <2>1. /\ q \in ParserRecords /\ q.state = "s_req_method" /\ q.errno = "OK"
        /\ q.nread = P.nread /\ q.length = parser.length /\ q.flags = parser.flags
    BY <1>1, <1>2, ToIs
  <2> HIDE DEF q
  <2>2. /\ p \in ParserRecords /\ p.state = "s_req_method" /\ p.errno = "OK"
        /\ p.nread = P.nread /\ p.length = parser.length /\ p.flags = parser.flags
    BY <2>1 DEF ParserRecords
  <2>3. Break(p)
    BY <1>3 DEF q
  <2> HIDE DEF p
  <2> QED
    BY <1>1, <1>2, <2>2, <2>3, MoveStep
<1>4. CASE Version("s_res_http_end", [P EXCEPT !.type = "RESPONSE"], b)
  <2> DEFINE p == [P EXCEPT !.type = "RESPONSE"]
  <2>1. /\ p \in ParserRecords /\ p.state = s /\ p.errno = "OK"
        /\ p.nread = P.nread /\ p.length = parser.length /\ p.flags = parser.flags
    BY <1>1, PIs DEF ParserRecords
  <2>2. Version("s_res_http_end", p, b)
    BY <1>4
  <2> HIDE DEF p
  <2> QED
    BY <1>1, <1>2, <2>1, <2>2, VersionStep
<1> QED
  BY <1>3, <1>4 DEF ResOrReqH

LEMMA VersionsStep ==
  ASSUME ParserInv, NEW b, ResVersion(b) \/ ReqVersion(b)
  PROVE  StepOK
<1>1. CASE ResVersion(b)
  <2>1. /\ At("s_res_H", b) /\ due' = due /\ Version("s_res_http_end", P, b)
    BY <1>1 DEF ResVersion
  <2>2. /\ "s_res_H" \in PlainStates /\ "s_res_http_end" \in States
        /\ Follow("s_res_H", "s_res_http_end")
    BY Kinds DEF Follow, BegunStates
  <2> QED
    BY <2>1, <2>2, PIs, VersionStep
<1>2. CASE ReqVersion(b)
  <2>1. /\ At("s_req_http_H", b) /\ due' = due /\ Version("s_req_http_end", P, b)
    BY <1>2 DEF ReqVersion
  <2>2. /\ "s_req_http_H" \in PlainStates /\ "s_req_http_end" \in States
        /\ Follow("s_req_http_H", "s_req_http_end")
    BY Kinds DEF Follow, UrlToldStates
  <2> QED
    BY <2>1, <2>2, PIs, VersionStep
<1> QED
  BY <1>1, <1>2

LEMMA FirstStatusCodeStep ==
  ASSUME ParserInv, NEW b, FirstStatusCode(b)
  PROVE  StepOK
<1> DEFINE s == "s_res_first_status_code"
<1>1. At(s, b) /\ due' = due
  BY DEF FirstStatusCode
<1>2. "s_res_status_code" \in States /\ Follow(s, s) /\ Follow(s, "s_res_status_code")
  BY Kinds DEF Follow, BegunStates
<1>3. CASE Break(P)
  BY <1>1, <1>2, <1>3, PIs, MoveStep
<1>4. CASE /\ b \in StatusWords
           /\ Break([To("s_res_status_code") EXCEPT !.status = b])
  <2> DEFINE q == To("s_res_status_code")
             p == [q EXCEPT !.status = b]
  <2>1. /\ q \in ParserRecords /\ q.state = "s_res_status_code" /\ q.errno = "OK"
        /\ q.nread = P.nread /\ q.length = parser.length /\ q.flags = parser.flags
    BY <1>1, <1>2, ToIs
  <2> HIDE DEF q
  <2>2. /\ p \in ParserRecords /\ p.state = "s_res_status_code" /\ p.errno = "OK"
        /\ p.nread = P.nread /\ p.length = parser.length /\ p.flags = parser.flags
    BY <1>4, <2>1 DEF ParserRecords
  <2>3. Break(p)
    BY <1>4 DEF q
  <2> HIDE DEF p
  <2> QED
    BY <1>1, <1>2, <2>2, <2>3, MoveStep
<1>5. CASE Fail(P)
  BY <1>1, <1>5, FailHere
<1> QED
  BY <1>3, <1>4, <1>5 DEF FirstStatusCode

LEMMA StatusCodeStep ==
  ASSUME ParserInv, NEW b, StatusCode(b)
  PROVE  StepOK
<1>1. At("s_res_status_code", b) /\ due' = due
  BY DEF StatusCode
<1>2. "s_res_status_start" \in States /\ Follow("s_res_status_code", "s_res_status_start")
  BY Kinds DEF Follow, BegunStates
<1>3. \/ Break(To("s_res_status_start")) \/ Again(To("s_res_status_start"), b)
      \/ Fail(P)
  BY DEF StatusCode
<1> QED
  BY <1>1, <1>2, <1>3, ToIs, MoveStep, FailHere

LEMMA StatusStartStep ==
  ASSUME ParserInv, NEW b, StatusStart(b)
  PROVE  StepOK
<1> DEFINE p == To("s_res_status")
<1>1. At("s_res_status_start", b) /\ due' = due
  BY DEF StatusStart
<1>2. /\ "s_res_status_start" \in BetweenStates \intersect BegunStates
      /\ "s_res_status" \in States /\ "s_res_status" \in PlainStates
      /\ "status" \in Pieces
  BY Kinds DEF BetweenStates, BegunStates, Pieces
<1>3. /\ p \in ParserRecords /\ p.state = "s_res_status" /\ p.flags = parser.flags
      /\ MarkSet(p.state) = {"status"}
  BY <1>1, <1>2, ToIs, MarkSetIs
<1>4. Sound(p, order)
  <2>1. InLine(parser, order) /\ order.last = "message_begin"
    <3>1. parser.state = "s_res_status_start" /\ InOrder(parser, order)
      BY <1>1, AtIs DEF At
    <3> QED
      BY <1>2, <3>1, BegunOrder
  <2>2. InOrder(p, order)
    BY <1>3, <2>1, StatusOrder DEF InLine
  <2> QED
    BY <1>1, <1>2, <2>2, ToIsSound
<1>5. CASE Take(p, Marked("status"), 1)
  BY <1>1, <1>2, <1>3, <1>4, <1>5, MarkAt
<1>6. CASE Quiet(p, 0) /\ Goes("more", b, Marked("status"))
  <2> DEFINE m == Marked("status")
  <2>1. InCall /\ DOMAIN mark = {} /\ run = 0 /\ owed = 0
    BY <1>1, <1>2, AtIs, Between DEF BetweenStates
  <2>2. m \in [DOMAIN m -> Nat] /\ DOMAIN m = {"status"} /\ m["status"] = 0
    BY <1>2, <2>1, MarkedIs DEF ParserInv
  <2>3. Quiet(p, 0) /\ Goes("more", b, m)
    BY <1>6
  <2> HIDE DEF m, p
  <2>4. /\ MarksFit("more", p.state, m) /\ Owes(m, owed + 0)
        /\ DOMAIN m \subseteq Pieces
    BY <1>2, <1>3, <2>1, <2>2 DEF MarksFit, Owes
  <2>5. Fits(p, order, due') /\ due' \in Nat /\ CountsUp(p)
    BY <1>1, <1>4, <2>1, SoundFits
  <2> QED
    BY <2>1, <2>3, <2>4, <2>5, QuietStep
<1> QED
  BY <1>5, <1>6 DEF StatusStart

\* The states in which bytes are of a part without an inner loop.
LEMMA InPiece ==
  ASSUME ParserInv, NEW s \in UrlStates \union {"s_res_status"}, NEW b, At(s, b)
  PROVE  /\ InCall /\ run = 0 /\ DOMAIN mark = MarkSet(s) /\ InLine(parser, order)
         /\ s \in UrlStates => /\ MarkSet(s) = {"url"} /\ MayCall("url")
                               /\ order.last \in {"message_begin", "url"}
         /\ s = "s_res_status" => /\ MarkSet(s) = {"status"} /\ MayCall("status")
                                  /\ order.last \in {"message_begin", "status"}
<1>1. parser.state = s /\ InOrder(parser, order)
  BY AtIs DEF At
<1>2. s \notin {"s_header_field", "s_header_value"}
  BY DEF UrlStates
<1>3. InLine(parser, order)
  BY <1>1, StatusOrder, UrlOrder
<1>4. /\ s \in UrlStates => order.last \in {"message_begin", "url"}
      /\ s = "s_res_status" => order.last \in {"message_begin", "status"}
  BY <1>1, StatusOrder, UrlOrder
<1>5. InCall /\ run = 0 /\ DOMAIN mark = MarkSet(s)
  BY <1>2, AtIs, Kinds
<1>6. ~order.final
  BY <1>3 DEF InLine
<1> QED
  BY <1>3, <1>4, <1>5, <1>6, MarkSetIs, MayCallIs

\* Its callback, behind it: url or status.
LEMMA LineDataStep ==
  ASSUME ParserInv, NEW s \in UrlStates \union {"s_res_status"}, NEW b, At(s, b),
         due' = due, NEW k, k = IF s = "s_res_status" THEN "status" ELSE "url",
         NEW p \in ParserRecords, p.errno = "OK", p.nread = P.nread,
         p.length = parser.length, p.flags = parser.flags,
         \/ p.state = "s_header_field_start"
         \/ p.state = "s_res_line_almost_done" /\ k = "status"
         \/ p.state \in UrlToldStates /\ k = "url",
         Data(k, p)
  PROVE  StepOK
<1> DEFINE o == NewOrder(k, p)
<1>1. /\ InCall /\ run = 0 /\ DOMAIN mark = {k} /\ MayCall(k) /\ k \in Pieces
      /\ InLine(parser, order)
  <2>1. s \in UrlStates => s # "s_res_status"
    BY DEF UrlStates
  <2> QED
    BY <2>1, InPiece DEF Pieces
<1>2. o.last = k /\ ~o.chunk /\ ~o.final
  <2>1. k \notin {"chunk_header", "chunk_complete", "message_begin", "message_complete"}
    BY <1>1 DEF Pieces
  <2> QED
    BY <1>1, <2>1, OtherOrder DEF ParserInv, InLine
<1>3. p.state \in PlainStates \intersect NoMarkStates
  BY Kinds
<1>4. InOrder(p, o)
  <2>1. CASE p.state = "s_header_field_start"
    BY <1>1, <1>2, <2>1, FieldStartOrder DEF InLine, InHeader, BeforeHeaders
  <2>2. CASE p.state = "s_res_line_almost_done" /\ k = "status"
    BY <1>1, <1>2, <2>2, StatusToldOrder DEF InLine
  <2>3. CASE p.state \in UrlToldStates /\ k = "url"
    BY <1>1, <1>2, <2>3, UrlToldOrder DEF InLine
  <2> QED
    BY <2>1, <2>2, <2>3
<1>5. Sound(p, o)
  BY <1>3, <1>4, AtIs, PlainFields DEF Sound, Counting
<1> QED
  BY <1>1, <1>3, <1>5, SoundFits, DataStep

LEMMA StatusStep ==
  ASSUME ParserInv, NEW b, Status(b)
  PROVE  StepOK
<1>1. At("s_res_status", b) /\ due' = due
  BY DEF Status
<1>2. {"s_res_line_almost_done", "s_header_field_start"} \subseteq States
  BY Kinds
<1>3. CASE \/ Data("status", To("s_res_line_almost_done"))
           \/ Data("status", To("s_header_field_start"))
  BY <1>1, <1>2, <1>3, ToIs, LineDataStep
<1>4. CASE Take(P, mark, 1)
  <2>1. Sound(P, order) /\ P.state = "s_res_status"
    BY <1>1, SameIsSound, PIs
  <2>2. /\ InCall /\ run = 0 /\ DOMAIN mark = {"status"} /\ MarkSet(P.state) = {"status"}
        /\ "status" \in Pieces
    BY <1>1, <2>1, InPiece DEF Pieces
  <2> QED
    BY <1>1, <1>4, <2>1, <2>2, SoundFits, KeepStep
<1> QED
  BY <1>3, <1>4 DEF Status

\* What parse_url_char makes of a byte that its state takes, and of any byte.
LEMMA ServerMovesIs ==
  ASSUME NEW b \in DOMAIN ServerMoves
  PROVE  ServerMoves[b] \in UrlStates
<1>1. CASE b = "/"
  BY <1>1 DEF ServerMoves, UrlStates
<1>2. CASE b = "?"
  BY <1>2 DEF ServerMoves, UrlStates
<1>3. CASE b = "@"
  BY <1>3 DEF ServerMoves, UrlStates
<1>4. CASE b \notin {"/", "?", "@"}
  BY <1>4 DEF ServerMoves, UrlStates
<1> QED
  BY <1>1, <1>2, <1>3, <1>4

LEMMA UrlMovesIs ==
  ASSUME NEW s \in UrlStates \union {"s_req_spaces_before_url"},
         NEW b \in DOMAIN UrlMoves[s]
  PROVE  UrlMoves[s][b] \in UrlStates
<1>1. CASE s = "s_req_spaces_before_url"
  <2>1. UrlMoves[s] = [c \in {"/", "*"} \union Alpha |->
                         IF c \in Alpha THEN "s_req_schema" ELSE "s_req_path"]
    BY <1>1, Zenon DEF UrlMoves, UrlStates
  <2> QED
    BY <2>1 DEF UrlStates
<1>2. CASE s = "s_req_schema"
  <2>1. UrlMoves[s] = [c \in Alpha \union {":"} |->
                         IF c = ":" THEN "s_req_schema_slash" ELSE s]
    BY <1>2, Zenon DEF UrlMoves, UrlStates
  <2> QED
    BY <1>2, <2>1 DEF UrlStates
<1>3. CASE s = "s_req_schema_slash"
  <2>1. UrlMoves[s] = [c \in {"/"} |-> "s_req_schema_slash_slash"]
    BY <1>3, Zenon DEF UrlMoves, UrlStates
  <2> QED
    BY <2>1 DEF UrlStates
<1>4. CASE s = "s_req_schema_slash_slash"
  <2>1. UrlMoves[s] = [c \in {"/"} |-> "s_req_server_start"]
    BY <1>4, Zenon DEF UrlMoves, UrlStates
  <2> QED
    BY <2>1 DEF UrlStates
<1>5. CASE s \in {"s_req_server_start", "s_req_server"}
  <2>1. UrlMoves[s] = ServerMoves
    BY <1>5, Zenon DEF UrlMoves, UrlStates
  <2> QED
    BY <2>1, ServerMovesIs
<1>6. CASE s = "s_req_server_with_at"
  <2>1. UrlMoves[s] = [c \in DOMAIN ServerMoves \ {"@"} |-> ServerMoves[c]]
    BY <1>6, Zenon DEF UrlMoves, UrlStates
  <2> QED
    BY <2>1, ServerMovesIs
<1>7. CASE s = "s_req_path"
  <2>1. UrlMoves[s] = [c \in UrlByte \union {"?", "#"} |->
                         CASE c = "?" -> "s_req_query_string_start"
                           [] c = "#" -> "s_req_fragment_start"
                           [] OTHER   -> s]
    BY <1>7, Zenon DEF UrlMoves, UrlStates
  <2>2. CASE b = "?"
    BY <2>1, <2>2 DEF UrlStates
  <2>3. CASE b = "#"
    BY <2>1, <2>3 DEF UrlStates
  <2>4. CASE b \notin {"?", "#"}
    BY <1>7, <2>1, <2>4 DEF UrlStates
  <2> QED
    BY <2>2, <2>3, <2>4
<1>8. CASE s \in {"s_req_query_string_start", "s_req_query_string"}
  <2>1. UrlMoves[s] = [c \in UrlByte \union {"?", "#"} |->
                         IF c = "#" THEN "s_req_fragment_start" ELSE "s_req_query_string"]
    BY <1>8, Zenon DEF UrlMoves, UrlStates
  <2> QED
    BY <2>1 DEF UrlStates
<1>9. CASE s = "s_req_fragment_start"
  <2>1. UrlMoves[s] = [c \in UrlByte \union {"?", "#"} |->
                         IF c = "#" THEN s ELSE "s_req_fragment"]
    BY <1>9, Zenon DEF UrlMoves, UrlStates
  <2> QED
    BY <1>9, <2>1 DEF UrlStates
<1>10. CASE s = "s_req_fragment"
  <2>1. UrlMoves[s] = [c \in UrlByte \union {"?", "#"} |-> s]
    BY <1>10, Zenon DEF UrlMoves, UrlStates
  <2> QED
    BY <1>10, <2>1 DEF UrlStates
<1> QED
  BY <1>1, <1>2, <1>3, <1>4, <1>5, <1>6, <1>7, <1>8, <1>9, <1>10 DEF UrlStates

LEMMA UrlCharIs ==
  ASSUME NEW s \in UrlStates \union {"s_req_spaces_before_url"}, NEW b
  PROVE  parse_url_char(s, b) \in UrlStates \union {"s_dead"}
BY UrlMovesIs DEF parse_url_char

LEMMA SpacesBeforeUrlStep ==
  ASSUME ParserInv, NEW b, SpacesBeforeUrl(b)
  PROVE  StepOK
<1> DEFINE s == "s_req_spaces_before_url"
           t == parse_url_char(IF parser.method = "CONNECT"
                               THEN "s_req_server_start" ELSE parser.state, b)
<1>1. At(s, b) /\ due' = due /\ parser.state = s
  BY DEF SpacesBeforeUrl, At
<1>2. s \in BetweenStates \intersect BegunStates /\ "url" \in Pieces
  BY Kinds DEF BetweenStates, BegunStates, Pieces
<1>3. CASE Break(P)
  BY <1>1, <1>2, <1>3, PIs, MoveStep DEF Follow
<1>4. CASE UrlTo(t, Marked("url"))
  <2>1. t \in UrlStates \union {"s_dead"}
    <3>1. "s_req_server_start" \in UrlStates
      BY DEF UrlStates
    <3> QED
      BY <1>1, <3>1, UrlCharIs
  <2> HIDE DEF t
  <2>2. CASE Fail(P)
    BY <1>1, <2>2, FailHere
  <2>3. CASE t \in UrlStates /\ Take(To(t), Marked("url"), 1)
    <3>1. /\ To(t) \in ParserRecords /\ To(t).state = t /\ To(t).flags = parser.flags
          /\ MarkSet(To(t).state) = {"url"} /\ t \in PlainStates \intersect States
      BY <1>1, <2>3, ToIs, MarkSetIs, Kinds
    <3>2. InOrder(To(t), order)
      <4>1. InLine(parser, order) /\ order.last = "message_begin"
        BY <1>1, <1>2, AtIs, BegunOrder
      <4> QED
        BY <2>3, <3>1, <4>1, UrlOrder DEF InLine
    <3> QED
      BY <1>1, <1>2, <2>3, <3>1, <3>2, ToIsSound, MarkAt
  <2> QED
    BY <1>4, <2>1, <2>2, <2>3 DEF UrlTo
<1> QED
  BY <1>3, <1>4 DEF SpacesBeforeUrl

LEMMA UrlStep ==
  ASSUME ParserInv, NEW s \in UrlStates, NEW b, Url(s, b)
  PROVE  StepOK
<1> DEFINE t == parse_url_char(s, b)
<1>1. At(s, b) /\ due' = due /\ "url" \in Pieces /\ s # "s_res_status"
  BY DEF Url, Pieces, UrlStates
<1>2. /\ InCall /\ run = 0 /\ DOMAIN mark = {"url"} /\ InLine(parser, order)
      /\ order.last \in {"message_begin", "url"}
  BY <1>1, InPiece
<1>3. CASE UrlTo(t, mark)
  <2>1. t \in UrlStates \union {"s_dead"}
    BY UrlCharIs
  <2> HIDE DEF t
  <2>2. CASE Fail(P)
    BY <1>1, <2>2, FailHere
  <2>3. CASE t \in UrlStates /\ Take(To(t), mark, 1)
    <3>1. /\ To(t) \in ParserRecords /\ To(t).state = t /\ To(t).flags = parser.flags
          /\ MarkSet(To(t).state) = {"url"} /\ t \in PlainStates \intersect States
      BY <1>1, <2>3, ToIs, MarkSetIs, Kinds
    <3>2. InOrder(To(t), order)
      BY <1>2, <2>3, <3>1, UrlOrder DEF InLine
    <3>3. Fits(To(t), order, due') /\ due' \in Nat /\ CountsUp(To(t))
      BY <1>1, <1>2, <3>1, <3>2, ToIsSound, SoundFits
    <3> QED
      BY <1>1, <1>2, <2>3, <3>1, <3>3, KeepStep
  <2> QED
    BY <1>3, <2>1, <2>2, <2>3 DEF UrlTo
<1>4. CASE Fail(P)
  BY <1>1, <1>4, FailHere
<1>5. CASE Data("url", To("s_req_http_start"))
  <2>1. "s_req_http_start" \in States /\ "s_req_http_start" \in UrlToldStates
    BY Kinds DEF UrlToldStates
  <2> QED
    BY <1>1, <1>5, <2>1, ToIs, LineDataStep
<1>6. CASE /\ b \in NewLine
           /\ Data("url", [To(ExpectMoves.s_req_http_end[b]) EXCEPT !.old = TRUE])
  <2> DEFINE u == ExpectMoves.s_req_http_end[b]
             q == To(u)
             p == [q EXCEPT !.old = TRUE]
  <2>1. u \in {"s_req_line_almost_done", "s_header_field_start"}
    BY <1>6 DEF ExpectMoves
  <2>2. u \in States /\ u \in UrlToldStates \union {"s_header_field_start"}
    BY <2>1, Kinds DEF UrlToldStates
  <2> HIDE DEF u
  <2>3. /\ q \in ParserRecords /\ q.state = u /\ q.flags = parser.flags
        /\ q.errno = "OK" /\ q.nread = P.nread /\ q.length = parser.length
    BY <1>1, <2>2, ToIs
  <2> HIDE DEF q
  <2>4. /\ p \in ParserRecords /\ p.state = u /\ p.flags = parser.flags
        /\ p.errno = "OK" /\ p.nread = P.nread /\ p.length = parser.length
    BY <2>3 DEF ParserRecords
  <2>5. Data("url", p)
    BY <1>6 DEF q, u
  <2> HIDE DEF p
  <2> QED
    BY <1>1, <2>2, <2>4, <2>5, LineDataStep
<1> QED
  BY <1>3, <1>4, <1>5, <1>6 DEF Url

LEMMA ExpectMovesIs ==
  ASSUME NEW s \in DOMAIN ExpectMoves, NEW b \in DOMAIN ExpectMoves[s]
  PROVE  ExpectMoves[s][b] \in States /\ Follow(s, ExpectMoves[s][b])
BY Kinds DEF ExpectMoves, Only, Follow, BegunStates, UrlToldStates, FieldToldStates,
             ValueToldStates, NewLine

LEMMA ExpectStep ==
  ASSUME ParserInv, NEW s \in DOMAIN ExpectMoves, NEW b, Expect(s, b)
  PROVE  StepOK
<1>1. At(s, b) /\ due' = due
  BY DEF Expect
<1>2. CASE b \in DOMAIN ExpectMoves[s] /\ Break(To(ExpectMoves[s][b]))
  BY <1>1, <1>2, ExpectMovesIs, ToIs, MoveStep
<1>3. CASE Fail(P)
  BY <1>1, <1>3, FailHere
<1> QED
  BY <1>2, <1>3 DEF Expect

LEMMA FirstLineStep ==
  ASSUME ParserInv, NEW b, FirstLine(b)
  PROVE  StepOK
BY StartReqOrResStep, StartResStep, StartReqStep, ResOrReqHStep, VersionsStep,
   FirstStatusCodeStep, StatusCodeStep, StatusStartStep, StatusStep, SpacesBeforeUrlStep,
   UrlStep, ExpectStep DEF FirstLine

-----------------------------------------------------------------------------
(* Header fields and their values *)

\* The count at the end of an inner loop.
LEMMA CountedIs ==
  ASSUME ParserInv, NEW s, NEW b, At(s, b), NEW q \in ParserRecords, q.nread = P.nread
  PROVE  LET p == Counted(q) IN
         /\ p \in ParserRecords /\ p.nread = P.nread + run /\ p.state = q.state
         /\ p.flags = q.flags /\ p.hs = q.hs /\ p.length = q.length
         /\ p.upgrade = q.upgrade /\ p.errno = q.errno
         /\ CountsUp(p)
         /\ ~TooLong(P, run) => p.nread <= MaxHeader
<1> DEFINE p == Counted(q)
<1>1. run \in Nat /\ parser.nread \in Nat /\ P.nread \in Nat
  BY PIs DEF ParserInv, VarTypes, ParserRecords
<1>2. /\ p \in ParserRecords /\ p.nread = P.nread + run /\ p.state = q.state
      /\ p.flags = q.flags /\ p.hs = q.hs /\ p.length = q.length
      /\ p.upgrade = q.upgrade /\ p.errno = q.errno
  BY <1>1 DEF ParserRecords, Counted
<1> HIDE DEF p
<1>3. P.nread = (IF Counts THEN parser.nread + 1 ELSE parser.nread)
  BY PIs
<1>4. CountsUp(p)
  BY <1>1, <1>2, <1>3 DEF CountsUp, Counts, HeaderCount
<1>5. ~TooLong(P, run) => p.nread <= MaxHeader
  BY <1>1, <1>2, LimitsAssumption DEF TooLong
<1> QED
  BY <1>2, <1>4, <1>5 DEF p

LEMMA FieldStateIs ==
  ASSUME NEW b
  PROVE  FieldState(b) \in ValueStates
BY DEF FieldState, ValueStates

LEMMA FieldStartStep ==
  ASSUME ParserInv, NEW b, FieldStart(b)
  PROVE  StepOK
<1> DEFINE s == "s_header_field_start"
<1>1. At(s, b) /\ due' = due /\ s \in BetweenStates
  BY Kinds DEF FieldStart, BetweenStates
<1>2. InHeader(parser, order) /\ order.last \in BeforeHeaders(order.chunk)
  <2>1. parser.state = s /\ InOrder(parser, order)
    BY <1>1, AtIs DEF At
  <2> QED
    BY <2>1, FieldStartOrder
<1>3. CASE \/ Break(To("s_headers_almost_done"))
           \/ Again(To("s_headers_almost_done"), b)
  <2>1. "s_headers_almost_done" \in PlainStates \intersect NoMarkStates \intersect States
    BY Kinds
  <2>2. To("s_headers_almost_done").state = "s_headers_almost_done"
        /\ To("s_headers_almost_done").flags = parser.flags
    BY <1>1, <2>1, ToIs
  <2>3. Sound(To("s_headers_almost_done"), order)
    BY <1>1, <1>2, <2>1, <2>2, FieldStartOrder, ToIsSound DEF InHeader
  <2> QED
    BY <1>1, <1>3, <2>1, <2>2, <2>3, BreakAt, AgainAt
<1>4. CASE Take([To("s_header_field") EXCEPT !.hs = FieldState(b)], Marked("header_field"), 1)
  <2> DEFINE q == To("s_header_field")
             p == [q EXCEPT !.hs = FieldState(b)]
  <2>1. "s_header_field" \in PlainStates \intersect States /\ "header_field" \in Pieces
    BY Kinds DEF Pieces
  <2>2. /\ q \in ParserRecords /\ q.state = "s_header_field" /\ q.flags = parser.flags
        /\ q.errno = "OK" /\ q.nread = P.nread /\ q.length = parser.length
    BY <1>1, <2>1, ToIs
  <2> HIDE DEF q
  <2>3. /\ p \in ParserRecords /\ p.state = "s_header_field" /\ p.flags = parser.flags
        /\ p.errno = "OK" /\ p.nread = P.nread /\ p.length = parser.length
    BY <2>2, FieldStateIs DEF ParserRecords
  <2>4. Take(p, Marked("header_field"), 1)
    BY <1>4 DEF q
  <2> HIDE DEF p
  <2>5. Sound(p, order)
    BY <1>1, <1>2, <2>1, <2>3, AtIs, FieldOrder, PlainFields DEF Sound, Counting, InHeader
  <2> QED
    BY <1>1, <2>1, <2>3, <2>4, <2>5, MarkSetIs, MarkAt
<1>5. CASE Fail(P)
  BY <1>1, <1>5, FailHere
<1> QED
  BY <1>3, <1>4, <1>5 DEF FieldStart

\* The states with an inner loop.
LEMMA InHeaderPiece ==
  ASSUME ParserInv, NEW s \in {"s_header_field", "s_header_value"}, NEW b, At(s, b)
  PROVE  /\ InCall /\ InHeader(parser, order)
         /\ s = "s_header_field" => DOMAIN mark = {"header_field"} /\ MayCall("header_field")
         /\ s = "s_header_value" => DOMAIN mark = {"header_value"} /\ MayCall("header_value")
         /\ mark \in [DOMAIN mark -> Nat] /\ \A k \in DOMAIN mark : mark[k] = owed
<1>1. parser.state = s /\ InOrder(parser, order) /\ InCall /\ Ok
  BY AtIs DEF At
<1>2. InHeader(parser, order)
  BY <1>1, FieldOrder, ValueOrder
<1>3. DOMAIN mark = MarkSet(s)
  BY AtIs, Kinds
<1>4. mark \in [DOMAIN mark -> Nat] /\ \A k \in DOMAIN mark : mark[k] = owed
  BY <1>1 DEF ParserInv, VarTypes, Marks, Owes
<1>5. ~order.final
  BY <1>2 DEF InHeader
<1>6. s = "s_header_field" => MayCall("header_field")
  BY <1>1, <1>5, FieldOrder, MayCallIs DEF BeforeHeaders
<1>7. s = "s_header_value" => MayCall("header_value")
  BY <1>1, <1>5, ValueOrder, MayCallIs
<1> QED
  BY <1>1, <1>2, <1>3, <1>4, <1>6, <1>7, MarkSetIs

LEMMA FieldStep ==
  ASSUME ParserInv, NEW b, Field(b)
  PROVE  StepOK
<1> DEFINE s == "s_header_field"
<1>1. At(s, b) /\ due' = due /\ parser.state = s
  BY DEF Field, At
<1>2. CASE InLoop([P EXCEPT !.hs = "h_general"], FALSE)
  <2> DEFINE p == [P EXCEPT !.hs = "h_general"]
  <2>1. /\ p \in ParserRecords /\ p.state = s /\ p.nread = P.nread /\ p.errno = "OK"
        /\ p.flags = parser.flags /\ p.length = parser.length
    BY <1>1, PIs DEF ParserRecords, ValueStates
  <2>2. InLoop(p, FALSE)
    BY <1>2
  <2> HIDE DEF p
  <2>3. Sound(p, order)
    BY <1>1, <2>1, AtIs, FieldOrder, PlainFields, Kinds DEF Sound, Counting, InHeader
  <2> QED
    BY <1>1, <2>1, <2>2, <2>3, SoundFits, InLoopStep
<1>3. CASE ~TooLong(P, run) /\ Data("header_field", Counted(To("s_header_value_discard_ws")))
  <2> DEFINE q == To("s_header_value_discard_ws")
             p == Counted(q)
             o == NewOrder("header_field", p)
  <2>1. /\ "s_header_value_discard_ws" \in FieldToldStates
        /\ "s_header_value_discard_ws" \in PlainStates \intersect NoMarkStates \intersect States
        /\ "header_field" \in Pieces
    BY Kinds DEF FieldToldStates, Pieces
  <2>2. /\ q \in ParserRecords /\ q.state = "s_header_value_discard_ws"
        /\ q.flags = parser.flags /\ q.errno = "OK" /\ q.nread = P.nread
        /\ q.length = parser.length
    BY <1>1, <2>1, ToIs
  <2> HIDE DEF q
  <2>3. /\ p \in ParserRecords /\ p.state = "s_header_value_discard_ws"
        /\ p.flags = parser.flags /\ p.errno = "OK" /\ p.nread <= MaxHeader
        /\ p.length = parser.length /\ CountsUp(p)
    BY <1>1, <1>3, <2>2, CountedIs
  <2>4. Data("header_field", p)
    BY <1>3 DEF q
  <2> HIDE DEF p
  <2>5. /\ InCall /\ InHeader(parser, order) /\ DOMAIN mark = {"header_field"}
        /\ MayCall("header_field")
    BY <1>1, InHeaderPiece
  <2>6. o.last = "header_field" /\ o.chunk = order.chunk /\ o.final = order.final
    BY <2>1, OtherOrder DEF ParserInv
  <2>7. InOrder(p, o)
    BY <2>1, <2>3, <2>5, <2>6, FieldToldOrder DEF InHeader
  <2>8. Fits(p, o, due') /\ due' \in Nat
    BY <1>1, <2>1, <2>3, <2>7, AtIs, PlainFields DEF Fits, Measures
  <2> QED
    BY <2>1, <2>3, <2>4, <2>5, <2>8, DataStep
<1>4. CASE Fail(P)
  BY <1>1, <1>4, FailHere
<1> QED
  BY <1>2, <1>3, <1>4 DEF Field

\* The values a record of the parser may go on with in s_header_value.
LEMMA ValueSound ==
  ASSUME ParserInv, NEW s \in FieldToldStates \union ValueToldStates \union {"s_header_value"},
         NEW b, At(s, b), NEW p \in ParserRecords, p.state = "s_header_value",
         p.errno = "OK", p.nread = P.nread, p.length = due',
         "TRAILING" \in p.flags <=> "TRAILING" \in parser.flags,
         p.hs \notin {"h_connection", "h_transfer_encoding"}
  PROVE  Sound(p, order)
<1>1. parser.state = s /\ InOrder(parser, order)
  BY AtIs DEF At
<1>2. InHeader(parser, order) /\ order.last \in {"header_field", "header_value"}
  BY <1>1, FieldToldOrder, ValueToldOrder, ValueOrder
<1>3. InOrder(p, order)
  BY <1>2, ValueOrder DEF InHeader
<1>4. Fields(p)
  BY DEF Fields, ChunkStates, SizeStates, InChunkStates
<1> QED
  BY <1>3, <1>4 DEF Sound, Counting

LEMMA MatchedIs ==
  ASSUME NEW w \in ConnectionWords
  PROVE  Matched(w) \in ValueStates \ {"h_connection", "h_transfer_encoding"}
<1>1. Matched("close") = "h_connection_close" /\ Matched("co") = "h_matching_connection_close"
  BY Zenon DEF Matched
<1>2. /\ Matched("keep-alive") = "h_connection_keep_alive"
      /\ Matched("upgrade") = "h_connection_upgrade"
  BY Zenon DEF Matched
<1> QED
  BY <1>1, <1>2 DEF ConnectionWords, ValueStates, Finished

LEMMA FlagIs ==
  ASSUME NEW hs
  PROVE  Flag(hs) \subseteq FlagNames \ {"TRAILING"}
BY DEF Flag, Finished, FlagNames

LEMMA DigitValueIs == \A d \in Digits : DigitValue[d] \in 0..9
<1>1. /\ DigitValue["0"] = 0 /\ DigitValue["1"] = 1 /\ DigitValue["2"] = 2
      /\ DigitValue["5"] = 5 /\ DigitValue["6"] = 6 /\ DigitValue["9"] = 9
  BY Zenon DEF DigitValue, Digits
<1> QED
  BY <1>1 DEF Digits

\* header_state behind the first byte of a value.
LEMMA FirstValueState ==
  ASSUME NEW hs \in ValueStates, NEW b
  PROVE  (CASE hs = "h_transfer_encoding" /\ b = "chunked" -> "h_transfer_encoding_chunked"
            [] hs = "h_connection" -> IF b \in ConnectionWords THEN Matched(b)
                                      ELSE "h_matching_connection_token"
            [] hs = "h_matching_connection_token_start" -> hs
            [] OTHER -> "h_general")
         \in ValueStates \ {"h_connection", "h_transfer_encoding"}
<1>1. {"h_transfer_encoding_chunked", "h_matching_connection_token", "h_general",
       "h_matching_connection_token_start"}
      \subseteq ValueStates \ {"h_connection", "h_transfer_encoding"}
  BY DEF ValueStates, Finished
<1>2. CASE hs = "h_transfer_encoding" /\ b = "chunked"
  BY <1>1, <1>2
<1>3. CASE hs = "h_connection"
  BY <1>1, <1>3, MatchedIs
<1>4. CASE hs = "h_matching_connection_token_start"
  BY <1>1, <1>4
<1>5. CASE /\ ~(hs = "h_transfer_encoding" /\ b = "chunked")
           /\ hs \notin {"h_connection", "h_matching_connection_token_start"}
  BY <1>1, <1>5
<1> QED
  BY <1>2, <1>3, <1>4, <1>5

LEMMA FirstOfValueStep ==
  ASSUME ParserInv, NEW s \in FieldToldStates \union ValueToldStates, NEW b, At(s, b),
         FirstOfValue(b)
  PROVE  StepOK
<1> DEFINE q == To("s_header_value")
           hs == parser.hs
<1>1. /\ q \in ParserRecords /\ q.state = "s_header_value" /\ q.flags = parser.flags
      /\ q.errno = "OK" /\ q.nread = P.nread /\ q.length = parser.length
      /\ q.hs = hs /\ hs \in ValueStates /\ parser.length = due
  <2>1. "s_header_value" \in States
    BY Kinds
  <2> QED
    BY <2>1, ToIs, AtIs DEF ParserRecords
<1>2. s \in BetweenStates /\ "header_value" \in Pieces
  BY Kinds DEF BetweenStates, FieldToldStates, ValueToldStates, Pieces
<1>3. MarkSet("s_header_value") = {"header_value"}
  BY MarkSetIs
<1>4. ASSUME NEW p \in ParserRecords, p.state = "s_header_value", p.errno = "OK",
             p.nread = P.nread, p.length = due',
             "TRAILING" \in p.flags <=> "TRAILING" \in parser.flags,
             p.hs \notin {"h_connection", "h_transfer_encoding"},
             Take(p, Marked("header_value"), 1)
      PROVE  StepOK
  <2>1. Sound(p, order)
    BY <1>4, ValueSound
  <2> QED
    BY <1>2, <1>3, <1>4, <2>1, MarkAt
<1>5. \/ /\ due' = due
         /\ Take([q EXCEPT !.flags = @ \union {"UPGRADE"}, !.hs = "h_general"],
                 Marked("header_value"), 1)
      \/ /\ hs = "h_content_length" /\ b \in Digits /\ due' = DigitValue[b]
         /\ Take([q EXCEPT !.flags = @ \union {"CONTENTLENGTH"}, !.length = DigitValue[b]],
                 Marked("header_value"), 1)
      \/ hs = "h_content_length" /\ Fail(q) /\ due' = due
      \/ /\ due' = due
         /\ Take([q EXCEPT !.hs =
                    CASE hs = "h_transfer_encoding" /\ b = "chunked" ->
                           "h_transfer_encoding_chunked"
                      [] hs = "h_connection" ->
                           IF b \in ConnectionWords THEN Matched(b)
                           ELSE "h_matching_connection_token"
                      [] hs = "h_matching_connection_token_start" -> hs
                      [] OTHER -> "h_general"], Marked("header_value"), 1)
  BY Zenon DEF FirstOfValue
<1> HIDE DEF q, hs
<1>6. CASE /\ due' = due
           /\ Take([q EXCEPT !.flags = @ \union {"UPGRADE"}, !.hs = "h_general"],
                   Marked("header_value"), 1)
  <2> DEFINE p == [q EXCEPT !.flags = @ \union {"UPGRADE"}, !.hs = "h_general"]
  <2>1. "h_general" \in ValueStates /\ "UPGRADE" \in FlagNames
    BY DEF ValueStates, FlagNames
  <2>2. /\ p \in ParserRecords /\ p.state = "s_header_value" /\ p.errno = "OK"
        /\ p.nread = P.nread /\ p.length = due' /\ p.hs = "h_general"
        /\ "TRAILING" \in p.flags <=> "TRAILING" \in parser.flags
    BY <1>1, <1>6, <2>1 DEF ParserRecords
  <2>3. Take(p, Marked("header_value"), 1)
    BY <1>6
  <2> HIDE DEF p
  <2> QED
    BY <1>4, <2>2, <2>3
<1>7. CASE /\ hs = "h_content_length" /\ b \in Digits /\ due' = DigitValue[b]
           /\ Take([q EXCEPT !.flags = @ \union {"CONTENTLENGTH"}, !.length = DigitValue[b]],
                   Marked("header_value"), 1)
  <2> DEFINE p == [q EXCEPT !.flags = @ \union {"CONTENTLENGTH"}, !.length = DigitValue[b]]
  <2>1. DigitValue[b] \in 0..MaxLen /\ "CONTENTLENGTH" \in FlagNames
    BY <1>7, DigitValueIs, LimitsAssumption DEF FlagNames
  <2>2. /\ p \in ParserRecords /\ p.state = "s_header_value" /\ p.errno = "OK"
        /\ p.nread = P.nread /\ p.length = due' /\ p.hs = "h_content_length"
        /\ "TRAILING" \in p.flags <=> "TRAILING" \in parser.flags
    BY <1>1, <1>7, <2>1 DEF ParserRecords
  <2>3. Take(p, Marked("header_value"), 1)
    BY <1>7
  <2> HIDE DEF p
  <2> QED
    BY <1>4, <2>2, <2>3
<1>8. CASE hs = "h_content_length" /\ Fail(q) /\ due' = due
  <2> DEFINE r == [q EXCEPT !.errno = "error"]
  <2>1. r.state = "s_header_value" /\ r.hs = "h_content_length"
    BY <1>1, <1>8, WithError
  <2>2. Fields(r)
    BY <2>1 DEF Fields, ChunkStates, SizeStates, InChunkStates
  <2>3. due' \in Nat
    BY <1>8, AtIs
  <2> QED
    BY <1>1, <1>8, <2>2, <2>3, FailIs
<1>9. CASE /\ due' = due
           /\ Take([q EXCEPT !.hs =
                    CASE hs = "h_transfer_encoding" /\ b = "chunked" ->
                           "h_transfer_encoding_chunked"
                      [] hs = "h_connection" ->
                           IF b \in ConnectionWords THEN Matched(b)
                           ELSE "h_matching_connection_token"
                      [] hs = "h_matching_connection_token_start" -> hs
                      [] OTHER -> "h_general"], Marked("header_value"), 1)
  <2> DEFINE h == CASE hs = "h_transfer_encoding" /\ b = "chunked" ->
                           "h_transfer_encoding_chunked"
                      [] hs = "h_connection" ->
                           IF b \in ConnectionWords THEN Matched(b)
                           ELSE "h_matching_connection_token"
                      [] hs = "h_matching_connection_token_start" -> hs
                      [] OTHER -> "h_general"
             p == [q EXCEPT !.hs = h]
  <2>1. h \in ValueStates \ {"h_connection", "h_transfer_encoding"}
    BY <1>1, FirstValueState
  <2>2. Take(p, Marked("header_value"), 1)
    BY <1>9
  <2> HIDE DEF h
  <2>3. /\ p \in ParserRecords /\ p.state = "s_header_value" /\ p.errno = "OK"
        /\ p.nread = P.nread /\ p.length = due' /\ p.hs = h
        /\ "TRAILING" \in p.flags <=> "TRAILING" \in parser.flags
    BY <1>1, <1>9, <2>1 DEF ParserRecords
  <2> HIDE DEF p
  <2> QED
    BY <1>4, <2>1, <2>2, <2>3
<1> QED
  BY <1>5, <1>6, <1>7, <1>8, <1>9

LEMMA DiscardWsStep ==
  ASSUME ParserInv, NEW b, DiscardWs(b)
  PROVE  StepOK
<1> DEFINE s == "s_header_value_discard_ws"
<1>1. At(s, b) /\ s \in FieldToldStates
  BY DEF DiscardWs, FieldToldStates
<1>2. CASE Break(P) /\ due' = due
  BY <1>1, <1>2, PIs, MoveStep DEF Follow
<1>3. CASE Break(To("s_header_value_discard_ws_almost_done")) /\ due' = due
  <2>1. "s_header_value_discard_ws_almost_done" \in FieldToldStates \intersect States
    BY Kinds DEF FieldToldStates
  <2> QED
    BY <1>1, <1>3, <2>1, ToIs, MoveStep DEF Follow
<1>4. CASE Break(To("s_header_value_discard_lws")) /\ due' = due
  <2>1. "s_header_value_discard_lws" \in FieldToldStates \intersect States
    BY Kinds DEF FieldToldStates
  <2> QED
    BY <1>1, <1>4, <2>1, ToIs, MoveStep DEF Follow
<1>5. CASE FirstOfValue(b)
  BY <1>1, <1>5, FirstOfValueStep
<1> QED
  BY <1>2, <1>3, <1>4, <1>5 DEF DiscardWs

LEMMA ValueStartStep ==
  ASSUME ParserInv, NEW b, ValueStart(b)
  PROVE  StepOK
<1>1. At("s_header_value_start", b) /\ FirstOfValue(b)
  BY DEF ValueStart
<1>2. "s_header_value_start" \in ValueToldStates
  BY DEF ValueToldStates
<1> QED
  BY <1>1, <1>2, FirstOfValueStep

LEMMA NextValueStateIs ==
  ASSUME NEW hs \in ValueStates, NEW b
  PROVE  NextValueState(hs, b) \in ValueStates \ {"h_connection", "h_transfer_encoding"}
<1>1. {"h_transfer_encoding_chunked", "h_matching_connection_token", "h_general",
       "h_matching_connection_token_start"} \union DOMAIN Finished
      \subseteq ValueStates \ {"h_connection", "h_transfer_encoding"}
  BY DEF ValueStates, Finished
<1>2. CASE hs = "h_matching_connection_token_start"
  <2>1. NextValueState(hs, b) = CASE b \in ConnectionWords -> Matched(b)
                                  [] b \in TokenByte       -> "h_matching_connection_token"
                                  [] b \in Blank           -> hs
                                  [] OTHER                 -> "h_general"
    BY <1>2, Zenon DEF NextValueState, Finished
  <2>2. ConnectionWords \intersect TokenByte = {} /\ ConnectionWords \intersect Blank = {}
        /\ TokenByte \intersect Blank = {}
    BY DEF ConnectionWords, TokenByte, Blank, Alpha, Digits, Mark, FieldWords
  <2>3. CASE b \in ConnectionWords
    BY <2>1, <2>2, <2>3, MatchedIs
  <2>4. CASE b \in TokenByte
    BY <1>1, <2>1, <2>2, <2>4
  <2>5. CASE b \in Blank
    BY <1>1, <1>2, <2>1, <2>2, <2>5
  <2>6. CASE b \notin ConnectionWords \union TokenByte \union Blank
    BY <1>1, <2>1, <2>6
  <2> QED
    BY <2>3, <2>4, <2>5, <2>6
<1>3. CASE hs = "h_matching_connection_close"
  BY <1>1, <1>3 DEF NextValueState, Finished
<1>4. CASE hs = "h_matching_connection_token"
  BY <1>1, <1>4 DEF NextValueState, Finished
<1>5. CASE hs = "h_transfer_encoding_chunked"
  BY <1>1, <1>5 DEF NextValueState, Finished
<1>6. CASE hs \in DOMAIN Finished \ {"h_transfer_encoding_chunked"}
  <2>1. NextValueState(hs, b) = CASE b = ","  -> "h_matching_connection_token_start"
                                  [] b = "SP" -> hs
                                  [] OTHER    -> "h_matching_connection_token"
    BY <1>6 DEF NextValueState, Finished
  <2> QED
    BY <1>1, <1>6, <2>1
<1>7. CASE hs \notin DOMAIN Finished \union
                     {"h_matching_connection_token_start", "h_matching_connection_close",
                      "h_matching_connection_token", "h_transfer_encoding_chunked"}
  BY <1>1, <1>7 DEF NextValueState
<1> QED
  BY <1>2, <1>3, <1>4, <1>5, <1>6, <1>7

LEMMA ValueByteStep ==
  ASSUME ParserInv, NEW b, ValueByte(b)
  PROVE  StepOK
<1> DEFINE s == "s_header_value"
<1>1. At(s, b) /\ due' = due /\ parser.state = s /\ InOrder(parser, order)
  BY AtIs DEF ValueByte, At
<1>2. Sound(P, order)
  BY <1>1, SameIsSound
<1>3. CASE InLoop(P, TRUE)
  BY <1>1, <1>2, <1>3, PIs, SoundFits, InLoopStep
<1>4. CASE Fail(P)
  BY <1>1, <1>4, FailHere
<1>5. CASE InLoop([P EXCEPT !.hs = NextValueState(@, b),
                            !.flags = IF b = "," THEN @ \union ListFlag ELSE @],
                  parser.hs = "h_general")
  <2> DEFINE h == NextValueState(P.hs, b)
             f == IF b = "," THEN P.flags \union ListFlag ELSE P.flags
             p == [P EXCEPT !.hs = h, !.flags = f]
  <2>1. P \in ParserRecords /\ P.hs \in ValueStates /\ P.flags \subseteq FlagNames
    BY <1>1, PIs DEF ParserRecords
  <2>2. h \in ValueStates \ {"h_connection", "h_transfer_encoding"}
    BY <2>1, NextValueStateIs
  <2>3. f \subseteq FlagNames /\ ("TRAILING" \in f <=> "TRAILING" \in parser.flags)
    <3>1. ListFlag \subseteq FlagNames \ {"TRAILING"}
      BY FlagIs DEF ListFlag
    <3> QED
      BY <1>1, <2>1, <3>1, PIs
  <2>4. InLoop(p, parser.hs = "h_general")
    BY <1>5
  <2> HIDE DEF h, f
  <2>5. /\ p \in ParserRecords /\ p.state = s /\ p.nread = P.nread /\ p.errno = "OK"
        /\ p.flags = f /\ p.hs = h /\ p.length = due'
    BY <1>1, <2>1, <2>2, <2>3, PIs, AtIs DEF ParserRecords
  <2> HIDE DEF p
  <2>6. Sound(p, order)
    BY <1>1, <2>2, <2>3, <2>5, ValueSound
  <2> QED
    BY <1>1, <2>4, <2>5, <2>6, SoundFits, InLoopStep
<1> QED
  BY <1>3, <1>4, <1>5 DEF ValueByte

\* Arithmetic on content_length does not wrap when TooBig has let it pass.
LEMMA NoWrap ==
  ASSUME NEW n \in 0..MaxLen
  PROVE  Wrap(n) = n
BY LimitsAssumption, Z3 DEF Wrap

LEMMA NotTooBig ==
  ASSUME NEW n \in 0..MaxLen, NEW base \in {10, 16}, ~TooBig(n, base),
         NEW d \in 0..(base - 1)
  PROVE  n * base + d \in 0..(MaxLen - 1)
<1>1. CASE base = 10
  <2>1. ~((MaxLen - 10) \div 10 < n)
    BY <1>1 DEF TooBig
  <2> QED
    BY <1>1, <2>1, LimitsAssumption, Z3
<1>2. CASE base = 16
  <2>1. ~((MaxLen - 16) \div 16 < n)
    BY <1>2 DEF TooBig
  <2> QED
    BY <1>2, <2>1, LimitsAssumption, Z3
<1> QED
  BY <1>1, <1>2

LEMMA LengthByteStep ==
  ASSUME ParserInv, NEW b, LengthByte(b)
  PROVE  StepOK
<1> DEFINE s == "s_header_value"
<1>1. At(s, b) /\ parser.hs = "h_content_length" /\ parser.length = due /\ due \in 0..MaxLen
  BY AtIs DEF LengthByte
<1>2. CASE InLoop(P, FALSE) /\ due' = due
  BY <1>1, <1>2, PIs, SameIsSound, SoundFits, InLoopStep
<1>3. CASE /\ b \in Digits /\ ~TooBig(parser.length, 10)
           /\ InLoop([P EXCEPT !.length = Wrap(@ * 10 + DigitValue[b])], FALSE)
           /\ due' = due * 10 + DigitValue[b]
  <2> DEFINE n == Wrap(P.length * 10 + DigitValue[b])
             p == [P EXCEPT !.length = n]
  <2>1. n = due' /\ n \in 0..MaxLen
    <3>1. DigitValue[b] \in 0..9
      BY <1>3, DigitValueIs
    <3>2. due * 10 + DigitValue[b] \in 0..(MaxLen - 1)
      BY <1>1, <1>3, <3>1, NotTooBig
    <3>3. P.length = due
      BY <1>1, PIs
    <3>4. due * 10 + DigitValue[b] \in 0..MaxLen
      BY <3>2, LimitsAssumption
    <3> QED
      BY <1>3, <3>3, <3>4, NoWrap
  <2>2. InLoop(p, FALSE)
    BY <1>3
  <2> HIDE DEF n
  <2>3. /\ p \in ParserRecords /\ p.state = s /\ p.nread = P.nread /\ p.errno = "OK"
        /\ p.flags = parser.flags /\ p.hs = "h_content_length" /\ p.length = due'
    BY <1>1, <2>1, PIs DEF ParserRecords
  <2> HIDE DEF p
  <2>4. Sound(p, order)
    BY <1>1, <2>3, ValueSound
  <2> QED
    BY <1>1, <2>2, <2>3, <2>4, SoundFits, InLoopStep
<1>4. CASE Fail(P) /\ due' = due
  BY <1>1, <1>4, FailHere
<1> QED
  BY <1>2, <1>3, <1>4 DEF LengthByte

\* on_header_value behind a value, with the count of its inner loop.
LEMMA ValueDone ==
  ASSUME ParserInv, NEW b, At("s_header_value", b), due' = due,
         NEW p \in ParserRecords, p.state = "s_header_almost_done",
         p.flags = parser.flags, p.errno = "OK", p.nread <= MaxHeader, p.length = parser.length
  PROVE  Fits(p, NewOrder("header_value", p), due')
<1> DEFINE o == NewOrder("header_value", p)
<1>1. InHeader(parser, order)
  BY InHeaderPiece
<1>2. o.last = "header_value" /\ o.chunk = order.chunk /\ o.final = order.final
  BY OtherOrder DEF ParserInv, Pieces
<1>3. "s_header_almost_done" \in ValueToldStates /\ "s_header_almost_done" \in PlainStates
  BY Kinds DEF ValueToldStates
<1>4. InOrder(p, o)
  BY <1>1, <1>2, <1>3, ValueToldOrder DEF InHeader
<1> QED
  BY <1>3, <1>4, AtIs, PlainFields DEF Fits, Measures

LEMMA ValueEndStep ==
  ASSUME ParserInv, NEW b, ValueEnd(b)
  PROVE  StepOK
<1> DEFINE q == To("s_header_almost_done")
           p == Counted(q)
<1>1. At("s_header_value", b) /\ due' = due /\ due' \in Nat
  BY AtIs DEF ValueEnd
<1>2. /\ "s_header_almost_done" \in PlainStates \intersect NoMarkStates \intersect States
      /\ "header_value" \in Pieces
  BY Kinds DEF ValueToldStates, Pieces
<1>3. /\ q \in ParserRecords /\ q.state = "s_header_almost_done" /\ q.flags = parser.flags
      /\ q.errno = "OK" /\ q.nread = P.nread /\ q.length = parser.length
  BY <1>1, <1>2, ToIs
<1>4. \/ ~TooLong(P, run) /\ Data("header_value", p)
      \/ Callback("header_value", mark["header_value"], 0, [p EXCEPT !.errno = "error"],
                  Leave(FALSE), FALSE)
      \/ ~TooLong(P, run) /\ DataAgain("header_value", mark, p, b)
      \/ Fail(p)
  BY DEF ValueEnd
<1> HIDE DEF q
<1>5. /\ p \in ParserRecords /\ p.state = "s_header_almost_done" /\ p.flags = parser.flags
      /\ p.errno = "OK" /\ p.length = parser.length /\ CountsUp(p)
      /\ ~TooLong(P, run) => p.nread <= MaxHeader
  BY <1>1, <1>3, CountedIs
<1> HIDE DEF p
<1>6. /\ InCall /\ DOMAIN mark = {"header_value"} /\ MayCall("header_value")
      /\ mark["header_value"] = owed
  BY <1>1, InHeaderPiece
<1>7. ~TooLong(P, run) => Fits(p, NewOrder("header_value", p), due')
  BY <1>1, <1>5, ValueDone
<1>8. CASE ~TooLong(P, run) /\ Data("header_value", p)
  BY <1>1, <1>2, <1>5, <1>6, <1>7, <1>8, DataStep
<1>9. CASE ~TooLong(P, run) /\ DataAgain("header_value", mark, p, b)
  BY <1>1, <1>2, <1>5, <1>6, <1>7, <1>9, DataAgainStep
<1>10. CASE Fail(p)
  BY <1>1, <1>2, <1>5, <1>10, FailTo
<1>11. CASE Callback("header_value", mark["header_value"], 0, [p EXCEPT !.errno = "error"],
                     Leave(FALSE), FALSE)
  <2> DEFINE r == [p EXCEPT !.errno = "error"]
  <2>1. r \in ParserRecords /\ r.errno = "error" /\ r.state = "s_header_almost_done"
    BY <1>5, WithError
  <2>2. Fields(r)
    BY <1>2, <2>1, PlainFields
  <2>3. Callback("header_value", mark["header_value"], 0, r, Leave(FALSE), FALSE)
    BY <1>11
  <2> HIDE DEF r
  <2>4. /\ Called("header_value", owed, 0, r) /\ parser' = r
        /\ call' = "out" /\ ch' = NoByte /\ mark' = NoMarks /\ whole' \in BOOLEAN
    BY <1>6, <2>3 DEF Callback, Called, NewOrder, Leave
  <2>5. owed \in Nat /\ owed + 0 - owed \in Nat /\ call \in {"first", "more", "full"}
    BY <1>6 DEF ParserInv, VarTypes, InCall
  <2> QED
    BY <1>1, <1>6, <2>1, <2>2, <2>4, <2>5, CallbackFails
<1> QED
  BY <1>4, <1>8, <1>9, <1>10, <1>11

LEMMA FinishHeaderIs ==
  ASSUME ParserInv, NEW s, NEW b, At(s, b)
  PROVE  /\ FinishHeader \in ParserRecords /\ FinishHeader.state = "s_header_field_start"
         /\ FinishHeader.errno = "OK" /\ FinishHeader.nread = P.nread
         /\ FinishHeader.length = parser.length
         /\ "TRAILING" \in FinishHeader.flags <=> "TRAILING" \in parser.flags
<1> DEFINE q == To("s_header_field_start")
<1>1. /\ q \in ParserRecords /\ q.state = "s_header_field_start" /\ q.flags = parser.flags
      /\ q.errno = "OK" /\ q.nread = P.nread /\ q.length = parser.length
  BY Kinds, ToIs
<1>2. FinishHeader = [q EXCEPT !.flags = @ \union Flag(parser.hs)]
  BY DEF FinishHeader
<1> HIDE DEF q
<1> QED
  BY <1>1, <1>2, FlagIs DEF ParserRecords

LEMMA ValueLwsStep ==
  ASSUME ParserInv, NEW b, ValueLws(b)
  PROVE  StepOK
<1> DEFINE s == "s_header_value_lws"
<1>1. At(s, b) /\ due' = due /\ s \in ValueToldStates /\ s \in BetweenStates
  BY Kinds DEF ValueLws, ValueToldStates, BetweenStates
<1>2. CASE Again(To("s_header_value_start"), b)
  <2>1. "s_header_value_start" \in ValueToldStates \intersect States
    BY Kinds DEF ValueToldStates
  <2> QED
    BY <1>1, <1>2, <2>1, ToIs, MoveStep DEF Follow
<1>3. CASE Again(FinishHeader, b)
  <2>1. parser.state = s /\ InOrder(parser, order)
    BY <1>1, AtIs DEF At
  <2>2. InHeader(parser, order) /\ order.last = "header_value"
    BY <1>1, <2>1, ValueToldOrder
  <2>3. /\ FinishHeader.state \in PlainStates \intersect NoMarkStates
        /\ FinishHeader.state = "s_header_field_start"
    BY <1>1, FinishHeaderIs, Kinds
  <2>4. InOrder(FinishHeader, order)
    BY <1>1, <2>2, <2>3, FinishHeaderIs, FieldStartOrder DEF InHeader, BeforeHeaders
  <2>5. Sound(FinishHeader, order)
    BY <1>1, <2>3, <2>4, FinishHeaderIs, AtIs, PlainFields DEF Sound, Counting
  <2> QED
    BY <1>1, <1>3, <2>3, <2>5, AgainAt
<1> QED
  BY <1>2, <1>3 DEF ValueLws

LEMMA DiscardLwsStep ==
  ASSUME ParserInv, NEW b, DiscardLws(b)
  PROVE  StepOK
<1> DEFINE s == "s_header_value_discard_lws"
           k == "header_value"
<1>1. At(s, b) /\ due' = due /\ s \in FieldToldStates /\ s \in BetweenStates
  BY Kinds DEF DiscardLws, FieldToldStates, BetweenStates
<1>2. CASE Break(To("s_header_value_discard_ws"))
  <2>1. "s_header_value_discard_ws" \in FieldToldStates \intersect States
    BY Kinds DEF FieldToldStates
  <2> QED
    BY <1>1, <1>2, <2>1, ToIs, MoveStep DEF Follow
<1>3. CASE DataAgain(k, Marked(k), FinishHeader, b)
  <2> DEFINE p == FinishHeader
             o == NewOrder(k, p)
  <2>1. parser.state = s /\ InOrder(parser, order)
    BY <1>1, AtIs DEF At
  <2>2. InHeader(parser, order) /\ order.last = "header_field"
    BY <1>1, <2>1, FieldToldOrder
  <2>3. /\ p \in ParserRecords /\ p.errno = "OK" /\ p.nread = P.nread
        /\ p.length = parser.length /\ p.state = "s_header_field_start"
        /\ "TRAILING" \in p.flags <=> "TRAILING" \in parser.flags
    BY <1>1, FinishHeaderIs
  <2>4. MayCall(k) /\ k \in Pieces
    BY <2>2, MayCallIs DEF InHeader, Pieces
  <2>5. o.last = k /\ o.chunk = order.chunk /\ o.final = order.final
    BY <2>4, OtherOrder DEF ParserInv
  <2> HIDE DEF p
  <2>6. InOrder(p, o)
    BY <2>2, <2>3, <2>5, FieldStartOrder DEF InHeader, BeforeHeaders
  <2>7. Sound(p, o) /\ p.state \in NoMarkStates
    BY <1>1, <2>3, <2>6, AtIs, PlainFields, Kinds DEF Sound, Counting
  <2>8. InCall /\ DOMAIN mark = {} /\ run = 0 /\ owed = 0
    BY <1>1, AtIs, Between DEF BetweenStates
  <2>9. Marked(k)[k] = owed
    BY <2>4, <2>8, MarkedIs DEF ParserInv
  <2>10. DataAgain(k, Marked(k), p, b)
    BY <1>3 DEF p
  <2>11. Fits(p, o, due') /\ due' \in Nat /\ CountsUp(p)
    BY <1>1, <2>7, <2>8, SoundFits
  <2> QED
    BY <2>4, <2>7, <2>8, <2>9, <2>10, <2>11, DataAgainStep
<1> QED
  BY <1>2, <1>3 DEF DiscardLws

-----------------------------------------------------------------------------
(* The end of the headers and of a message *)

\* on_message_complete and NEW_MESSAGE().
LEMMA CompleteStep ==
  ASSUME ParserInv, NEW s \in BetweenStates, NEW b, At(s, b), due' = due,
         ~order.final, MayCall("message_complete"),
         NEW p \in ParserRecords, p.errno = "OK", Counting(p), p.length = due',
         NEW stop \in BOOLEAN, stop <=> p.upgrade, Complete(p, stop)
  PROVE  StepOK
<1> DEFINE q == NewMessage(p)
           on == "message_complete"
           o == NewOrder(on, q)
           m == Moved(mark, 1)
<1>1. /\ q \in ParserRecords /\ q.errno = "OK" /\ q.nread = p.nread /\ q.length = p.length
      /\ q.upgrade = p.upgrade /\ q.type = p.type /\ q.old = p.old /\ q.flags = p.flags
      /\ q.status = p.status
      /\ q.state \in {"s_dead", "s_start_req", "s_start_res"}
      /\ ~ShouldKeepAlive(p) => q.state = "s_dead"
  <2> DEFINE t == IF ~ShouldKeepAlive(p) THEN "s_dead"
                  ELSE IF p.type = "REQUEST" THEN "s_start_req" ELSE "s_start_res"
  <2>1. t \in {"s_dead", "s_start_req", "s_start_res"} /\ (~ShouldKeepAlive(p) => t = "s_dead")
    OBVIOUS
  <2>2. q = [p EXCEPT !.state = t]
    BY DEF NewMessage
  <2> HIDE DEF t
  <2>3. t \in States
    BY <2>1, Kinds
  <2> QED
    BY <2>1, <2>2, <2>3, WithState
<1> HIDE DEF q
<1>2. ShouldKeepAlive(q) <=> ShouldKeepAlive(p)
  BY <1>1 DEF ShouldKeepAlive, MessageNeedsEof
<1>3. on \in Notifications /\ on \notin Pieces
  BY DEF Notifications, Pieces
<1>4. o.last = on /\ (o.final => ~ShouldKeepAlive(q))
  BY <1>3, NewOrderIs DEF ParserInv
<1>5. q.state \in PlainStates \intersect NoMarkStates
  BY <1>1, Kinds
<1>6. InOrder(q, o)
  BY <1>1, <1>2, <1>4, StartOrder, StartResOrder, DeadOrder
<1>7. Sound(q, o)
  BY <1>1, <1>5, <1>6, PlainFields DEF Sound, Counting
<1>8. Fits(q, o, due') /\ due' \in Nat /\ CountsUp(q) /\ InCall /\ DOMAIN mark = {}
  BY <1>7, SoundFits, Between
<1>9. mark \in [DOMAIN mark -> Nat] /\ owed = 0
  BY <1>8 DEF ParserInv, VarTypes, Marks, Owes, Running, InCall
<1>10. m \in [DOMAIN m -> Nat] /\ DOMAIN m = {}
  BY <1>8, <1>9, MovedIs
<1>11. /\ Called(on, 0, 0, q)
       /\ \/ parser' = q /\ ~stop /\ Goes("more", NoByte, m)
          \/ parser' = q /\ stop /\ Leave(TRUE)
          \/ parser' = [q EXCEPT !.errno = "error"] /\ Leave(TRUE)
  BY DEF Complete, Callback, Called, NewOrder, q
<1> HIDE DEF m
<1>12. CASE parser' = q /\ ~stop /\ Goes("more", NoByte, m)
  <2>1. MarksFit("more", q.state, m) /\ Owes(m, owed + 0 - 0) /\ owed + 0 - 0 \in Nat
    BY <1>5, <1>9, <1>10, MarkSetIs DEF MarksFit, Owes
  <2> QED
    BY <1>1, <1>3, <1>8, <1>10, <1>11, <1>12, <2>1, CallbackGoes
<1>13. CASE parser' = q /\ stop /\ Leave(TRUE)
  <2>1. call \in {"first", "more", "full"} /\ owed + 0 - 0 = 0
    BY <1>8, <1>9 DEF InCall
  <2>2. /\ call' = "out" /\ ch' = NoByte /\ mark' = NoMarks /\ whole' \in BOOLEAN
        /\ q.upgrade
    BY <1>1, <1>13 DEF Leave
  <2> QED
    BY <1>8, <1>11, <1>13, <2>1, <2>2, CallbackReturns
<1>14. CASE parser' = [q EXCEPT !.errno = "error"] /\ Leave(TRUE)
  <2> DEFINE r == [q EXCEPT !.errno = "error"]
  <2>1. r \in ParserRecords /\ r.errno = "error" /\ Fields(r)
    BY <1>1, <1>7, WithError, FieldsWithError DEF Sound
  <2>2. /\ call' = "out" /\ ch' = NoByte /\ mark' = NoMarks /\ whole' \in BOOLEAN
        /\ parser' = r
    BY <1>14 DEF Leave
  <2>3. call \in {"first", "more", "full"} /\ owed + 0 - 0 \in Nat
    BY <1>8, <1>9 DEF InCall
  <2> HIDE DEF r
  <2> QED
    BY <1>8, <1>11, <2>1, <2>2, <2>3, CallbackFails
<1> QED
  BY <1>11, <1>12, <1>13, <1>14

\* The record on_headers_complete leaves, whatever it returns.
LEMMA AnsweredIs ==
  ASSUME NEW q \in ParserRecords, NEW r
  PROVE  LET p == Answered(SetUpgrade(q), r) IN
         /\ p \in ParserRecords /\ p.state = q.state /\ p.errno = q.errno
         /\ p.nread = q.nread /\ p.length = q.length
<1> DEFINE u == IF {"UPGRADE", "CONNECTION_UPGRADE"} \subseteq q.flags
                THEN q.type = "REQUEST" \/ q.status = "101"
                ELSE q.method = "CONNECT"
           p1 == [q EXCEPT !.upgrade = u]
           f == IF r = 0 THEN p1.flags ELSE p1.flags \union {"SKIPBODY"}
           v == p1.upgrade \/ r = 2
<1>1. u \in BOOLEAN
  OBVIOUS
<1>2. SetUpgrade(q) = p1
  BY DEF SetUpgrade
<1> HIDE DEF u
<1>3. /\ p1 \in ParserRecords /\ p1.state = q.state /\ p1.errno = q.errno
      /\ p1.nread = q.nread /\ p1.length = q.length /\ p1.flags \subseteq FlagNames
  BY <1>1 DEF ParserRecords
<1>4. Answered(p1, r) = [p1 EXCEPT !.upgrade = v, !.flags = f]
  BY DEF Answered
<1> HIDE DEF p1
<1>5. v \in BOOLEAN /\ f \subseteq FlagNames
  BY <1>3 DEF FlagNames
<1> HIDE DEF v, f
<1> DEFINE p == [p1 EXCEPT !.upgrade = v, !.flags = f]
<1>6. /\ p \in ParserRecords /\ p.state = p1.state /\ p.errno = p1.errno
      /\ p.nread = p1.nread /\ p.length = p1.length
  BY <1>3, <1>5 DEF ParserRecords
<1> HIDE DEF p
<1>7. Answered(SetUpgrade(q), r) = p
  BY <1>2, <1>4 DEF p
<1> QED
  BY <1>3, <1>6, <1>7

LEMMA HeadersAlmostDoneStep ==
  ASSUME ParserInv, NEW b, HeadersAlmostDone(b)
  PROVE  StepOK
<1> DEFINE s == "s_headers_almost_done"
<1>1. At(s, b) /\ due' = due /\ s \in BetweenStates /\ parser.state = s
  BY Kinds DEF HeadersAlmostDone, BetweenStates, At
<1>2. InHeader(parser, order) /\ order.last \in BeforeHeaders(order.chunk)
  <2>1. InOrder(parser, order)
    BY <1>1, AtIs
  <2> QED
    BY <1>1, <2>1, FieldStartOrder
<1>3. /\ order.chunk <=> "TRAILING" \in P.flags
      /\ IF order.chunk THEN MayCall("chunk_complete") ELSE MayCall("headers_complete")
  BY <1>1, <1>2, PIs, MayCallIs DEF InHeader
<1>4. CASE Fail(P)
  BY <1>1, <1>4, FailHere
<1>5. CASE "TRAILING" \in P.flags /\ NotifyAgain("chunk_complete", To("s_message_done"), b)
  <2> DEFINE p == To("s_message_done")
             o == NewOrder("chunk_complete", p)
  <2>1. "chunk_complete" \in Notifications /\ MayCall("chunk_complete")
    BY <1>3, <1>5 DEF Notifications
  <2>2. o.last = "chunk_complete" /\ ~o.chunk /\ ~o.final
    BY <1>2, <2>1, NewOrderIs DEF ParserInv, InHeader
  <2>3. "s_message_done" \in PlainStates \intersect NoMarkStates \intersect States
    BY Kinds
  <2>4. p.state = "s_message_done"
    BY <1>1, <2>3, ToIs
  <2>5. Sound(p, o)
    BY <1>1, <2>2, <2>3, <2>4, MessageDoneOrder, ToIsSound
  <2> QED
    BY <1>1, <1>5, <2>1, <2>3, <2>4, <2>5, NotifyAgainAt
<1>6. ASSUME "TRAILING" \notin P.flags, NEW r,
             NotifyAgain("headers_complete", Answered(SetUpgrade(To("s_headers_done")), r), b)
      PROVE  StepOK
  <2> DEFINE q == To("s_headers_done")
             p == Answered(SetUpgrade(q), r)
             on == "headers_complete"
             o == NewOrder(on, p)
  <2>1. on \in Notifications /\ MayCall(on) /\ ~order.chunk /\ ~order.final
    BY <1>2, <1>3, <1>6 DEF Notifications, InHeader
  <2>2. o.last = on /\ o.chunk = order.chunk /\ o.final = order.final
    BY <2>1, OtherOrder DEF ParserInv
  <2>3. "s_headers_done" \in PlainStates \intersect NoMarkStates \intersect States
    BY Kinds
  <2>4. /\ q \in ParserRecords /\ q.state = "s_headers_done" /\ q.errno = "OK"
        /\ q.nread = P.nread /\ q.length = parser.length
    BY <1>1, <2>3, ToIs
  <2> HIDE DEF q
  <2>5. /\ p \in ParserRecords /\ p.state = "s_headers_done" /\ p.errno = "OK"
        /\ p.nread = P.nread /\ p.length = parser.length
    BY <2>4, AnsweredIs
  <2>6. NotifyAgain(on, p, b)
    BY <1>6 DEF q
  <2> HIDE DEF p
  <2>7. InOrder(p, o)
    BY <2>1, <2>2, <2>5, HeadersDoneOrder
  <2>8. Sound(p, o)
    BY <1>1, <2>3, <2>5, <2>7, AtIs, PlainFields DEF Sound, Counting
  <2> QED
    BY <1>1, <2>1, <2>3, <2>5, <2>6, <2>8, NotifyAgainAt
<1> QED
  BY <1>4, <1>5, <1>6 DEF HeadersAlmostDone

LEMMA HeadersDoneStep ==
  ASSUME ParserInv, NEW b, HeadersDone(b)
  PROVE  StepOK
<1> DEFINE s == "s_headers_done"
           p == [P EXCEPT !.nread = 0]
<1>1. At(s, b) /\ due' = due /\ s \in BetweenStates /\ parser.state = s
  BY Kinds DEF HeadersDone, BetweenStates, At
<1>2. /\ ~order.final /\ ~order.chunk /\ order.last = "headers_complete"
      /\ MayCall("message_complete")
  <2>1. InOrder(parser, order)
    BY <1>1, AtIs
  <2>2. ~order.final /\ ~order.chunk /\ order.last = "headers_complete"
    BY <1>1, <2>1, HeadersDoneOrder
  <2> QED
    BY <2>2, MayCallIs
<1>3. \/ p.upgrade /\ Complete(p, TRUE)
      \/ ~p.upgrade /\ Complete(p, FALSE)
      \/ "CHUNKED" \in p.flags /\ Break([p EXCEPT !.state = "s_chunk_size_start"])
      \/ p.length \notin {0, MaxLen} /\ Break([p EXCEPT !.state = "s_body_identity"])
      \/ Break([p EXCEPT !.state = "s_body_identity_eof"])
  BY DEF HeadersDone, HasBody
<1>4. /\ p \in ParserRecords /\ p.errno = "OK" /\ p.nread = 0 /\ p.length = due' /\ Counting(p)
  BY <1>1, PIs, AtIs DEF ParserRecords, Counting
<1> HIDE DEF p
<1>5. CASE p.upgrade /\ Complete(p, TRUE)
  BY <1>1, <1>2, <1>4, <1>5, CompleteStep
<1>6. CASE ~p.upgrade /\ Complete(p, FALSE)
  BY <1>1, <1>2, <1>4, <1>6, CompleteStep
<1>7. ASSUME NEW t \in {"s_chunk_size_start", "s_body_identity", "s_body_identity_eof"},
             Break([p EXCEPT !.state = t]),
             t = "s_chunk_size_start" => "CHUNKED" \in p.flags,
             t = "s_body_identity" => p.length \notin {0, MaxLen}
      PROVE  StepOK
  <2> DEFINE q == [p EXCEPT !.state = t]
  <2>1. t \in NoMarkStates /\ t \in States
    BY Kinds
  <2>2. /\ q \in ParserRecords /\ q.state = t /\ q.errno = "OK" /\ q.nread = 0
        /\ q.length = p.length /\ q.flags = p.flags
    BY <1>4, <2>1, WithState
  <2>3. Break(q)
    BY <1>7
  <2> HIDE DEF q
  <2>4. Fields(q)
    BY <1>7, <2>2 DEF Fields, ChunkStates, SizeStates, InChunkStates
  <2>5. InOrder(q, order)
    BY <1>2, <1>7, <2>2, BodyOrder, SizeOrder
  <2>6. Sound(q, order)
    BY <1>1, <1>4, <2>2, <2>4, <2>5 DEF Sound, Counting
  <2> QED
    BY <1>1, <2>1, <2>2, <2>3, <2>6, BreakAt
<1> QED
  BY <1>3, <1>5, <1>6, <1>7

LEMMA MessageDoneStep ==
  ASSUME ParserInv, NEW b, MessageDone(b)
  PROVE  StepOK
<1> DEFINE s == "s_message_done"
<1>1. At(s, b) /\ due' = due /\ s \in BetweenStates /\ parser.state = s /\ Complete(P, P.upgrade)
  BY Kinds DEF MessageDone, BetweenStates, At
<1>2. ~order.final /\ MayCall("message_complete")
  <2>1. InOrder(parser, order)
    BY <1>1, AtIs
  <2>2. ~order.final /\ ~order.chunk /\ order.last \in {"body", "chunk_complete"}
    BY <1>1, <2>1, MessageDoneOrder
  <2> QED
    BY <2>2, MayCallIs
<1>3. /\ P \in ParserRecords /\ P.errno = "OK" /\ P.length = due' /\ Counting(P)
      /\ P.upgrade \in BOOLEAN
  BY <1>1, PIs, AtIs DEF Counting, ParserRecords
<1> QED
  BY <1>1, <1>2, <1>3, CompleteStep

LEMMA HeadersStep ==
  ASSUME ParserInv, NEW b, Headers(b)
  PROVE  StepOK
BY FieldStartStep, FieldStep, DiscardWsStep, ValueStartStep, ValueByteStep, LengthByteStep,
   ValueEndStep, ValueLwsStep, DiscardLwsStep, HeadersAlmostDoneStep, HeadersDoneStep
   DEF Headers

-----------------------------------------------------------------------------
(* Bodies and chunks *)

\* The mark of a body is set at its first byte and moved over n of them.
LEMMA BodyMarkIs ==
  ASSUME ParserInv, NEW s \in BetweenStates, NEW b, At(s, b), NEW n \in Nat
  PROVE  LET m == Moved(Marked("body"), n) IN
         /\ m \in [DOMAIN m -> Nat] /\ DOMAIN m = {"body"} /\ m["body"] = n
         /\ "body" \in Pieces /\ owed = 0
<1>1. DOMAIN mark = {} /\ owed = 0 /\ "body" \in Pieces
  <2>1. DOMAIN mark = {} /\ "body" \in Pieces
    BY Between DEF Pieces
  <2> QED
    BY <2>1, AtIs DEF BetweenStates
<1>2. LET m == Marked("body") IN
      m \in [DOMAIN m -> Nat] /\ DOMAIN m = {"body"} /\ m["body"] = 0
  BY <1>1, MarkedIs DEF ParserInv
<1> DEFINE k == Marked("body")
<1> HIDE DEF k
<1>3. k \in [DOMAIN k -> Nat] /\ DOMAIN k = {"body"} /\ k["body"] = 0
  BY <1>2 DEF k
<1> DEFINE m == Moved(k, n)
<1>4. m \in [DOMAIN m -> Nat] /\ DOMAIN m = {"body"} /\ m["body"] = n
  BY <1>3, MovedIs
<1> QED
  BY <1>1, <1>4 DEF k

\* What is left of a length when n of its bytes have been read.
LEMMA LeftIs ==
  ASSUME ParserInv, NEW s, NEW b, At(s, b), NEW n \in 1..parser.length, due' = due - n,
         parser.length \notin {0, MaxLen}
  PROVE  LET p == [P EXCEPT !.length = Wrap(@ - n)] IN
         /\ p \in ParserRecords /\ p.state = s /\ p.errno = "OK" /\ p.nread = P.nread
         /\ p.flags = parser.flags /\ p.length = due' /\ p.length # MaxLen
<1> DEFINE d == Wrap(P.length - n)
           p == [P EXCEPT !.length = d]
<1>1. P.length = due /\ due \in 0..MaxLen /\ n \in 1..due
  BY PIs, AtIs
<1>2. due - n \in 0..MaxLen /\ due - n # MaxLen
  BY <1>1, LimitsAssumption
<1>3. d = due' /\ d \in 0..MaxLen /\ d # MaxLen
  BY <1>1, <1>2, NoWrap
<1>4. p = [P EXCEPT !.length = Wrap(@ - n)]
  OBVIOUS
<1> HIDE DEF d
<1>5. /\ p \in ParserRecords /\ p.state = s /\ p.errno = "OK" /\ p.nread = P.nread
      /\ p.flags = parser.flags /\ p.length = d
  BY <1>3, PIs DEF ParserRecords
<1> QED
  BY <1>3, <1>4, <1>5

\* All there is of a body in a call: its callback comes at the end of the call.
LEMMA FullStep ==
  ASSUME ParserInv, NEW s \in BetweenStates, NEW b, At(s, b), NEW n \in Nat,
         NEW p, Sound(p, order), p.state \in BodyStates, Quiet(p, n),
         NEW m, m \in [DOMAIN m -> Nat], DOMAIN m = {"body"}, m["body"] = n,
         Goes("full", NoByte, m)
  PROVE  StepOK
<1>1. InCall /\ run = 0 /\ owed = 0 /\ "body" \in Pieces
  BY Between, AtIs DEF BetweenStates, Pieces
<1>2. Fits(p, order, due') /\ due' \in Nat /\ CountsUp(p)
  BY <1>1, SoundFits
<1>3. MarksFit("full", p.state, m) /\ Owes(m, owed + n) /\ DOMAIN m \subseteq Pieces
  BY <1>1 DEF MarksFit, Owes
<1> QED
  BY <1>1, <1>2, <1>3, QuietStep

LEMMA BodyIdentityStep ==
  ASSUME ParserInv, NEW b, BodyIdentity(b)
  PROVE  StepOK
<1> DEFINE s == "s_body_identity"
<1>1. At(s, b) /\ s \in BetweenStates /\ s \in BodyStates /\ parser.state = s
  BY Kinds DEF BodyIdentity, BetweenStates, BodyStates, At
<1>2. InOrder(parser, order) /\ Fields(parser)
  BY <1>1, AtIs
<1>3. /\ ~order.final /\ ~order.chunk /\ order.last \in {"headers_complete", "body"}
      /\ MayCall("body") /\ parser.length \notin {0, MaxLen}
  BY <1>1, <1>2, BodyOrder, MayCallIs DEF Fields
<1>4. PICK n \in 1..parser.length :
        LET p == [P EXCEPT !.length = Wrap(@ - n)]
            m == Moved(Marked("body"), n - 1) IN
        /\ due' = due - n
        /\ IF p.length = 0
           THEN Callback("body", m["body"] + 1, n, [p EXCEPT !.state = "s_message_done"],
                         Goes("more", b, Unmarked("body")), Leave(FALSE))
           ELSE Quiet(p, n) /\ Goes("full", NoByte, Moved(m, 1))
  BY DEF BodyIdentity
<1> DEFINE p == [P EXCEPT !.length = Wrap(@ - n)]
           m == Moved(Marked("body"), n - 1)
<1>5. n \in Nat /\ n - 1 \in Nat
  <2>1. parser.length \in Nat
    BY <1>1, AtIs
  <2> QED
    BY <2>1
<1>6. /\ p \in ParserRecords /\ p.state = s /\ p.errno = "OK" /\ p.nread = P.nread
      /\ p.flags = parser.flags /\ p.length = due' /\ p.length # MaxLen
  BY <1>1, <1>3, <1>4, LeftIs
<1>7. m \in [DOMAIN m -> Nat] /\ DOMAIN m = {"body"} /\ m["body"] = n - 1 /\ owed = 0
      /\ "body" \in Pieces
  BY <1>1, <1>5, BodyMarkIs
<1>8. \/ /\ p.length = 0
         /\ Callback("body", m["body"] + 1, n, [p EXCEPT !.state = "s_message_done"],
                     Goes("more", b, Unmarked("body")), Leave(FALSE))
      \/ p.length # 0 /\ Quiet(p, n) /\ Goes("full", NoByte, Moved(m, 1))
  BY <1>4
<1> HIDE DEF p, m
<1>9. CASE p.length # 0 /\ Quiet(p, n) /\ Goes("full", NoByte, Moved(m, 1))
  <2> DEFINE k == Moved(m, 1)
  <2>1. k \in [DOMAIN k -> Nat] /\ DOMAIN k = {"body"} /\ k["body"] = n
    BY <1>5, <1>7, MovedIs
  <2>2. Fields(p)
    BY <1>6, <1>9 DEF Fields, ChunkStates, SizeStates, InChunkStates
  <2>3. InOrder(p, order)
    BY <1>3, <1>6, BodyOrder
  <2>4. Sound(p, order)
    BY <1>6, <2>2, <2>3 DEF Sound, Counting
  <2> HIDE DEF k
  <2>5. Goes("full", NoByte, k)
    BY <1>9 DEF k
  <2> QED
    BY <1>1, <1>5, <1>6, <1>9, <2>1, <2>4, <2>5, FullStep
<1>10. CASE /\ p.length = 0
            /\ Callback("body", m["body"] + 1, n, [p EXCEPT !.state = "s_message_done"],
                        Goes("more", b, Unmarked("body")), Leave(FALSE))
  <2> DEFINE q == [p EXCEPT !.state = "s_message_done"]
             o == NewOrder("body", q)
             k == Unmarked("body")
  <2>1. "s_message_done" \in PlainStates \intersect NoMarkStates \intersect States
    BY Kinds
  <2>2. /\ q \in ParserRecords /\ q.state = "s_message_done" /\ q.errno = "OK"
        /\ q.nread = P.nread /\ q.length = due'
    BY <1>6, <2>1, WithState
  <2>3. k \in [DOMAIN k -> Nat] /\ DOMAIN k = {}
    <3>1. DOMAIN mark = {}
      BY <1>1, Between
    <3> QED
      BY <3>1, UnmarkedIs DEF ParserInv
  <2>4. m["body"] + 1 = n
    BY <1>5, <1>7
  <2>5. Called("body", n, n, q) /\ parser' = q /\ Goes("more", b, k)
    BY <1>7, <1>10, <2>4, PiecesPass DEF Callback, Called, NewOrder
  <2> HIDE DEF q, k
  <2>6. o.last = "body" /\ o.chunk = order.chunk /\ o.final = order.final
    BY <1>7, OtherOrder DEF ParserInv
  <2>7. Sound(q, o)
    BY <1>3, <2>1, <2>2, <2>6, MessageDoneOrder, PlainFields DEF Sound, Counting
  <2>8. Fits(q, o, due') /\ due' \in Nat /\ CountsUp(q) /\ InCall
    BY <1>1, <2>7, SoundFits, Between
  <2>9. /\ owed + n - n = 0 /\ MarksFit("more", q.state, k) /\ Owes(k, owed + n - n)
        /\ DOMAIN k \subseteq Pieces
    BY <1>5, <1>7, <2>1, <2>2, <2>3, MarkSetIs DEF MarksFit, Owes
  <2> QED
    BY <1>3, <1>5, <2>3, <2>5, <2>8, <2>9, CallbackGoes
<1> QED
  BY <1>8, <1>9, <1>10

LEMMA BodyIdentityEofStep ==
  ASSUME ParserInv, NEW b, BodyIdentityEof(b)
  PROVE  StepOK
<1> DEFINE s == "s_body_identity_eof"
<1>1. At(s, b) /\ due' = due /\ s \in BetweenStates /\ s \in BodyStates
  BY Kinds DEF BodyIdentityEof, BetweenStates, BodyStates
<1>2. PICK n \in 1..MaxPiece :
        Quiet(P, n) /\ Goes("full", NoByte, Moved(Marked("body"), n))
  BY DEF BodyIdentityEof
<1> DEFINE m == Moved(Marked("body"), n)
<1>3. n \in Nat
  BY LimitsAssumption
<1>4. m \in [DOMAIN m -> Nat] /\ DOMAIN m = {"body"} /\ m["body"] = n
  BY <1>1, <1>3, BodyMarkIs
<1>5. Goes("full", NoByte, m)
  BY <1>2
<1> HIDE DEF m
<1>6. Sound(P, order) /\ P.state = s
  BY <1>1, SameIsSound, PIs
<1> QED
  BY <1>1, <1>2, <1>3, <1>4, <1>5, <1>6, FullStep

LEMMA ChunkDataStep ==
  ASSUME ParserInv, NEW b, ChunkData(b)
  PROVE  StepOK
<1> DEFINE s == "s_chunk_data"
<1>1. /\ At(s, b) /\ s \in BetweenStates /\ s \in BodyStates /\ parser.state = s
      /\ s \in InChunkStates
  BY Kinds DEF ChunkData, BetweenStates, BodyStates, At, InChunkStates
<1>2. InOrder(parser, order) /\ Fields(parser)
  BY <1>1, AtIs
<1>3. /\ ~order.final /\ order.chunk /\ order.last \in {"chunk_header", "body"}
      /\ parser.length \notin {0, MaxLen} /\ "CHUNKED" \in parser.flags
  BY <1>1, <1>2, InChunkOrder DEF Fields, ChunkStates
<1>4. PICK n \in 1..parser.length :
        LET p == [P EXCEPT !.length = Wrap(@ - n)]
            m == Moved(Marked("body"), n) IN
        /\ due' = due - n
        /\ IF p.length = 0
           THEN Quiet([p EXCEPT !.state = "s_chunk_data_almost_done"], n)
                /\ Goes("more", NoByte, m)
           ELSE Quiet(p, n) /\ Goes("full", NoByte, m)
  BY DEF ChunkData
<1> DEFINE p == [P EXCEPT !.length = Wrap(@ - n)]
           m == Moved(Marked("body"), n)
<1>5. n \in Nat
  <2>1. parser.length \in Nat
    BY <1>1, AtIs
  <2> QED
    BY <2>1
<1>6. /\ p \in ParserRecords /\ p.state = s /\ p.errno = "OK" /\ p.nread = P.nread
      /\ p.flags = parser.flags /\ p.length = due' /\ p.length # MaxLen
  BY <1>1, <1>3, <1>4, LeftIs
<1>7. m \in [DOMAIN m -> Nat] /\ DOMAIN m = {"body"} /\ m["body"] = n /\ owed = 0
      /\ "body" \in Pieces
  BY <1>1, <1>5, BodyMarkIs
<1>8. \/ /\ p.length = 0 /\ Quiet([p EXCEPT !.state = "s_chunk_data_almost_done"], n)
         /\ Goes("more", NoByte, m)
      \/ p.length # 0 /\ Quiet(p, n) /\ Goes("full", NoByte, m)
  BY <1>4
<1> HIDE DEF p, m
<1>9. CASE p.length # 0 /\ Quiet(p, n) /\ Goes("full", NoByte, m)
  <2>1. Fields(p)
    BY <1>3, <1>6, <1>9 DEF Fields, SizeStates
  <2>2. InOrder(p, order)
    BY <1>1, <1>3, <1>6, InChunkOrder
  <2>3. Sound(p, order)
    BY <1>6, <2>1, <2>2 DEF Sound, Counting
  <2> QED
    BY <1>1, <1>5, <1>6, <1>7, <1>9, <2>3, FullStep
<1>10. CASE /\ p.length = 0 /\ Quiet([p EXCEPT !.state = "s_chunk_data_almost_done"], n)
            /\ Goes("more", NoByte, m)
  <2> DEFINE t == "s_chunk_data_almost_done"
             q == [p EXCEPT !.state = t]
  <2>1. t \in States /\ t \in InChunkStates
    BY Kinds DEF InChunkStates
  <2>2. /\ q \in ParserRecords /\ q.state = t /\ q.errno = "OK" /\ q.flags = parser.flags
        /\ q.nread = P.nread /\ q.length = due' /\ q.length = 0
    BY <1>6, <1>10, <2>1, WithState
  <2>3. Quiet(q, n)
    BY <1>10
  <2> HIDE DEF q
  <2>4. Fields(q)
    BY <1>3, <2>2 DEF Fields, SizeStates
  <2>5. InOrder(q, order)
    BY <1>3, <2>1, <2>2, InChunkOrder
  <2>6. Sound(q, order)
    BY <2>2, <2>4, <2>5 DEF Sound, Counting
  <2>7. Fits(q, order, due') /\ due' \in Nat /\ CountsUp(q) /\ InCall
    BY <1>1, <2>6, SoundFits, Between
  <2>8. MarksFit("more", q.state, m) /\ Owes(m, owed + n) /\ DOMAIN m \subseteq Pieces
    BY <1>5, <1>7, <2>2 DEF MarksFit, Owes
  <2> QED
    BY <1>5, <1>10, <2>3, <2>7, <2>8, QuietStep
<1> QED
  BY <1>8, <1>9, <1>10

\* In the line with a chunk's size.
LEMMA SizeAt ==
  ASSUME ParserInv, NEW s \in SizeStates \union {"s_chunk_size_start"}, NEW b, At(s, b)
  PROVE  /\ s \in BetweenStates /\ parser.state = s
         /\ ~order.final /\ ~order.chunk /\ order.last \in {"headers_complete", "chunk_complete"}
         /\ "CHUNKED" \in parser.flags /\ Fields(parser)
<1>1. s \in BetweenStates /\ parser.state = s
  BY Kinds DEF At, SizeStates, BetweenStates
<1>2. InOrder(parser, order) /\ Fields(parser)
  BY <1>1, AtIs
<1>3. "CHUNKED" \in parser.flags
  BY <1>1, <1>2 DEF Fields, ChunkStates
<1> QED
  BY <1>1, <1>2, <1>3, SizeOrder

LEMMA SizeSound ==
  ASSUME ParserInv, NEW s \in SizeStates \union {"s_chunk_size_start"}, NEW b, At(s, b),
         NEW p \in ParserRecords, p.state \in SizeStates, p.errno = "OK", p.nread = P.nread,
         p.flags = parser.flags, p.length = due', p.length < MaxLen
  PROVE  Sound(p, order) /\ p.state \in NoMarkStates
<1>1. Fields(p)
  BY SizeAt DEF Fields, SizeStates
<1>2. InOrder(p, order)
  BY SizeAt, SizeOrder
<1> QED
  BY <1>1, <1>2, Kinds DEF Sound, Counting

LEMMA HexIs == \A b \in Digits \union {"a"} : Hex(b) \in 0..15
<1>1. \A b \in Digits : Hex(b) \in 0..15
  BY DigitValueIs DEF Hex
<1>2. Hex("a") \in 0..15
  BY DEF Hex
<1> QED
  BY <1>1, <1>2

LEMMA ChunkSizeStartStep ==
  ASSUME ParserInv, NEW b, ChunkSizeStart(b)
  PROVE  StepOK
<1> DEFINE s == "s_chunk_size_start"
<1>1. At(s, b)
  BY DEF ChunkSizeStart
<1>2. CASE /\ b \in Digits \union {"a"} /\ due' = Hex(b)
           /\ Break([To("s_chunk_size") EXCEPT !.length = Hex(b)])
  <2> DEFINE q == To("s_chunk_size")
             h == Hex(b)
             p == [q EXCEPT !.length = h]
  <2>1. "s_chunk_size" \in States /\ "s_chunk_size" \in SizeStates
    BY Kinds DEF SizeStates
  <2>2. /\ q \in ParserRecords /\ q.state = "s_chunk_size" /\ q.errno = "OK"
        /\ q.nread = P.nread /\ q.flags = parser.flags
    BY <1>1, <2>1, ToIs
  <2>3. h \in 0..MaxLen /\ h < MaxLen
    BY <1>2, HexIs, LimitsAssumption
  <2>4. Break(p)
    BY <1>2
  <2> HIDE DEF q, h
  <2>5. /\ p \in ParserRecords /\ p.state = "s_chunk_size" /\ p.errno = "OK"
        /\ p.nread = P.nread /\ p.flags = parser.flags /\ p.length = h
    BY <2>2, <2>3 DEF ParserRecords
  <2>6. h = due'
    BY <1>2 DEF h
  <2> HIDE DEF p
  <2>7. Sound(p, order) /\ p.state \in NoMarkStates
    BY <1>1, <2>1, <2>3, <2>5, <2>6, SizeSound
  <2> QED
    BY <1>1, <2>4, <2>7, SizeAt, BreakAt
<1>3. CASE Fail(P) /\ due' = due
  BY <1>1, <1>3, FailHere
<1> QED
  BY <1>2, <1>3 DEF ChunkSizeStart

LEMMA ChunkSizeStep ==
  ASSUME ParserInv, NEW b, ChunkSize(b) \/ ChunkParameters(b)
  PROVE  StepOK
<1>1. PICK s \in {"s_chunk_size", "s_chunk_parameters"} : At(s, b)
  BY DEF ChunkSize, ChunkParameters
<1>2. s \in SizeStates /\ s \in BetweenStates /\ s # "s_chunk_size_start"
  BY <1>1, SizeAt DEF SizeStates
<1>3. parser.length < MaxLen /\ parser.length = due /\ due \in 0..MaxLen
  BY <1>1, <1>2, SizeAt, AtIs DEF Fields
<1>4. ASSUME NEW t \in SizeStates, Break(To(t)), due' = due
      PROVE  StepOK
  <2>1. t \in States
    BY Kinds
  <2>2. /\ To(t) \in ParserRecords /\ To(t).state = t /\ To(t).errno = "OK"
        /\ To(t).nread = P.nread /\ To(t).flags = parser.flags /\ To(t).length = due'
    BY <1>1, <1>3, <1>4, <2>1, ToIs
  <2>3. Sound(To(t), order) /\ To(t).state \in NoMarkStates
    BY <1>1, <1>2, <1>3, <1>4, <2>2, SizeSound
  <2> QED
    BY <1>1, <1>2, <1>4, <2>3, BreakAt
<1>5. CASE Break(P) /\ due' = due
  <2>1. Sound(P, order) /\ P.state \in NoMarkStates
    BY <1>1, <1>2, <1>5, SameIsSound, PIs DEF BetweenStates
  <2> QED
    BY <1>1, <1>2, <1>5, <2>1, BreakAt
<1>6. CASE Fail(P) /\ due' = due
  BY <1>1, <1>6, FailHere
<1>7. CASE /\ b \in Digits \union {"a"} /\ ~TooBig(parser.length, 16)
           /\ Break([P EXCEPT !.length = Wrap(@ * 16 + Hex(b))])
           /\ due' = due * 16 + Hex(b)
  <2> DEFINE n == Wrap(P.length * 16 + Hex(b))
             p == [P EXCEPT !.length = n]
  <2>1. n = due' /\ n \in 0..MaxLen /\ n < MaxLen
    <3>1. due * 16 + Hex(b) \in 0..(MaxLen - 1)
      BY <1>3, <1>7, HexIs, NotTooBig
    <3>2. due * 16 + Hex(b) \in 0..MaxLen /\ due * 16 + Hex(b) < MaxLen
      BY <3>1, LimitsAssumption
    <3>3. P.length = due
      BY <1>1, <1>3, PIs
    <3> QED
      BY <1>7, <3>2, <3>3, NoWrap
  <2>2. Break(p)
    BY <1>7
  <2> HIDE DEF n
  <2>3. /\ p \in ParserRecords /\ p.state = s /\ p.nread = P.nread /\ p.errno = "OK"
        /\ p.flags = parser.flags /\ p.length = n
    BY <1>1, <2>1, PIs DEF ParserRecords
  <2> HIDE DEF p
  <2>4. Sound(p, order) /\ p.state \in NoMarkStates
    BY <1>1, <1>2, <2>1, <2>3, SizeSound
  <2> QED
    BY <1>1, <1>2, <2>2, <2>4, BreakAt
<1>8. {"s_chunk_size_almost_done", "s_chunk_parameters"} \subseteq SizeStates
  BY DEF SizeStates
<1> QED
  BY <1>4, <1>5, <1>6, <1>7, <1>8 DEF ChunkSize, ChunkParameters

LEMMA ChunkSizeAlmostDoneStep ==
  ASSUME ParserInv, NEW b, ChunkSizeAlmostDone(b)
  PROVE  StepOK
<1> DEFINE s == "s_chunk_size_almost_done"
           on == "chunk_header"
           p == [P EXCEPT !.nread = 0]
<1>1. At(s, b) /\ due' = due /\ s \in SizeStates /\ on \in Notifications
  BY DEF ChunkSizeAlmostDone, SizeStates, Notifications
<1>2. /\ s \in BetweenStates /\ parser.state = s /\ ~order.final
      /\ order.last \in {"headers_complete", "chunk_complete"}
      /\ "CHUNKED" \in parser.flags /\ Fields(parser)
  BY <1>1, SizeAt
<1>3. MayCall(on)
  BY <1>2, MayCallIs
<1>4. \/ Fail(P)
      \/ p.length = 0 /\ Notify(on, [p EXCEPT !.state = "s_header_field_start",
                                              !.flags = @ \union {"TRAILING"}])
      \/ p.length # 0 /\ Notify(on, [p EXCEPT !.state = "s_chunk_data"])
  BY DEF ChunkSizeAlmostDone
<1>5. /\ p \in ParserRecords /\ p.errno = "OK" /\ p.nread = 0 /\ p.length = due'
      /\ p.flags = parser.flags /\ p.length < MaxLen
  <2>1. parser.length < MaxLen /\ parser.length = due
    BY <1>1, <1>2, AtIs DEF Fields
  <2> QED
    BY <1>1, <2>1, PIs DEF ParserRecords
<1> HIDE DEF p
<1>6. ASSUME NEW q
      PROVE  LET o == NewOrder(on, q) IN o.last = on /\ o.chunk /\ ~o.final
  BY <1>1, <1>2, NewOrderIs DEF ParserInv
<1>7. CASE Fail(P)
  BY <1>1, <1>7, FailHere
<1>8. CASE p.length = 0 /\ Notify(on, [p EXCEPT !.state = "s_header_field_start",
                                                !.flags = @ \union {"TRAILING"}])
  <2> DEFINE t == "s_header_field_start"
             q == [p EXCEPT !.state = t, !.flags = @ \union {"TRAILING"}]
             o == NewOrder(on, q)
  <2>1. t \in PlainStates \intersect NoMarkStates \intersect States /\ "TRAILING" \in FlagNames
    BY Kinds DEF FlagNames
  <2>2. /\ q \in ParserRecords /\ q.state = t /\ q.errno = "OK" /\ q.nread = 0
        /\ q.length = due' /\ "TRAILING" \in q.flags
    BY <1>5, <2>1 DEF ParserRecords
  <2>3. Notify(on, q)
    BY <1>8
  <2> HIDE DEF q
  <2>4. InOrder(q, o)
    BY <1>6, <2>2, FieldStartOrder DEF InHeader, BeforeHeaders
  <2>5. Sound(q, o)
    BY <1>2, <2>1, <2>2, <2>4, PlainFields DEF Sound, Counting
  <2> QED
    BY <1>1, <1>2, <1>3, <2>1, <2>2, <2>3, <2>5, NotifyAt
<1>9. CASE p.length # 0 /\ Notify(on, [p EXCEPT !.state = "s_chunk_data"])
  <2> DEFINE t == "s_chunk_data"
             q == [p EXCEPT !.state = t]
             o == NewOrder(on, q)
  <2>1. t \in InChunkStates /\ t \in NoMarkStates /\ t \in States
    BY Kinds DEF InChunkStates
  <2>2. /\ q \in ParserRecords /\ q.state = t /\ q.errno = "OK" /\ q.nread = 0
        /\ q.length = due' /\ q.flags = parser.flags
    BY <1>5, <2>1, WithState
  <2>3. Notify(on, q)
    BY <1>9
  <2>4. q.length \notin {0, MaxLen}
    BY <1>5, <1>9, <2>2, LimitsAssumption
  <2> HIDE DEF q
  <2>5. Fields(q)
    BY <1>2, <2>2, <2>4 DEF Fields, SizeStates
  <2>6. InOrder(q, o)
    BY <1>6, <2>1, <2>2, InChunkOrder
  <2>7. Sound(q, o)
    BY <1>2, <2>2, <2>5, <2>6 DEF Sound, Counting
  <2> QED
    BY <1>1, <1>2, <1>3, <2>1, <2>2, <2>3, <2>7, NotifyAt
<1> QED
  BY <1>4, <1>7, <1>8, <1>9

\* In a chunk behind its bytes.
LEMMA InChunkAt ==
  ASSUME ParserInv, NEW s \in {"s_chunk_data_almost_done", "s_chunk_data_done"}, NEW b,
         At(s, b)
  PROVE  /\ parser.state = s /\ InCall /\ run = 0 /\ "CHUNKED" \in parser.flags
         /\ ~order.final /\ order.chunk /\ order.last \in {"chunk_header", "body"}
         /\ MayCall("body") /\ MayCall("chunk_complete")
<1>1. parser.state = s /\ InCall /\ run = 0 /\ InOrder(parser, order) /\ Fields(parser)
  BY AtIs DEF At
<1>2. "CHUNKED" \in parser.flags
  BY <1>1 DEF Fields, ChunkStates, InChunkStates
<1>3. ~order.final /\ order.chunk /\ order.last \in {"chunk_header", "body"}
  BY <1>1, InChunkOrder DEF InChunkStates
<1> QED
  BY <1>1, <1>2, <1>3, MayCallIs

LEMMA ChunkDataAlmostDoneStep ==
  ASSUME ParserInv, NEW b, ChunkDataAlmostDone(b)
  PROVE  StepOK
<1> DEFINE s == "s_chunk_data_almost_done"
           t == "s_chunk_data_done"
           p == To(t)
<1>1. At(s, b) /\ due' = due
  BY DEF ChunkDataAlmostDone
<1>2. /\ InCall /\ run = 0 /\ "CHUNKED" \in parser.flags /\ ~order.final /\ order.chunk
      /\ order.last \in {"chunk_header", "body"} /\ MayCall("body")
  BY <1>1, InChunkAt
<1>3. DOMAIN mark \in {{}, {"body"}}
  BY <1>1, AtIs
<1>4. t \in InChunkStates /\ t \in NoMarkStates /\ t \in States /\ "body" \in Pieces
  BY Kinds DEF InChunkStates, Pieces
<1>5. /\ p \in ParserRecords /\ p.state = t /\ p.errno = "OK" /\ p.nread = P.nread
      /\ p.flags = parser.flags /\ p.length = due'
  BY <1>1, <1>4, ToIs, AtIs
<1>6. Fail(P) \/ Data("body", p)
  BY DEF ChunkDataAlmostDone
<1> HIDE DEF p
<1>7. Fields(p)
  BY <1>2, <1>5 DEF Fields, SizeStates
<1>8. CASE Fail(P)
  BY <1>1, <1>8, FailHere
<1>9. CASE DOMAIN mark = {"body"} /\ Data("body", p)
  <2> DEFINE o == NewOrder("body", p)
  <2>1. o.last = "body" /\ o.chunk = order.chunk /\ o.final = order.final
    BY <1>4, OtherOrder DEF ParserInv
  <2>2. InOrder(p, o)
    BY <1>2, <1>4, <1>5, <2>1, InChunkOrder
  <2>3. Sound(p, o)
    BY <1>5, <1>7, <2>2 DEF Sound, Counting
  <2> QED
    BY <1>1, <1>2, <1>4, <1>5, <1>9, <2>3, SoundFits, DataStep
<1>10. CASE DOMAIN mark = {} /\ Data("body", p)
  <2>1. Break(p)
    BY <1>10 DEF Data
  <2>2. InOrder(p, order)
    BY <1>2, <1>4, <1>5, InChunkOrder
  <2>3. Sound(p, order)
    BY <1>5, <1>7, <2>2 DEF Sound, Counting
  <2> QED
    BY <1>1, <1>2, <1>4, <1>5, <1>10, <2>1, <2>3, SoundFits, BreakStep
<1> QED
  BY <1>3, <1>6, <1>8, <1>9, <1>10

LEMMA ChunkDataDoneStep ==
  ASSUME ParserInv, NEW b, ChunkDataDone(b)
  PROVE  StepOK
<1> DEFINE s == "s_chunk_data_done"
           t == "s_chunk_size_start"
           on == "chunk_complete"
           q == To(t)
           p == [q EXCEPT !.nread = 0]
           o == NewOrder(on, p)
<1>1. At(s, b) /\ due' = due /\ s \in BetweenStates /\ on \in Notifications
  BY Kinds DEF ChunkDataDone, BetweenStates, InChunkStates, Notifications
<1>2. /\ "CHUNKED" \in parser.flags /\ ~order.final /\ MayCall(on) /\ parser.state = s
  BY <1>1, InChunkAt
<1>3. t \in NoMarkStates /\ t \in States
  BY Kinds
<1>4. /\ q \in ParserRecords /\ q.state = t /\ q.errno = "OK"
      /\ q.flags = parser.flags /\ q.length = due'
  BY <1>1, <1>3, ToIs, AtIs
<1>5. Fail(P) \/ Notify(on, p)
  BY DEF ChunkDataDone
<1> HIDE DEF q
<1>6. /\ p \in ParserRecords /\ p.state = t /\ p.errno = "OK" /\ p.nread = 0
      /\ p.flags = parser.flags /\ p.length = due'
  BY <1>4 DEF ParserRecords
<1> HIDE DEF p
<1>7. CASE Fail(P)
  BY <1>1, <1>7, FailHere
<1>8. CASE Notify(on, p)
  <2>1. o.last = on /\ ~o.chunk /\ ~o.final
    BY <1>1, <1>2, NewOrderIs DEF ParserInv
  <2>2. Fields(p)
    BY <1>2, <1>6 DEF Fields, SizeStates
  <2>3. InOrder(p, o)
    BY <1>6, <2>1, SizeOrder
  <2>4. Sound(p, o)
    BY <1>2, <1>6, <2>2, <2>3 DEF Sound, Counting, BodyPhase
  <2> QED
    BY <1>1, <1>2, <1>3, <1>6, <1>8, <2>4, NotifyAt
<1> QED
  BY <1>5, <1>7, <1>8

LEMMA BodyPartStep ==
  ASSUME ParserInv, NEW b, BodyPart(b)
  PROVE  StepOK
BY BodyIdentityStep, BodyIdentityEofStep, MessageDoneStep, ChunkSizeStartStep, ChunkSizeStep,
   ChunkSizeAlmostDoneStep, ChunkDataStep, ChunkDataAlmostDoneStep, ChunkDataDoneStep
   DEF BodyPart

-----------------------------------------------------------------------------
(* The ends of a call and the calls *)

LEMMA HeaderOverflowStep ==
  ASSUME ParserInv, HeaderOverflow
  PROVE  StepOK
<1>1. InCall /\ Fail(P) /\ due' = due /\ due \in Nat
  BY DEF HeaderOverflow, InCall, ParserInv, VarTypes
<1>2. /\ P \in ParserRecords /\ P.state = parser.state /\ P.flags = parser.flags
      /\ P.length = parser.length /\ P.hs = parser.hs
  BY DEF P, ParserInv, VarTypes, ParserRecords
<1>3. Fields([P EXCEPT !.errno = "error"])
  BY <1>2, WithError DEF ParserInv, Fields
<1> QED
  BY <1>1, <1>2, <1>3, FailStep

\* The record at the end of a call: the bytes of an inner loop are counted.
LEMMA EndRecord ==
  ASSUME ParserInv
  PROVE  LET p == [parser EXCEPT !.nread = @ + run] IN
         /\ p \in ParserRecords /\ p.state = parser.state /\ p.flags = parser.flags
         /\ p.hs = parser.hs /\ p.length = parser.length /\ p.upgrade = parser.upgrade
         /\ p.errno = parser.errno /\ p.nread = parser.nread + run /\ Fields(p)
<1> DEFINE n == parser.nread + run
           p == [parser EXCEPT !.nread = n]
<1>1. parser \in ParserRecords /\ run \in Nat /\ Fields(parser)
  BY DEF ParserInv, VarTypes
<1>2. n \in Nat
  BY <1>1 DEF ParserRecords
<1>3. parser.state = "s_chunk_size_start" => n = parser.nread
  BY <1>1 DEF ParserInv, Running, ParserRecords
<1>4. [parser EXCEPT !.nread = @ + run] = p
  OBVIOUS
<1> HIDE DEF n
<1>5. /\ p \in ParserRecords /\ p.state = parser.state /\ p.flags = parser.flags
      /\ p.hs = parser.hs /\ p.length = parser.length /\ p.upgrade = parser.upgrade
      /\ p.errno = parser.errno /\ p.nread = n
  BY <1>1, <1>2 DEF ParserRecords
<1> HIDE DEF p
<1>6. Fields(p)
  BY <1>1, <1>3, <1>5 DEF Fields
<1> QED
  BY <1>4, <1>5, <1>6 DEF n

\* A call that returns its length without a callback.
LEMMA ReturnStep ==
  ASSUME ParserInv, call \in {"more", "full"}, due' \in Nat,
         NEW p \in ParserRecords, Fields(p),
         p.errno = "OK" => Measures(p, due') /\ InOrder(p, order) /\ owed = 0,
         Quiet(p, 0), call' = "out", whole' = TRUE, ch' = NoByte, mark' = NoMarks
  PROVE  StepOK
<1>1. /\ parser' = p /\ cb' = NoCall /\ owed' = owed /\ run' = 0 /\ skip' = FALSE
      /\ order' = order
  BY DEF Quiet, ParserInv, VarTypes
<1>2. VarTypes'
  <2>1. mark' \in [DOMAIN mark' -> Nat] /\ DOMAIN mark' \subseteq Pieces
    BY NoMarksIs
  <2>2. cb' \in [on : Calls, len : Nat] /\ order' \in Orders
    BY <1>1, NoCallIs DEF ParserInv, VarTypes
  <2>3. owed' \in Nat
    BY <1>1 DEF ParserInv, VarTypes
  <2> QED
    BY <1>1, <2>1, <2>2, <2>3 DEF VarTypes
<1>3. Running'
  BY <1>1 DEF Running
<1>4. Marks'
  BY <1>1, NoMarksIs DEF Marks, MarksFit, Owes, Ok, NoCall, Pieces
<1>5. UpgradeStops'
  BY DEF UpgradeStops
<1>6. Ok
  BY DEF ParserInv, Running
<1>7. MessageStep
  BY <1>1, <1>6, NoCallStep DEF ParserInv
<1>8. Fields(parser)' /\ (Ok' => Measures(parser, due)' /\ InOrder(parser, order)')
  BY <1>1 DEF Ok
<1>9. CountedStep
  BY <1>1 DEF CountedStep, Measures, Ok
<1> QED
  BY <1>2, <1>3, <1>4, <1>5, <1>7, <1>8, <1>9 DEF ParserInv, StepOK

\* What is left of a part at the end of a call may be told.
LEMMA MarkTold ==
  ASSUME ParserInv, call \in {"more", "full"}, NEW k \in DOMAIN mark, NEW p \in ParserRecords,
         p.state = parser.state, p.flags = parser.flags
  PROVE  MayCall(k) /\ k \in Pieces /\ InOrder(p, NewOrder(k, p))
<1> DEFINE s == parser.state
           o == NewOrder(k, p)
<1>1. InOrder(parser, order) /\ s \in States
  BY DEF ParserInv, Running, VarTypes, ParserRecords
<1>2. k \in Pieces
  BY DEF ParserInv, VarTypes
<1>3. o.last = k /\ o.chunk = order.chunk /\ o.final = order.final
  BY <1>2, OtherOrder DEF ParserInv, Pieces
<1>4. \/ k \in MarkSet(s)
      \/ k = "body" /\ s \in BodyStates \union {"s_chunk_data_almost_done"}
  BY DEF ParserInv, Marks, MarksFit, Running
<1>5. CASE k = "url" /\ s \in UrlStates
  BY <1>1, <1>3, <1>5, UrlOrder, MayCallIs, <1>2 DEF InLine
<1>6. CASE k = "status" /\ s = "s_res_status"
  BY <1>1, <1>3, <1>6, StatusOrder, MayCallIs, <1>2 DEF InLine
<1>7. CASE k = "header_field" /\ s = "s_header_field"
  BY <1>1, <1>3, <1>7, FieldOrder, MayCallIs, <1>2 DEF InHeader, BeforeHeaders
<1>8. CASE k = "header_value" /\ s = "s_header_value"
  BY <1>1, <1>3, <1>8, ValueOrder, MayCallIs, <1>2 DEF InHeader
<1>9. CASE k = "body" /\ s \in {"s_body_identity", "s_body_identity_eof"}
  BY <1>1, <1>3, <1>9, BodyOrder, MayCallIs, <1>2
<1>10. CASE k = "body" /\ s \in {"s_chunk_data", "s_chunk_data_almost_done"}
  <2>1. s \in InChunkStates
    BY <1>10 DEF InChunkStates
  <2> QED
    BY <1>1, <1>3, <1>10, <2>1, InChunkOrder, MayCallIs, <1>2
<1> QED
  BY <1>4, <1>5, <1>6, <1>7, <1>8, <1>9, <1>10 DEF MarkSet, BodyStates

LEMMA EndOfDataStep ==
  ASSUME ParserInv, EndOfData
  PROVE  StepOK
<1> DEFINE p == [parser EXCEPT !.nread = @ + run]
           Return == call' = "out" /\ whole' = TRUE /\ ch' = NoByte /\ mark' = NoMarks
           k == CHOOSE j \in DOMAIN mark : TRUE
<1>1. call \in {"more", "full"} /\ due' = due /\ due \in Nat /\ run \in Nat
  BY DEF EndOfData, ParserInv, VarTypes
<1>2. /\ p \in ParserRecords /\ p.state = parser.state /\ p.flags = parser.flags
      /\ p.hs = parser.hs /\ p.length = parser.length /\ p.upgrade = parser.upgrade
      /\ p.errno = parser.errno /\ p.nread = parser.nread + run /\ Fields(p)
  BY EndRecord
<1>3. \/ Quiet([p EXCEPT !.errno = "error"], 0) /\ Return
      \/ ~(run > 0 /\ TooLong(parser, run)) /\ DOMAIN mark = {} /\ Quiet(p, 0) /\ Return
      \/ /\ ~(run > 0 /\ TooLong(parser, run)) /\ DOMAIN mark # {}
         /\ Callback(k, mark[k], 0, p, Return, Return)
  BY DEF EndOfData
<1> HIDE DEF p
<1>4. Ok /\ parser.errno = "OK" /\ Measures(parser, due) /\ InOrder(parser, order)
  BY <1>1 DEF ParserInv, Running, Ok
<1>5. parser.nread \in Nat
  BY DEF ParserInv, VarTypes, ParserRecords
<1>6. ~(run > 0 /\ TooLong(parser, run)) => Measures(p, due')
  BY <1>1, <1>2, <1>4, <1>5, LimitsAssumption DEF Measures, TooLong
<1>7. CASE Quiet([p EXCEPT !.errno = "error"], 0) /\ Return
  <2> DEFINE q == [p EXCEPT !.errno = "error"]
  <2>1. q \in ParserRecords /\ q.errno # "OK" /\ Fields(q) /\ Quiet(q, 0)
    BY <1>2, <1>7, WithError, FieldsWithError
  <2> HIDE DEF q
  <2> QED
    BY <1>1, <1>7, <2>1, ReturnStep
<1>8. CASE ~(run > 0 /\ TooLong(parser, run)) /\ DOMAIN mark = {} /\ Quiet(p, 0) /\ Return
  <2>1. InOrder(p, order)
    BY <1>2, <1>4 DEF InOrder
  <2>2. owed = 0
    BY <1>4, <1>8 DEF ParserInv, Marks, Owes
  <2> QED
    BY <1>1, <1>2, <1>6, <1>8, <2>1, <2>2, ReturnStep
<1>9. CASE /\ ~(run > 0 /\ TooLong(parser, run)) /\ DOMAIN mark # {}
           /\ Callback(k, mark[k], 0, p, Return, Return)
  <2>1. k \in DOMAIN mark
    BY <1>9
  <2>2. MayCall(k) /\ k \in Pieces /\ InOrder(p, NewOrder(k, p))
    BY <1>1, <1>2, <2>1, MarkTold
  <2>3. mark[k] = owed /\ owed \in Nat /\ owed + 0 - owed = 0
    BY <1>4, <2>1 DEF ParserInv, Marks, Owes, VarTypes
  <2>4. Callback(k, mark[k], 0, p, Return, Return)
    BY <1>9
  <2> HIDE DEF k
  <2>5. Called(k, owed, 0, p) /\ parser' = p /\ Return
    BY <2>2, <2>3, <2>4, PiecesPass DEF Callback, Called, NewOrder
  <2>6. Fits(p, NewOrder(k, p), due')
    BY <1>2, <1>4, <1>6, <1>9, <2>2 DEF Fits
  <2> QED
    BY <1>1, <2>2, <2>3, <2>5, <2>6, CallbackReturns
<1> QED
  BY <1>3, <1>7, <1>8, <1>9

\* Between two calls there is no mark and nothing is owed.
LEMMA OutIs ==
  ASSUME ParserInv, call = "out"
  PROVE  DOMAIN mark = {} /\ run = 0 /\ (Ok => owed = 0 /\ Measures(parser, due))
<1>1. DOMAIN mark = {}
  BY DEF ParserInv, Marks, MarksFit
<1>2. run = 0
  BY DEF ParserInv, VarTypes, Running
<1>3. Ok => owed = 0 /\ Measures(parser, due)
  BY <1>1 DEF ParserInv, Marks, Owes
<1> QED
  BY <1>1, <1>2, <1>3

LEMMA MarkHereIs ==
  ASSUME NEW k
  PROVE  LET m == MarkHere(k) IN
         m \in [DOMAIN m -> Nat] /\ DOMAIN m = {k} /\ m[k] = 0
BY DEF MarkHere

LEMMA ExecuteStep ==
  ASSUME ParserInv, Execute
  PROVE  StepOK
<1> DEFINE s == parser.state
<1>1. /\ call = "out" /\ Ok /\ call' = "first" /\ whole' = TRUE /\ cb' = NoCall
      /\ parser' = parser /\ ch' = ch /\ run' = run /\ skip' = skip
      /\ owed' = owed /\ due' = due /\ order' = order
  BY DEF Execute, aux
<1>2. Ok' /\ owed' = 0 /\ run' = 0 /\ Measures(parser, due)
  BY <1>1, OutIs DEF Ok
<1>3. s \in States
  BY DEF ParserInv, VarTypes, ParserRecords
<1>4. /\ mark' \in [DOMAIN mark' -> Nat] /\ DOMAIN mark' = MarkSet(s)
      /\ \A k \in DOMAIN mark' : mark'[k] = 0
  <2>1. CASE s = "s_header_field"
    <3>1. mark' = MarkHere("header_field")
      BY <2>1, Zenon DEF Execute, UrlStates
    <3>2. MarkSet(s) = {"header_field"}
      BY <2>1, MarkSetIs
    <3> QED
      BY <3>1, <3>2 DEF MarkHere
  <2>2. CASE s = "s_header_value"
    <3>1. mark' = MarkHere("header_value")
      BY <2>2, Zenon DEF Execute, UrlStates
    <3>2. MarkSet(s) = {"header_value"}
      BY <2>2, MarkSetIs
    <3> QED
      BY <3>1, <3>2 DEF MarkHere
  <2>3. CASE s \in UrlStates
    <3>1. mark' = MarkHere("url")
      BY <2>3 DEF Execute, UrlStates
    <3>2. MarkSet(s) = {"url"}
      BY <2>3, MarkSetIs
    <3> QED
      BY <3>1, <3>2 DEF MarkHere
  <2>4. CASE s = "s_res_status"
    <3>1. mark' = MarkHere("status")
      BY <2>4, Zenon DEF Execute, UrlStates
    <3> QED
      BY <2>4, <3>1, MarkHereIs, MarkSetIs
  <2>5. CASE s \in NoMarkStates
    <3>1. mark' = NoMarks
      BY <2>5 DEF Execute, NoMarkStates
    <3> QED
      BY <2>5, <3>1, NoMarksIs, MarkSetIs
  <2> QED
    BY <1>3, <2>1, <2>2, <2>3, <2>4, <2>5 DEF NoMarkStates
<1>5. MarkSet(s) \subseteq Pieces
  BY DEF MarkSet
<1>6. VarTypes'
  <2>1. cb' \in [on : Calls, len : Nat] /\ order' \in Orders
    BY <1>1, NoCallIs DEF ParserInv, VarTypes
  <2>2. parser' \in ParserRecords /\ skip' \in BOOLEAN /\ due' \in Nat
    BY <1>1 DEF ParserInv, VarTypes
  <2> QED
    BY <1>1, <1>2, <1>4, <1>5, <2>1, <2>2 DEF VarTypes
<1>7. Running'
  BY <1>1, <1>2 DEF Running
<1>8. Marks' /\ UpgradeStops'
  BY <1>1, <1>2, <1>4 DEF Marks, MarksFit, Owes, UpgradeStops, NoCall
<1>9. Fields(parser)' /\ Measures(parser, due)' /\ InOrder(parser, order)'
  BY <1>1, <1>2 DEF ParserInv
<1>10. MessageStep
  BY <1>1, NoCallStep DEF ParserInv
<1>11. CountedStep
  BY <1>1, <1>2 DEF CountedStep, Measures
<1> QED
  BY <1>6, <1>7, <1>8, <1>9, <1>10, <1>11 DEF ParserInv, StepOK

LEMMA ExecuteLatchedStep ==
  ASSUME ParserInv, ExecuteLatched
  PROVE  StepOK
<1>1. /\ call = "out" /\ ~Ok /\ cb' = NoCall /\ whole' \in BOOLEAN
      /\ call' \in {"ended", "out"}
      /\ parser' = parser /\ ch' = ch /\ mark' = mark /\ run' = run /\ skip' = skip
      /\ owed' = owed /\ due' = due /\ order' = order
  BY DEF ExecuteLatched, aux
<1>2. ~Ok' /\ run' = 0 /\ DOMAIN mark' = {}
  BY <1>1, OutIs DEF Ok
<1>3. VarTypes'
  <2>1. cb' \in [on : Calls, len : Nat]
    BY <1>1, NoCallIs
  <2> QED
    BY <1>1, <2>1 DEF ParserInv, VarTypes
<1>4. Running' /\ Marks' /\ UpgradeStops'
  BY <1>1, <1>2, <1>3 DEF Running, Marks, MarksFit, UpgradeStops, VarTypes
<1>5. MessageStep
  BY <1>1, <1>2, NoCallStep DEF ParserInv
<1> QED
  BY <1>1, <1>2, <1>3, <1>4, <1>5 DEF ParserInv, StepOK, CountedStep

LEMMA ExecuteEofStep ==
  ASSUME ParserInv, ExecuteEof
  PROVE  StepOK
<1> DEFINE Return == call' = "ended" /\ whole' = TRUE
           quiet == parser.state \in {"s_dead", "s_start_req_or_res",
                                      "s_start_res", "s_start_req"}
           on == "message_complete"
           q == [parser EXCEPT !.errno = "error"]
<1>1. /\ call = "out" /\ Ok /\ parser \in ParserRecords /\ due \in Nat
      /\ ch' = ch /\ mark' = mark /\ due' = due
  BY DEF ExecuteEof, aux, ParserInv, VarTypes
<1>2. /\ DOMAIN mark = {} /\ run = 0 /\ owed = 0 /\ Measures(parser, due)
      /\ InOrder(parser, order)
  BY <1>1, OutIs DEF ParserInv
<1>3. /\ q \in ParserRecords /\ q.errno = "error" /\ Fields(q)
  BY <1>1, WithError, FieldsWithError DEF ParserInv
<1>4. \/ /\ parser.state = "s_body_identity_eof"
         /\ Callback(on, 0, 0, parser, Return, Return)
      \/ /\ parser' = [parser EXCEPT !.errno = IF quiet THEN @ ELSE "error"]
         /\ whole' = quiet /\ call' = "ended" /\ cb' = NoCall
         /\ UNCHANGED <<ch, mark, run, skip, aux>>
  BY DEF ExecuteEof
<1>5. CASE /\ parser.state = "s_body_identity_eof"
           /\ Callback(on, 0, 0, parser, Return, Return)
  <2>1. /\ Called(on, 0, 0, parser) /\ Return
        /\ parser' = parser \/ parser' = q
    BY <1>5 DEF Callback, Called, NewOrder
  <2> HIDE DEF q
  <2>2. on \in Notifications /\ on \notin Pieces /\ owed + 0 - 0 = 0
    BY <1>2 DEF Notifications, Pieces
  <2>3. MayCall(on)
    <3>1. ~order.final /\ ~order.chunk /\ order.last \in {"headers_complete", "body"}
      BY <1>2, <1>5, BodyOrder
    <3> QED
      BY <3>1, MayCallIs
  <2>4. /\ cb' \in [on : Calls, len : Nat] /\ cb'.on = on /\ skip' \in BOOLEAN
        /\ order' \in Orders
    BY <2>1, <2>2, CalledTypes
  <2>5. owed' = 0 /\ run' = 0
    BY <2>1, <2>2 DEF Called
  <2>6. parser' \in ParserRecords /\ Fields(parser)' /\ (Ok' => Measures(parser, due)')
    BY <1>1, <1>2, <1>3, <2>1 DEF ParserInv, Ok
  <2>7. VarTypes'
    <3>1. mark' \in [DOMAIN mark' -> Nat] /\ DOMAIN mark' \subseteq Pieces
      BY <1>1 DEF ParserInv, VarTypes
    <3> QED
      BY <1>1, <2>1, <2>4, <2>5, <2>6, <3>1 DEF VarTypes
  <2>8. Running' /\ Marks' /\ UpgradeStops'
    BY <1>1, <1>2, <2>1, <2>2, <2>4, <2>5, <2>7
       DEF Running, Marks, MarksFit, Owes, UpgradeStops, VarTypes
  <2>9. MessageStep
    BY <1>1, <2>1, <2>3, CalledMessage
  <2>10. CountedStep
    BY <2>1, <2>6 DEF CountedStep, Measures
  <2> QED
    BY <2>1, <2>6, <2>7, <2>8, <2>9, <2>10 DEF ParserInv, StepOK
<1>6. CASE /\ parser' = [parser EXCEPT !.errno = IF quiet THEN @ ELSE "error"]
           /\ whole' = quiet /\ call' = "ended" /\ cb' = NoCall
           /\ UNCHANGED <<ch, mark, run, skip, aux>>
  <2>1. (quiet /\ parser' = parser) \/ (~quiet /\ parser' = q)
    BY <1>1, <1>6 DEF ParserRecords
  <2> HIDE DEF q
  <2>2. /\ whole' \in BOOLEAN /\ (Ok' => whole') /\ (Ok' => Ok)
    <3>1. Ok' => quiet
      BY <1>3, <2>1 DEF Ok
    <3>2. Ok
      BY <1>1
    <3>3. whole' \in BOOLEAN
      <4>1. quiet \in BOOLEAN
        OBVIOUS
      <4>2. whole' = quiet
        BY <1>6
      <4> HIDE DEF quiet
      <4> QED
        BY <4>1, <4>2, Zenon
    <3>4. quiet => whole'
      <4>1. whole' = quiet
        BY <1>6
      <4> HIDE DEF quiet
      <4> QED
        BY <4>1, Zenon
    <3> QED
      BY <3>1, <3>2, <3>3, <3>4
  <2>3. /\ run' = run /\ skip' = skip /\ owed' = owed /\ order' = order
    BY <1>6 DEF aux
  <2>4. parser' \in ParserRecords /\ Fields(parser)' /\ (Ok' => Measures(parser, due)')
    BY <1>1, <1>2, <1>3, <2>1 DEF ParserInv, Ok
  <2>5. VarTypes'
    <3>1. mark' \in [DOMAIN mark' -> Nat] /\ DOMAIN mark' \subseteq Pieces
      BY <1>1 DEF ParserInv, VarTypes
    <3>2. cb' \in [on : Calls, len : Nat] /\ order' \in Orders
      BY <1>6, <2>3, NoCallIs DEF ParserInv, VarTypes
    <3>3. run' \in Nat /\ skip' \in BOOLEAN /\ owed' \in Nat /\ due' \in Nat
      BY <1>1, <2>3 DEF ParserInv, VarTypes
    <3> QED
      BY <1>6, <2>2, <2>4, <3>1, <3>2, <3>3 DEF VarTypes
  <2>6. Running' /\ Marks' /\ UpgradeStops'
    BY <1>1, <1>2, <1>6, <2>2, <2>3, <2>5
       DEF Running, Marks, MarksFit, Owes, UpgradeStops, VarTypes
  <2>7. MessageStep
    BY <1>6, <2>2, <2>3, NoCallStep DEF ParserInv
  <2>8. CountedStep
    BY <1>6, <2>4 DEF CountedStep, Measures
  <2> QED
    BY <1>6, <2>4, <2>5, <2>6, <2>7, <2>8 DEF ParserInv, StepOK
<1> QED
  BY <1>4, <1>5, <1>6

LEMMA NextStep ==
  ASSUME ParserInv, Next
  PROVE  StepOK
BY ExecuteStep, ExecuteLatchedStep, ExecuteEofStep, FirstLineStep, HeadersStep, BodyPartStep,
   HeaderOverflowStep, EndOfDataStep DEF Next, Step

LEMMA InitOK == Init => ParserInv
<1> SUFFICES ASSUME Init PROVE ParserInv
  OBVIOUS
<1>1. PICK t \in Types :
        parser = [type |-> t, method |-> "DELETE", old |-> TRUE, status |-> "0",
                  state |-> StartState(t), flags |-> {}, hs |-> "h_general",
                  nread |-> 0, length |-> 0, upgrade |-> FALSE, errno |-> "OK"]
  BY DEF Init
<1>2. StartState(t) \in {"s_start_req", "s_start_res", "s_start_req_or_res"}
  <2>1. t \in {"REQUEST", "RESPONSE", "BOTH"}
    BY TypesAssumption
  <2> QED
    BY <2>1, Zenon DEF StartState
<1>3. StartState(t) \in PlainStates \intersect NoMarkStates \intersect States
  BY <1>2, Kinds
<1>4. /\ parser \in ParserRecords /\ parser.state = StartState(t) /\ parser.errno = "OK"
      /\ parser.nread = 0 /\ parser.length = 0
  <2>1. t \in {"REQUEST", "RESPONSE", "BOTH"} /\ "h_general" \in ValueStates /\ 0 \in 0..MaxLen
    BY TypesAssumption, LimitsAssumption DEF ValueStates
  <2> QED
    BY <1>1, <1>3, <2>1 DEF ParserRecords
<1>5. /\ call = "out" /\ whole = TRUE /\ ch = NoByte /\ mark = NoMarks
      /\ run = 0 /\ skip = FALSE /\ cb = NoCall /\ owed = 0 /\ due = 0
      /\ order = [last |-> "none", chunk |-> FALSE, final |-> FALSE]
  BY DEF Init
<1>6. VarTypes
  <2>1. order \in Orders
    BY <1>5 DEF Orders, Calls
  <2> QED
    BY <1>4, <1>5, <2>1, NoMarksIs, NoCallIs DEF VarTypes
<1>7. Running /\ Marks /\ UpgradeStops
  BY <1>5, NoMarksIs DEF Running, Marks, MarksFit, Owes, UpgradeStops, NoCall
<1>8. Fields(parser)
  BY <1>3, <1>4, PlainFields
<1>9. Measures(parser, due)
  BY <1>4, <1>5, LimitsAssumption DEF Measures
<1>10. InOrder(parser, order)
  BY <1>2, <1>4, <1>5, StartOrder, StartResOrder
<1> QED
  BY <1>6, <1>7, <1>8, <1>9, <1>10 DEF ParserInv

LEMMA StutterOK ==
  ASSUME ParserInv, UNCHANGED vars
  PROVE  ParserInv'
BY DEF vars, aux, ParserInv, VarTypes, Running, Marks, Ok, UpgradeStops

\* Every reachable state of http_parser_execute fits together: marks, counts and
\* lengths, the states' assertions, and the order of the callbacks so far.
THEOREM ParserCorrect == Spec => []ParserInv
<1>1. ParserInv /\ [Next]_vars => ParserInv'
  BY NextStep, StutterOK DEF StepOK
<1> QED
  BY <1>1, InitOK, PTL DEF Spec

-----------------------------------------------------------------------------
(* The properties the run parser checks *)

\* The struct's fields and the variables of a call keep their types, for any bytes:
\* content_length stays within ULLONG_MAX.
THEOREM ParserTypes == Spec => []TypeOK
<1>1. ParserInv => TypeOK
  BY DEF ParserInv, VarTypes, ParserRecords, Calls, TypeOK
<1> QED
  BY <1>1, ParserCorrect, PTL

\* None of the asserts of http_parser_execute fails, wherever the bytes are cut.
THEOREM AssertionsHold == Spec => []Asserts
<1>1. ASSUME ParserInv PROVE Cardinality(DOMAIN mark) <= 1
  <2>1. DOMAIN mark = {} \/ \E k : DOMAIN mark = {k}
    <3>1. parser.state \in States /\ call \in {"out", "first", "more", "full", "ended"}
      BY <1>1 DEF ParserInv, VarTypes, ParserRecords
    <3>2. MarkSet(parser.state) = {} \/ \E k : MarkSet(parser.state) = {k}
      BY <3>1, MarkSetIs DEF NoMarkStates
    <3> QED
      BY <1>1, <3>1, <3>2 DEF ParserInv, Marks, MarksFit
  <2>2. Cardinality(DOMAIN mark) = 0 \/ Cardinality(DOMAIN mark) = 1
    BY <2>1, FS_EmptySet, FS_Singleton
  <2> QED
    BY <2>2
<1>2. ASSUME ParserInv PROVE Asserts
  <2>1. Fields(parser)
    BY <1>2 DEF ParserInv
  <2>2. \A s \in {"s_chunk_size_start", "s_chunk_size", "s_chunk_parameters",
                  "s_chunk_size_almost_done", "s_chunk_data",
                  "s_chunk_data_almost_done", "s_chunk_data_done"} : s \in ChunkStates
    BY DEF ChunkStates, SizeStates, InChunkStates
  <2> QED
    BY <1>1, <1>2, <2>1, <2>2 DEF Asserts, Fields, Ok
<1>3. ParserInv => Asserts
  BY <1>2
<1> QED
  BY <1>3, ParserCorrect, PTL

\* A callback is given all the bytes of its part that came so far, and a call that
\* returns within a part has given them: none is lost, none is told twice.
THEOREM PiecesAreWhole == Spec => []PiecesWhole
<1>1. ParserInv => PiecesWhole
  BY OutIs DEF ParserInv, Marks, PiecesWhole
<1> QED
  BY <1>1, ParserCorrect, PTL

\* content_length is what the digits of Content-Length or of a chunk size say, less
\* the bytes of the body read since: the tests before the multiplications leave no
\* number to overflow.
THEOREM LengthsExact == Spec => []LengthExact
<1>1. ParserInv => LengthExact
  BY DEF ParserInv, Measures, LengthExact
<1> QED
  BY <1>1, ParserCorrect, PTL

\* After a message that asks for another protocol the call reads no more bytes.
THEOREM UpgradeEndsCall == Spec => []UpgradeStops
<1>1. ParserInv => UpgradeStops
  BY DEF ParserInv
<1> QED
  BY <1>1, ParserCorrect, PTL

\* Every byte of a line or header counts against HTTP_MAX_HEADER_SIZE, and no step
\* leaves the count above it without an error.
THEOREM HeadersCounted == Spec => HeaderCounted
<1>1. ParserInv /\ [Next]_vars => [CountedStep]_vars
  BY NextStep DEF StepOK
<1>2. Spec => [][CountedStep]_vars
  BY <1>1, ParserCorrect, PTL DEF Spec
<1> QED
  BY <1>2, PTL DEF HeaderCounted, CountedStep

\* The callbacks of http_parser_execute come in the order of HttpMessages: it
\* implements that specification.
THEOREM MessagesImplemented == Spec => ImplementsMessages
<1>1. Init => Messages!Init
  <2> SUFFICES ASSUME Init PROVE Messages!Init
    OBVIOUS
  <2>1. /\ cb.on = "none" /\ order.last = "none" /\ order.chunk = FALSE
        /\ order.final = FALSE /\ call = "out"
    BY DEF Init, NoCall
  <2>2. parser.errno = "OK"
    BY DEF Init
  <2> QED
    BY <2>1, <2>2 DEF Messages!Init, Ok
<1>2. ParserInv /\ [Next]_vars => [Messages!Next]_(Messages!mvars)
  <2>1. ASSUME ParserInv, Next PROVE [Messages!Next]_(Messages!mvars)
    BY <2>1, NextStep DEF StepOK, MessageStep, Messages!mvars
  <2>2. ASSUME UNCHANGED vars PROVE UNCHANGED Messages!mvars
    BY <2>2 DEF vars, aux, Ok, Messages!mvars
  <2> QED
    BY <2>1, <2>2
<1> QED
  BY <1>1, <1>2, ParserCorrect, PTL DEF Spec, ImplementsMessages, Messages!Spec

-----------------------------------------------------------------------------
(* mcr_http_parse drives http_parser_execute as its user may *)

LEMMA ConnStep ==
  ASSUME ConnNext
  PROVE  Next \/ UNCHANGED vars
BY DEF ConnNext, Recv, Parse, ParseResult, Next

LEMMA ConnStutter ==
  ASSUME UNCHANGED cvars
  PROVE  UNCHANGED vars /\ UNCHANGED glue /\ result' = result
BY DEF cvars

\* Seen without its glue the connection is a run of the parser: all that is shown
\* of http_parser_execute above holds on every connection.
THEOREM ConnRunsParser == ConnSpec => Spec
<1>1. ConnInit => Init
  BY DEF ConnInit
<1>2. [ConnNext]_cvars => [Next]_vars
  BY ConnStep, ConnStutter
<1> QED
  BY <1>1, <1>2, PTL DEF ConnSpec, Spec

-----------------------------------------------------------------------------
(* The context *)

GlueTypes == /\ url \in [of : {"nothing", "this", "earlier"}, len : 0..UrlMax - 1]
             /\ told \in Nat /\ pieces \in 0..2 /\ complete \in BOOLEAN
             /\ result \in {"running", "MCR_OK", "MCR_ERR", "MCR_EAGAIN"}

\* What one call of mcr_url_callback told is kept as far as it fits.
UrlKept == /\ pieces = 0 => told = 0
           /\ pieces = 1 => url = Saved(told)

ConnInv == ParserInv /\ GlueTypes /\ UrlKept /\ NoFalseError

LEMMA SavedIs ==
  ASSUME NEW n \in Nat
  PROVE  /\ Saved(n) \in [of : {"nothing", "this", "earlier"}, len : 0..UrlMax - 1]
         /\ n < UrlMax => Saved(n) = [of |-> "this", len |-> n]
BY UrlMaxAssumption DEF Saved

\* The callbacks keep their part of the context, whatever the parser tells.
LEMMA CallbacksStep ==
  ASSUME GlueTypes, UrlKept, Callbacks, cb'.len \in Nat
  PROVE  /\ url' \in [of : {"nothing", "this", "earlier"}, len : 0..UrlMax - 1]
         /\ told' \in Nat /\ pieces' \in 0..2 /\ complete' \in BOOLEAN
         /\ UrlKept'
<1>1. CASE OnMessageBegin
  <2>1. /\ url' = [url EXCEPT !.of = IF @ = "this" THEN "earlier" ELSE @]
        /\ told' = 0 /\ pieces' = 0 /\ complete' = complete
    BY <1>1 DEF OnMessageBegin
  <2>2. url' \in [of : {"nothing", "this", "earlier"}, len : 0..UrlMax - 1]
    BY <2>1 DEF GlueTypes
  <2> QED
    BY <2>1, <2>2 DEF GlueTypes, UrlKept
<1>2. CASE OnUrl
  <2>1. /\ url' = Saved(cb'.len) /\ told' = told + cb'.len
        /\ pieces' = (IF pieces = 0 THEN 1 ELSE 2) /\ complete' = complete
    BY <1>2 DEF OnUrl
  <2>2. url' \in [of : {"nothing", "this", "earlier"}, len : 0..UrlMax - 1]
    BY <2>1, SavedIs
  <2>3. told \in Nat /\ (pieces = 0 => told' = cb'.len) /\ told' \in Nat
    BY <2>1 DEF GlueTypes, UrlKept
  <2>4. pieces' = 1 => url' = Saved(told')
    BY <2>1, <2>3
  <2>5. UrlKept'
    BY <2>1, <2>4 DEF UrlKept, Saved
  <2> QED
    BY <2>1, <2>2, <2>3, <2>5 DEF GlueTypes
<1>3. CASE OnMessageComplete
  <2>1. UNCHANGED <<url, told, pieces>>
    BY <1>3 DEF OnMessageComplete
  <2>2. complete' \in BOOLEAN
    <3>1. complete' = (complete \/ Ok')
      BY <1>3 DEF OnMessageComplete
    <3> QED
      BY <3>1, Zenon
  <2> QED
    BY <2>1, <2>2 DEF GlueTypes, UrlKept, Saved
<1>4. CASE UNCHANGED glue
  BY <1>4 DEF glue, GlueTypes, UrlKept, Saved
<1> QED
  BY <1>1, <1>2, <1>3, <1>4 DEF Callbacks

LEMMA ConnInitOK == ConnInit => ConnInv
<1> SUFFICES ASSUME ConnInit PROVE ConnInv
  OBVIOUS
<1>1. ParserInv
  BY InitOK DEF ConnInit
<1>2. NoUrl \in [of : {"nothing", "this", "earlier"}, len : 0..UrlMax - 1]
  BY UrlMaxAssumption DEF NoUrl
<1>3. GlueTypes /\ UrlKept /\ NoFalseError
  <2>1. /\ url = NoUrl /\ told = 0 /\ pieces = 0
        /\ complete = FALSE /\ result = "MCR_EAGAIN"
    BY DEF ConnInit
  <2>2. GlueTypes
    <3>1. url \in [of : {"nothing", "this", "earlier"}, len : 0..UrlMax - 1]
      BY <1>2, <2>1, Zenon
    <3>2. complete \in BOOLEAN
      BY <2>1
    <3>3. told \in Nat /\ pieces \in 0..2
      BY <2>1
    <3>4. result \in {"running", "MCR_OK", "MCR_ERR", "MCR_EAGAIN"}
      BY <2>1
    <3> QED
      BY <3>1, <3>2, <3>3, <3>4 DEF GlueTypes
  <2> QED
    BY <2>1, <2>2 DEF UrlKept, NoFalseError
<1> QED
  BY <1>1, <1>3 DEF ConnInv

LEMMA ConnNextOK ==
  ASSUME ConnInv, ConnNext
  PROVE  ConnInv'
<1>1. ParserInv'
  BY ConnStep, NextStep, StutterOK DEF ConnInv, StepOK
<1>2. cb'.len \in Nat
  BY <1>1 DEF ParserInv, VarTypes
<1>3. CASE Callbacks /\ result' \in {"running", result} /\ result # "MCR_ERR"
  <2>1. GlueTypes' /\ UrlKept'
    BY <1>2, <1>3, CallbacksStep DEF ConnInv, GlueTypes
  <2>2. NoFalseError'
    BY <1>3 DEF NoFalseError
  <2> QED
    BY <1>1, <2>1, <2>2 DEF ConnInv
<1>4. CASE ParseResult
  <2>1. UNCHANGED <<vars, glue>>
    BY <1>4 DEF ParseResult
  <2>2. /\ result' \in {"MCR_OK", "MCR_ERR", "MCR_EAGAIN"}
        /\ result' = "MCR_ERR" => ~parser.upgrade /\ ~whole
    <3>1. CASE parser.upgrade
      BY <1>4, <3>1, Zenon DEF ParseResult
    <3>2. CASE ~parser.upgrade /\ ~whole
      BY <1>4, <3>2, Zenon DEF ParseResult
    <3>3. CASE ~parser.upgrade /\ whole
      <4>1. result' = IF call = "ended" \/ complete THEN "MCR_OK" ELSE "MCR_EAGAIN"
        BY <1>4, <3>3, Zenon DEF ParseResult
      <4> QED
        BY <4>1
    <3> QED
      BY <3>1, <3>2, <3>3
  <2>3. NoFalseError'
    BY <2>1, <2>2 DEF ConnInv, ParserInv, Running, NoFalseError, vars, Ok
  <2>4. GlueTypes' /\ UrlKept'
    BY <2>1, <2>2 DEF ConnInv, glue, GlueTypes, UrlKept, Saved
  <2> QED
    BY <1>1, <2>3, <2>4 DEF ConnInv
<1> QED
  BY <1>3, <1>4 DEF ConnNext, Recv, Parse

\* The connection's parser, its URL and the results of mcr_http_parse fit together
\* in every reachable state.
THEOREM ConnCorrect == ConnSpec => []ConnInv
<1>1. ConnInv /\ UNCHANGED cvars => ConnInv'
  <2> SUFFICES ASSUME ConnInv, UNCHANGED cvars PROVE ConnInv'
    OBVIOUS
  <2>1. UNCHANGED vars /\ UNCHANGED glue /\ result' = result
    BY ConnStutter
  <2>2. ParserInv'
    BY <2>1, StutterOK DEF ConnInv
  <2>3. GlueTypes' /\ UrlKept' /\ NoFalseError'
    BY <2>1 DEF ConnInv, GlueTypes, UrlKept, Saved, NoFalseError, Ok, vars, glue
  <2> QED
    BY <2>2, <2>3 DEF ConnInv
<1> QED
  BY <1>1, ConnInitOK, ConnNextOK, PTL DEF ConnSpec

-----------------------------------------------------------------------------
(* The properties the run conn checks *)

\* mcr_http_parse returns MCR_ERR only after the parser refused bytes or a callback
\* failed: a call that reads less than its bytes has an error or an upgrade behind it.
THEOREM ErrorsAreErrors == ConnSpec => []NoFalseError
<1>1. ConnInv => NoFalseError
  BY DEF ConnInv
<1> QED
  BY <1>1, ConnCorrect, PTL

\* A URL that came in one piece and fits into context->url is routed as it was sent.
THEOREM UncutUrlsRouted == ConnSpec => []UncutUrlRouted
<1>1. ASSUME ConnInv PROVE UncutUrlRouted
  <2>1. TypeOK
    BY <1>1 DEF ConnInv, ParserInv, VarTypes, ParserRecords, Calls, TypeOK
  <2>2. ConnTypeOK
    BY <1>1, <2>1 DEF ConnInv, GlueTypes, ConnTypeOK
  <2>3. told \in Nat /\ (pieces = 1 => url = Saved(told))
    BY <1>1 DEF ConnInv, GlueTypes, UrlKept
  <2>4. pieces = 1 /\ told < UrlMax => OwnUrl
    BY <2>3, SavedIs DEF OwnUrl
  <2> QED
    BY <2>2, <2>4 DEF UncutUrlRouted
<1>2. ConnInv => UncutUrlRouted
  BY <1>1
<1> QED
  BY <1>2, ConnCorrect, PTL
=============================================================================
