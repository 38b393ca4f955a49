------------------------------- MODULE HttpConn ------------------------------
(***************************************************************************)
(* The http object of one connection: http_parser driven by                *)
(* mcr_http_parse, once for each recv(), with the callbacks of mcr_http.c  *)
(* that keep something: the URL and the complete flag.                     *)
(***************************************************************************)
EXTENDS HttpParser

CONSTANT UrlMax   \* URL_MAX_LENGTH

ASSUME UrlMaxAssumption == UrlMax \in Nat \ {0}

VARIABLES url,      \* context->url: whose it is (nothing: never written; this
                    \* or an earlier message's) and how long
          told,     \* bytes of the URL of this message told so far
          pieces,   \* in how many calls of mcr_url_callback: 0, 1, 2 for more
          complete, \* context->complete_flag
          result    \* of the last mcr_http_parse; running: it is not over

glue  == <<url, told, pieces, complete>>
cvars == <<vars, glue, result>>

NoUrl == [of |-> "nothing", len |-> 0]

ConnInit == /\ Init /\ url = NoUrl /\ told = 0 /\ pieces = 0
            /\ complete = FALSE /\ result = "MCR_EAGAIN"

-----------------------------------------------------------------------------
(* The callbacks, made by the step of the parser they are conjoined to *)

\* A new message: nothing is done, what is kept is now an earlier message's.
OnMessageBegin ==
  /\ cb'.on = "message_begin"
  /\ url' = [url EXCEPT !.of = IF @ = "this" THEN "earlier" ELSE @]
  /\ told' = 0 /\ pieces' = 0 /\ UNCHANGED complete

\* Mutant: only what fits is kept, and there is no room for the last byte.
SavedShort(len) == [of |-> "this", len |-> IF len < UrlMax - 1 THEN len
                                           ELSE UrlMax - 2]

\* snprintf() into url[URL_MAX_LENGTH].
Saved(len) == [of |-> "this", len |-> IF len < UrlMax THEN len ELSE UrlMax - 1]

OnUrl ==
  /\ cb'.on = "url" /\ url' = Saved(cb'.len)
  /\ told' = told + cb'.len /\ pieces' = IF pieces = 0 THEN 1 ELSE 2
  /\ UNCHANGED complete

\* mcr_route with context->url, and send(): if that fails the parser stops.
OnMessageComplete ==
  /\ cb'.on = "message_complete"
  /\ complete' = (complete \/ Ok')
  /\ UNCHANGED <<url, told, pieces>>

\* The other callbacks do nothing.
Callbacks ==
  \/ OnMessageBegin \/ OnUrl \/ OnMessageComplete
  \/ /\ cb'.on \notin {"message_begin", "url", "message_complete"}
     /\ UNCHANGED glue

-----------------------------------------------------------------------------
\* recv() has returned bytes, or 0 at the end of the stream.
Recv ==
  /\ result = "MCR_EAGAIN" /\ call = "out"
  /\ Execute \/ ExecuteLatched \/ ExecuteEof
  /\ result' = "running" /\ Callbacks

Parse == result = "running" /\ Step /\ Callbacks /\ UNCHANGED result

\* The part of Parse in which the bytes of recv() are through.
ParseEnd == result = "running" /\ EndOfData /\ Callbacks /\ UNCHANGED result

\* Mutant: the length is looked at before upgrade.
ParseResultLate ==
  /\ result = "running" /\ call \in {"out", "ended"}
  /\ result' = CASE ~whole -> "MCR_ERR"
                 [] parser.upgrade -> "MCR_EAGAIN"
                 [] OTHER -> IF call = "ended" \/ complete THEN "MCR_OK"
                             ELSE "MCR_EAGAIN"
  /\ UNCHANGED <<vars, glue>>

\* Mutant: complete_flag is not looked at.
ParseResultKeepsAlive ==
  /\ result = "running" /\ call \in {"out", "ended"}
  /\ result' = CASE parser.upgrade -> "MCR_EAGAIN"
                 [] ~parser.upgrade /\ ~whole -> "MCR_ERR"
                 [] OTHER -> IF call = "ended" THEN "MCR_OK" ELSE "MCR_EAGAIN"
  /\ UNCHANGED <<vars, glue>>

\* What mcr_http_parse makes of the number of bytes parsed.
ParseResult ==
  /\ result = "running" /\ call \in {"out", "ended"}
  /\ result' = CASE parser.upgrade -> "MCR_EAGAIN"
                 [] ~parser.upgrade /\ ~whole -> "MCR_ERR"
                 [] OTHER -> IF call = "ended" \/ complete THEN "MCR_OK"
                             ELSE "MCR_EAGAIN"
  /\ UNCHANGED <<vars, glue>>

ConnNext == Recv \/ Parse \/ ParseResult

ConnSpec == ConnInit /\ [][ConnNext]_cvars

\* The worker's thread runs, and a call has no more bytes than one recv() returned,
\* at most the size of its buffer; nobody has to send anything.
FairConnSpec == /\ ConnSpec
                /\ WF_cvars(Parse \/ ParseResult) /\ SF_cvars(ParseEnd)

-----------------------------------------------------------------------------
\* The context and the parser have their types; url is never longer than its array.
ConnTypeOK ==
  /\ TypeOK
  /\ url \in [of : {"nothing", "this", "earlier"}, len : 0..UrlMax - 1]
  /\ told \in Nat /\ pieces \in 0..2 /\ complete \in BOOLEAN
  /\ result \in {"running", "MCR_OK", "MCR_ERR", "MCR_EAGAIN"}

Routing == cb.on = "message_complete" /\ result = "running"

OwnUrl == url = [of |-> "this", len |-> told]

\* The URL that is routed is all of the URL of the message that is complete:
\* "save url" (mcr_url_callback).  The parser tells a URL in as many pieces as
\* the bytes come in, and each overwrites the one before.
RoutesOwnUrl == Routing => OwnUrl

\* It is, whatever headers, bodies and earlier messages there are, when the URL
\* came in one piece and fits into context->url.
UncutUrlRouted ==
  /\ ConnTypeOK
  /\ Routing /\ pieces = 1 /\ told < UrlMax => OwnUrl

\* MCR_ERR closes only a connection whose bytes the parser did not take, or on
\* which a send() failed; never one that goes over to another protocol.
NoFalseError == result = "MCR_ERR" => ~Ok

\* mcr_http_parse returns; when nothing is upgraded, a message answered ends
\* the connection.
AnswerEnds == complete ~> (result \in {"MCR_OK", "MCR_ERR"} \/ parser.upgrade)

=============================================================================
