---------------------------- MODULE HttpMessages -----------------------------
(***************************************************************************)
(* The calls a user of http_parser gets, without bytes or states: message  *)
(* after message, each with its parts in order and completed once, until a *)
(* message does not keep the connection or a callback asks to stop.        *)
(***************************************************************************)
EXTENDS Naturals

VARIABLES now,     \* the callback being made, "none" between two
          last,    \* the last callback made; "none": no message has begun
          trailer, \* in the chunked part of a message: after its chunk header
          over     \* nothing more may come

mvars == <<now, last, trailer, over>>

Notifications == {"message_begin", "headers_complete", "message_complete",
                  "chunk_header", "chunk_complete"}
Pieces == {"url", "status", "header_field", "header_value", "body"}

\* What may come after callback `from`; the pieces of one part repeat, and an
\* empty line before a response is begun again.
Follows(from, chunk) ==
  CASE from = "none"             -> {"message_begin"}
    [] from = "message_begin"    -> {"message_begin", "url", "status"}
    [] from = "url"              -> {"url", "header_field", "headers_complete"}
    [] from = "status"           -> {"status", "header_field",
                                     "headers_complete"}
    [] from = "header_field"     -> {"header_field", "header_value"}
    [] from = "header_value"     -> {"header_value", "header_field"} \union
                                    IF chunk THEN {"chunk_complete"}
                                             ELSE {"headers_complete"}
    [] from = "headers_complete" -> {"body", "chunk_header", "message_complete"}
    [] from = "body"             -> {"body"} \union
                                    IF chunk THEN {"chunk_complete"}
                                             ELSE {"message_complete"}
    [] from = "chunk_header"     -> {"body", "header_field", "chunk_complete"}
    [] from = "chunk_complete"   -> {"chunk_header", "message_complete"}
    [] from = "message_complete" -> {"message_begin"}

Init == now = "none" /\ last = "none" /\ trailer = FALSE /\ over = FALSE

Call(on) ==
  /\ ~over /\ on \in Follows(last, trailer)
  /\ now' = on /\ last' = on
  /\ trailer' = CASE on = "chunk_header" -> TRUE
                  [] on \in {"chunk_complete", "message_begin"} -> FALSE
                  [] OTHER -> trailer
  /\ over' \in BOOLEAN

\* The callback is over, and perhaps everything.
Return == /\ now' = "none" /\ over' \in {over, TRUE}
          /\ UNCHANGED <<last, trailer>>

Next == (\E on \in Notifications \union Pieces : Call(on)) \/ Return

Spec == Init /\ [][Next]_mvars

=============================================================================
