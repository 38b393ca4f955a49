------------------------------ MODULE UrlChar -------------------------------
(***************************************************************************)
(* The bytes a URL is made of, in the classes http_parser.c tells apart,   *)
(* and parse_url_char, the state machine that http_parser_execute and      *)
(* http_parser_parse_url share.                                            *)
(***************************************************************************)
EXTENDS Naturals

NewLine  == {"CR", "LF"}
Digits   == {"0", "1", "2", "5", "6", "9"}
Alpha    == {"a", "g"}           \* "a": also a hex digit
HexByte  == Digits \union {"a"}
Mark     == {"-", ".", "*"}      \* "-", ".": also in host names
Userinfo == Alpha \union Digits \union Mark \union {":", "%", "+", ","}

\* IS_URL_CHAR in the strict build, without the classes above '?' and '#' have
\* cases of their own.
UrlByte == Userinfo \union {"/", "@", "[", "]"}

DigitValue == [d \in Digits |-> CASE d = "0" -> 0 [] d = "1" -> 1 [] d = "2" -> 2
                                  [] d = "5" -> 5 [] d = "6" -> 6 [] d = "9" -> 9]

UrlStates == {"s_req_schema", "s_req_schema_slash", "s_req_schema_slash_slash",
              "s_req_server_start", "s_req_server", "s_req_server_with_at",
              "s_req_path", "s_req_query_string_start", "s_req_query_string",
              "s_req_fragment_start", "s_req_fragment"}

\* For each state the bytes it takes and where they lead.
ServerMoves ==
  [b \in {"/", "?", "@", "[", "]"} \union Userinfo |->
     CASE b = "/" -> "s_req_path"
       [] b = "?" -> "s_req_query_string_start"
       [] b = "@" -> "s_req_server_with_at"
       [] OTHER   -> "s_req_server"]

UrlMoves == [s \in UrlStates \union {"s_req_spaces_before_url"} |->
  CASE s = "s_req_spaces_before_url" ->
         [b \in {"/", "*"} \union Alpha |->
            IF b \in Alpha THEN "s_req_schema" ELSE "s_req_path"]
    [] s = "s_req_schema" ->
         [b \in Alpha \union {":"} |->
            IF b = ":" THEN "s_req_schema_slash" ELSE s]
    [] s = "s_req_schema_slash" -> [b \in {"/"} |-> "s_req_schema_slash_slash"]
    [] s = "s_req_schema_slash_slash" -> [b \in {"/"} |-> "s_req_server_start"]
    [] s \in {"s_req_server_start", "s_req_server"} -> ServerMoves
    [] s = "s_req_server_with_at" ->
         [b \in DOMAIN ServerMoves \ {"@"} |-> ServerMoves[b]]
    [] s = "s_req_path" ->
         [b \in UrlByte \union {"?", "#"} |->
            CASE b = "?" -> "s_req_query_string_start"
              [] b = "#" -> "s_req_fragment_start"
              [] OTHER   -> s]
    [] s \in {"s_req_query_string_start", "s_req_query_string"} ->
         [b \in UrlByte \union {"?", "#"} |->
            IF b = "#" THEN "s_req_fragment_start" ELSE "s_req_query_string"]
    [] s = "s_req_fragment_start" ->
         [b \in UrlByte \union {"?", "#"} |->
            IF b = "#" THEN s ELSE "s_req_fragment"]
    [] s = "s_req_fragment" -> [b \in UrlByte \union {"?", "#"} |-> s]]

\* parse_url_char(s, b): the next state, s_dead when b has no place there.
parse_url_char(s, b) ==
  IF s \in DOMAIN UrlMoves /\ b \in DOMAIN UrlMoves[s]
  THEN UrlMoves[s][b] ELSE "s_dead"

=============================================================================
