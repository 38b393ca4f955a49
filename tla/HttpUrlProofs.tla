---------------------------- MODULE HttpUrlProofs ----------------------------
(***************************************************************************)
(* Theorems about http_parser_parse_url and http_parse_host: for URLs of   *)
(* any length, any bytes in them and whatever stands behind them.          *)
(***************************************************************************)
EXTENDS HttpUrl, LeastNumber, SequenceTheorems

-----------------------------------------------------------------------------
(* The inductive invariant *)

\* The place of each field in a URL.
Rank == [f \in Fields |-> CASE f = "SCHEMA" -> 1 [] f = "USERINFO" -> 2 [] f = "HOST" -> 3
                            [] f = "PORT" -> 4 [] f = "PATH" -> 5 [] f = "QUERY" -> 6
                            [] f = "FRAGMENT" -> 7]

\* The last of the fields there may be when the URL is in state t.
Reached(t) ==
  CASE t = "s_req_spaces_before_url" -> 0
    [] t \in {"s_req_schema", "s_req_schema_slash", "s_req_schema_slash_slash",
              "s_req_server_start"} -> 1
    [] t \in {"s_req_server", "s_req_server_with_at"} -> 3
    [] t \in {"s_req_path", "s_req_query_string_start"} -> 5
    [] t \in {"s_req_query_string", "s_req_fragment_start"} -> 6
    [] OTHER -> 7

Delimiters == {":", "/", "@", "[", "]", "?", "#"}

\* The byte behind a field.
After(f) == field[f].off + field[f].len

\* http_parse_host is not at the host yet: field_data has only its offset.
NoHostYet == {"s_http_userinfo_start", "s_http_userinfo", "s_http_host_start",
              "s_http_host_v6_start"}
Cut == IF hs \in NoHostYet THEN set \ {"HOST"} ELSE set

HostNamed == \A i \in field["HOST"].off..After("HOST") - 1 : url[i] \in HostByte
HostOpen  == /\ field["HOST"].off > 1 /\ url[field["HOST"].off - 1] = "["
             /\ \A i \in field["HOST"].off..After("HOST") - 1 : url[i] # "]"
HostClosed == HostOpen /\ After("HOST") <= Len(url) /\ url[After("HOST")] = "]"

HostStatesAll == {"s_http_userinfo_start", "s_http_userinfo", "s_http_host_start",
                  "s_http_host_v6_start", "s_http_host", "s_http_host_v6",
                  "s_http_host_v6_end", "s_http_host_v6_zone_start",
                  "s_http_host_v6_zone", "s_http_host_port_start", "s_http_host_port"}

Types ==
  /\ url \in Seq(Bytes) /\ behind \in Seq(Digits) /\ is_connect \in BOOLEAN
  /\ found_at \in BOOLEAN
  /\ set \subseteq Fields /\ old \in Fields \union {"NONE"} /\ port \in 0..MaxPort
  /\ field \in [Fields -> [off : Nat, len : Nat]]
  /\ \A f \in Fields : field[f].off <= Len(url) /\ After(f) <= Len(url) + 1
  /\ p \in Nat /\ end \in Nat /\ p <= end /\ end <= Len(url) + 1
  /\ hs \in HostStatesAll \union {"none"}
  /\ pc \in {"url", "host", "port", "done"} /\ ret \in {"none", "0", "1"}
  /\ ret = "none" <=> pc # "done"
  /\ s \in UrlStates \union {"s_req_spaces_before_url", "s_dead"}
  /\ s = "s_dead" => ret = "1"

\* The fields do not overlap, and what is in none is a delimiter or still to be
\* looked at by http_parse_host.
Tiled ==
  /\ \A f \in Cut : field[f].len >= 1 /\ Opened(f, field[f].off)
                    /\ field[f].off >= IF f \in {"PORT", "QUERY", "FRAGMENT"} THEN 2 ELSE 1
  /\ \A f, g \in Cut : Rank[f] < Rank[g] => After(f) <= field[g].off
  /\ \A i \in 1..Len(url) :
       \/ \E f \in Cut : i \in field[f].off..After(f) - 1
       \/ url[i] \in Delimiters
       \/ i \in p..end - 1

\* The field at work reaches to the last byte; a delimiter lets the next begin.
UrlPart == pc = "url" =>
  /\ hs = "none" /\ p = 0 /\ end = 0
  /\ \A f \in set : Rank[f] <= Reached(s) /\ f \notin {"USERINFO", "PORT"}
  /\ old # "NONE" => old \in set
  /\ FieldOf(s) # "NONE" => old = FieldOf(s) /\ After(old) = Len(url) + 1
  /\ s = "s_req_spaces_before_url" => url = <<>>
  /\ s = "s_req_server_start" => url = <<>> \/ url[Len(url)] = "/"
  /\ s = "s_req_query_string_start" => url # <<>> /\ url[Len(url)] = "?"
  /\ s = "s_req_fragment_start" => url # <<>> /\ url[Len(url)] = "#"
  /\ "HOST" \in set =>
       /\ field["HOST"].off = 1 \/ url[field["HOST"].off - 1] = "/"
       /\ FieldOf(s) = "HOST" \/ After("HOST") <= Len(url)
       /\ After("HOST") <= Len(url) => url[After("HOST")] \in {"/", "?"}

\* Without a host there is no server part, and no schema.
NoServer == hs = "none" /\ pc # "url" =>
  pc # "host" /\ p = 0 /\ end = 0 /\ set \intersect {"SCHEMA", "USERINFO", "HOST", "PORT"} = {}

\* The server part up to p.
ServerPart == hs # "none" =>
  /\ "HOST" \in set /\ p \in 1..end
  /\ \A f \in set : Rank[f] > 4 => field[f].off >= end
  /\ \A f \in Cut : Rank[f] <= 4 => After(f) <= p
  /\ end <= Len(url) => url[end] \in {"/", "?"}
  /\ hs = "s_http_userinfo_start" => p = 1 \/ url[p - 1] = "/"
  /\ hs = "s_http_host_start"     => p = 1 \/ url[p - 1] \in {"/", "@"}
  /\ hs = "s_http_host_v6_start"  => p > 1 /\ url[p - 1] = "["
  /\ hs = "s_http_host_port_start" => url[p - 1] = ":"
  /\ HostField(hs) # "NONE" => HostField(hs) \in set /\ After(HostField(hs)) = p
  /\ "USERINFO" \in set => /\ hs # "s_http_userinfo_start"
                           /\ hs = "s_http_userinfo" \/ url[After("USERINFO")] = "@"
  /\ "PORT" \in set <=> hs = "s_http_host_port"
  /\ hs = "s_http_host" => HostNamed
  /\ hs \in {"s_http_host_v6", "s_http_host_v6_zone_start", "s_http_host_v6_zone"} => HostOpen
  /\ hs \in {"s_http_host_v6_end", "s_http_host_port_start", "s_http_host_port"} =>
       HostNamed \/ HostClosed
  /\ "PORT" \in set => \A i \in field["PORT"].off..After("PORT") - 1 : url[i] \in Digits
  /\ pc # "host" => p = end /\ hs \in HostStates

\* The digits strtoul() reads: where the URL ends with the field, those behind it too.
Number == IF field["PORT"].off + Len(PortText) > Len(url) THEN PortText \o behind ELSE PortText

PortRead == Accepted /\ "PORT" \in set => port = Decimal(Number)

\* What parse_url returns with success has passed its checks.
Passed == ret = "0" =>
  /\ is_connect => set = {"HOST", "PORT"}
  /\ PortRead

UrlInv == Types /\ (ret # "1" => Tiled /\ UrlPart /\ NoServer /\ ServerPart) /\ Passed


-----------------------------------------------------------------------------
(* The tables *)

LEMMA RankIs ==
  /\ Rank["SCHEMA"] = 1 /\ Rank["USERINFO"] = 2 /\ Rank["HOST"] = 3 /\ Rank["PORT"] = 4
  /\ Rank["PATH"] = 5 /\ Rank["QUERY"] = 6 /\ Rank["FRAGMENT"] = 7
  /\ \A f \in Fields : Rank[f] \in 1..7
  /\ \A f, g \in Fields : Rank[f] = Rank[g] => f = g
<1>1. /\ Rank["SCHEMA"] = 1 /\ Rank["USERINFO"] = 2 /\ Rank["HOST"] = 3 /\ Rank["PORT"] = 4
      /\ Rank["PATH"] = 5 /\ Rank["QUERY"] = 6 /\ Rank["FRAGMENT"] = 7
  BY DEF Rank, Fields
<1> QED
  BY <1>1 DEF Fields

LEMMA FieldOfIs ==
  /\ FieldOf("s_req_spaces_before_url") = "NONE" /\ FieldOf("s_req_schema") = "SCHEMA"
  /\ FieldOf("s_req_schema_slash") = "NONE" /\ FieldOf("s_req_schema_slash_slash") = "NONE"
  /\ FieldOf("s_req_server_start") = "NONE" /\ FieldOf("s_req_server") = "HOST"
  /\ FieldOf("s_req_server_with_at") = "HOST" /\ FieldOf("s_req_path") = "PATH"
  /\ FieldOf("s_req_query_string_start") = "NONE" /\ FieldOf("s_req_query_string") = "QUERY"
  /\ FieldOf("s_req_fragment_start") = "NONE" /\ FieldOf("s_req_fragment") = "FRAGMENT"
  /\ FieldOf("s_dead") = "NONE"
BY DEF FieldOf

LEMMA ReachedIs ==
  /\ Reached("s_req_spaces_before_url") = 0 /\ Reached("s_req_schema") = 1
  /\ Reached("s_req_schema_slash") = 1 /\ Reached("s_req_schema_slash_slash") = 1
  /\ Reached("s_req_server_start") = 1 /\ Reached("s_req_server") = 3
  /\ Reached("s_req_server_with_at") = 3 /\ Reached("s_req_path") = 5
  /\ Reached("s_req_query_string_start") = 5 /\ Reached("s_req_query_string") = 6
  /\ Reached("s_req_fragment_start") = 6 /\ Reached("s_req_fragment") = 7
BY DEF Reached

\* The moves of parse_url_char, by where they lead.
Move(from, b, to) ==
  \/ from = "s_req_spaces_before_url" /\ to = "s_req_schema"
  \/ from = "s_req_spaces_before_url" /\ b \in {"/", "*"} /\ to = "s_req_path"
  \/ from = "s_req_schema" /\ to = "s_req_schema"
  \/ from = "s_req_schema" /\ b = ":" /\ to = "s_req_schema_slash"
  \/ from = "s_req_schema_slash" /\ b = "/" /\ to = "s_req_schema_slash_slash"
  \/ from = "s_req_schema_slash_slash" /\ b = "/" /\ to = "s_req_server_start"
  \/ /\ from \in {"s_req_server_start", "s_req_server", "s_req_server_with_at"}
     /\ \/ b = "/" /\ to = "s_req_path"
        \/ b = "?" /\ to = "s_req_query_string_start"
        \/ to \in {"s_req_server", "s_req_server_with_at"}
  \/ from = "s_req_path" /\ to = "s_req_path"
  \/ from = "s_req_path" /\ b = "?" /\ to = "s_req_query_string_start"
  \/ from = "s_req_path" /\ b = "#" /\ to = "s_req_fragment_start"
  \/ /\ from \in {"s_req_query_string_start", "s_req_query_string"}
     /\ \/ b = "#" /\ to = "s_req_fragment_start"
        \/ to = "s_req_query_string"
  \/ from = "s_req_fragment_start" /\ b = "#" /\ to = "s_req_fragment_start"
  \/ from \in {"s_req_fragment_start", "s_req_fragment"} /\ to = "s_req_fragment"

LEMMA ServerMovesIs ==
  /\ DOMAIN ServerMoves = {"/", "?", "@", "[", "]"} \union Userinfo
  /\ \A b \in DOMAIN ServerMoves :
       \/ b = "/" /\ ServerMoves[b] = "s_req_path"
       \/ b = "?" /\ ServerMoves[b] = "s_req_query_string_start"
       \/ ServerMoves[b] \in {"s_req_server", "s_req_server_with_at"}
BY DEF ServerMoves

LEMMA UrlMovesIs ==
  ASSUME NEW from \in UrlStates \union {"s_req_spaces_before_url"},
         NEW b \in DOMAIN UrlMoves[from]
  PROVE  Move(from, b, UrlMoves[from][b])
<1> DEFINE to == UrlMoves[from][b]
<1>1. CASE from = "s_req_spaces_before_url"
  <2>1. UrlMoves[from] = [c \in {"/", "*"} \union Alpha |->
                            IF c \in Alpha THEN "s_req_schema" ELSE "s_req_path"]
    BY <1>1, Zenon DEF UrlMoves, UrlStates
  <2>2. to = IF b \in Alpha THEN "s_req_schema" ELSE "s_req_path"
    BY <2>1
  <2>3. b \in Alpha \/ b \in {"/", "*"}
    BY <2>1
  <2> QED
    BY <1>1, <2>2, <2>3 DEF Move
<1>2. CASE from = "s_req_schema"
  <2>1. UrlMoves[from] = [c \in Alpha \union {":"} |->
                            IF c = ":" THEN "s_req_schema_slash" ELSE from]
    BY <1>2, Zenon DEF UrlMoves, UrlStates
  <2>2. to = IF b = ":" THEN "s_req_schema_slash" ELSE from
    BY <2>1
  <2> QED
    BY <1>2, <2>2 DEF Move
<1>3. CASE from = "s_req_schema_slash"
  <2>1. UrlMoves[from] = [c \in {"/"} |-> "s_req_schema_slash_slash"]
    BY <1>3, Zenon DEF UrlMoves, UrlStates
  <2>2. b = "/" /\ to = "s_req_schema_slash_slash"
    BY <2>1
  <2> QED
    BY <1>3, <2>2 DEF Move
<1>4. CASE from = "s_req_schema_slash_slash"
  <2>1. UrlMoves[from] = [c \in {"/"} |-> "s_req_server_start"]
    BY <1>4, Zenon DEF UrlMoves, UrlStates
  <2>2. b = "/" /\ to = "s_req_server_start"
    BY <2>1
  <2> QED
    BY <1>4, <2>2 DEF Move
<1>5. CASE from \in {"s_req_server_start", "s_req_server"}
  <2>1. UrlMoves[from] = ServerMoves
    BY <1>5, Zenon DEF UrlMoves, UrlStates
  <2>2. \/ b = "/" /\ to = "s_req_path"
        \/ b = "?" /\ to = "s_req_query_string_start"
        \/ to \in {"s_req_server", "s_req_server_with_at"}
    BY <2>1, ServerMovesIs
  <2> QED
    BY <1>5, <2>2 DEF Move
<1>6. CASE from = "s_req_server_with_at"
  <2>1. UrlMoves[from] = [c \in DOMAIN ServerMoves \ {"@"} |-> ServerMoves[c]]
    BY <1>6, Zenon DEF UrlMoves, UrlStates
  <2>2. b \in DOMAIN ServerMoves /\ to = ServerMoves[b]
    BY <2>1
  <2>3. \/ b = "/" /\ to = "s_req_path"
        \/ b = "?" /\ to = "s_req_query_string_start"
        \/ to \in {"s_req_server", "s_req_server_with_at"}
    BY <2>2, ServerMovesIs
  <2> QED
    BY <1>6, <2>3 DEF Move
<1>7. CASE from = "s_req_path"
  <2>1. UrlMoves[from] = [c \in UrlByte \union {"?", "#"} |->
                            CASE c = "?" -> "s_req_query_string_start"
                              [] c = "#" -> "s_req_fragment_start"
                              [] OTHER   -> from]
    BY <1>7, Zenon DEF UrlMoves, UrlStates
  <2>2. \/ b = "?" /\ to = "s_req_query_string_start"
        \/ b = "#" /\ to = "s_req_fragment_start"
        \/ to = from
    BY <2>1
  <2> QED
    BY <1>7, <2>2 DEF Move
<1>8. CASE from \in {"s_req_query_string_start", "s_req_query_string"}
  <2>1. UrlMoves[from] = [c \in UrlByte \union {"?", "#"} |->
                            IF c = "#" THEN "s_req_fragment_start" ELSE "s_req_query_string"]
    BY <1>8, Zenon DEF UrlMoves, UrlStates
  <2>2. to = IF b = "#" THEN "s_req_fragment_start" ELSE "s_req_query_string"
    BY <2>1
  <2> QED
    BY <1>8, <2>2 DEF Move
<1>9. CASE from = "s_req_fragment_start"
  <2>1. UrlMoves[from] = [c \in UrlByte \union {"?", "#"} |->
                            IF c = "#" THEN from ELSE "s_req_fragment"]
    BY <1>9, Zenon DEF UrlMoves, UrlStates
  <2>2. to = IF b = "#" THEN from ELSE "s_req_fragment"
    BY <2>1
  <2> QED
    BY <1>9, <2>2 DEF Move
<1>10. CASE from = "s_req_fragment"
  <2>1. UrlMoves[from] = [c \in UrlByte \union {"?", "#"} |-> from]
    BY <1>10, Zenon DEF UrlMoves, UrlStates
  <2>2. to = from
    BY <2>1
  <2> QED
    BY <1>10, <2>2 DEF Move
<1> QED
  BY <1>1, <1>2, <1>3, <1>4, <1>5, <1>6, <1>7, <1>8, <1>9, <1>10 DEF UrlStates

\* What a byte that has a place in the URL does to the fields.
LEMMA MoveIs ==
  ASSUME NEW from \in UrlStates \union {"s_req_spaces_before_url"}, NEW b,
         NEW to, to = parse_url_char(from, b), to # "s_dead"
  PROVE  /\ to \in UrlStates /\ Reached(from) \in 0..7 /\ Reached(to) \in 0..7
         /\ Reached(from) <= Reached(to)
         /\ FieldOf(to) = "NONE" => b \in Delimiters
         /\ FieldOf(to) # "NONE" => /\ FieldOf(to) \in Fields \ {"USERINFO", "PORT"}
                                    /\ Rank[FieldOf(to)] <= Reached(to)
                                    /\ \/ FieldOf(to) = FieldOf(from)
                                       \/ Rank[FieldOf(to)] > Reached(from)
         /\ FieldOf(to) = "SCHEMA" /\ FieldOf(from) # "SCHEMA" =>
              from = "s_req_spaces_before_url"
         /\ FieldOf(to) = "HOST" /\ FieldOf(from) # "HOST" => from = "s_req_server_start"
         /\ FieldOf(to) = "PATH" /\ FieldOf(from) # "PATH" => b \in {"/", "*"}
         /\ FieldOf(to) = "QUERY" /\ FieldOf(from) # "QUERY" =>
              from = "s_req_query_string_start"
         /\ FieldOf(to) = "FRAGMENT" /\ FieldOf(from) # "FRAGMENT" =>
              from = "s_req_fragment_start"
         /\ FieldOf(from) = "HOST" /\ FieldOf(to) # "HOST" => b \in {"/", "?"}
         /\ to = "s_req_server_start" => b = "/"
         /\ to = "s_req_query_string_start" => b = "?"
         /\ to = "s_req_fragment_start" => b = "#"
<1>1. Move(from, b, to)
  <2>1. b \in DOMAIN UrlMoves[from] /\ to = UrlMoves[from][b]
    BY DEF parse_url_char
  <2> QED
    BY <2>1, UrlMovesIs
<1> QED
  BY <1>1, FieldOfIs, ReachedIs, RankIs DEF Move, UrlStates, Fields, Delimiters

LEMMA FieldReached ==
  ASSUME NEW from \in UrlStates \union {"s_req_spaces_before_url"}, FieldOf(from) # "NONE"
  PROVE  Rank[FieldOf(from)] = Reached(from)
BY FieldOfIs, ReachedIs, RankIs DEF UrlStates

\* The moves of http_parse_host_char, by where they lead.
HostMove(h, b, new) ==
  \/ h \in {"s_http_userinfo", "s_http_userinfo_start"} /\ b = "@" /\ new = "s_http_host_start"
  \/ h \in {"s_http_userinfo", "s_http_userinfo_start"} /\ new = "s_http_userinfo"
  \/ h = "s_http_host_start" /\ b = "[" /\ new = "s_http_host_v6_start"
  \/ h \in {"s_http_host_start", "s_http_host"} /\ b \in HostByte /\ new = "s_http_host"
  \/ h \in {"s_http_host", "s_http_host_v6_end"} /\ b = ":" /\ new = "s_http_host_port_start"
  \/ h \in {"s_http_host_v6", "s_http_host_v6_zone"} /\ b = "]" /\ new = "s_http_host_v6_end"
  \/ h = "s_http_host_v6" /\ b # "]" /\ new = "s_http_host_v6_zone_start"
  \/ h \in {"s_http_host_v6", "s_http_host_v6_start"} /\ b # "]" /\ new = "s_http_host_v6"
  \/ /\ h \in {"s_http_host_v6_zone", "s_http_host_v6_zone_start"} /\ b # "]"
     /\ new = "s_http_host_v6_zone"
  \/ h \in {"s_http_host_port", "s_http_host_port_start"} /\ b \in Digits
     /\ new = "s_http_host_port"

LEMMA BytesApart ==
  /\ "]" \notin HexByte \union {":", "."} /\ "]" \notin ZoneByte
BY DEF HexByte, Digits, ZoneByte, HostByte, Alpha

LEMMA HostCharIs ==
  ASSUME NEW h \in HostStatesAll, NEW b, NEW new, new = HostChar(h, b),
         new # "s_http_host_dead"
  PROVE  HostMove(h, b, new)
<1>1. CASE h \in {"s_http_userinfo", "s_http_userinfo_start"}
  BY <1>1 DEF HostChar, HostMove
<1>2. CASE h = "s_http_host_start"
  BY <1>2 DEF HostChar, HostMove, HostMoves
<1>3. CASE h = "s_http_host"
  BY <1>3 DEF HostChar, HostMove, HostMoves
<1>4. CASE h = "s_http_host_v6_end"
  BY <1>4 DEF HostChar, HostMove
<1>5. CASE h = "s_http_host_v6"
  BY <1>5, BytesApart DEF HostChar, HostMove, V6Moves
<1>6. CASE h = "s_http_host_v6_start"
  BY <1>6, BytesApart DEF HostChar, HostMove, V6Moves
<1>7. CASE h \in {"s_http_host_v6_zone", "s_http_host_v6_zone_start"}
  BY <1>7, BytesApart DEF HostChar, HostMove
<1>8. CASE h \in {"s_http_host_port", "s_http_host_port_start"}
  BY <1>8 DEF HostChar, HostMove
<1> QED
  BY <1>1, <1>2, <1>3, <1>4, <1>5, <1>6, <1>7, <1>8 DEF HostStatesAll

LEMMA HostFieldIs ==
  /\ HostField("s_http_userinfo_start") = "NONE" /\ HostField("s_http_userinfo") = "USERINFO"
  /\ HostField("s_http_host_start") = "NONE" /\ HostField("s_http_host_v6_start") = "NONE"
  /\ HostField("s_http_host") = "HOST" /\ HostField("s_http_host_v6") = "HOST"
  /\ HostField("s_http_host_v6_end") = "NONE" /\ HostField("s_http_host_v6_zone_start") = "HOST"
  /\ HostField("s_http_host_v6_zone") = "HOST" /\ HostField("s_http_host_port_start") = "NONE"
  /\ HostField("s_http_host_port") = "PORT"
BY DEF HostField

-----------------------------------------------------------------------------
(* Fields *)

FieldRecords == [off : Nat, len : Nat]

LEMMA FieldIs ==
  ASSUME Types, NEW f \in Fields
  PROVE  /\ field[f] \in FieldRecords /\ field[f].off \in Nat /\ field[f].len \in Nat
         /\ After(f) \in Nat
BY DEF Types, FieldRecords, After

LEMMA LongerIs ==
  ASSUME Types, NEW f \in Fields
  PROVE  /\ Longer(f) \in [Fields -> FieldRecords]
         /\ \A g \in Fields \ {f} : Longer(f)[g] = field[g]
         /\ Longer(f)[f].off = field[f].off /\ Longer(f)[f].len = field[f].len + 1
<1>1. field \in [Fields -> FieldRecords] /\ field[f] \in FieldRecords /\ field[f].len + 1 \in Nat
  BY FieldIs DEF Types, FieldRecords
<1>2. Longer(f) = [field EXCEPT ![f] = [field[f] EXCEPT !.len = field[f].len + 1]]
  BY DEF Longer
<1>3. /\ [field[f] EXCEPT !.len = field[f].len + 1] \in FieldRecords
      /\ [field[f] EXCEPT !.len = field[f].len + 1].off = field[f].off
      /\ [field[f] EXCEPT !.len = field[f].len + 1].len = field[f].len + 1
  BY <1>1 DEF FieldRecords
<1> QED
  BY <1>1, <1>2, <1>3

LEMMA BegunIs ==
  ASSUME Types, NEW f \in Fields, NEW at \in Nat
  PROVE  /\ Begun(f, at) \in [Fields -> FieldRecords]
         /\ \A g \in Fields \ {f} : Begun(f, at)[g] = field[g]
         /\ Begun(f, at)[f].off = at /\ Begun(f, at)[f].len = 1
<1>1. field \in [Fields -> FieldRecords]
  BY DEF Types, FieldRecords
<1>2. /\ [off |-> at, len |-> 1] \in FieldRecords
      /\ [off |-> at, len |-> 1].off = at /\ [off |-> at, len |-> 1].len = 1
  BY DEF FieldRecords
<1>3. Begun(f, at) = [field EXCEPT ![f] = [off |-> at, len |-> 1]]
  BY DEF Begun
<1> QED
  BY <1>1, <1>2, <1>3

\* Opened looks at the byte before a field and at its first one.
First(f) == IF f \in {"PORT", "QUERY", "FRAGMENT"} THEN 2 ELSE 1

LEMMA OpenedIs ==
  ASSUME NEW i
  PROVE  /\ Opened("SCHEMA", i) <=> i = 1
         /\ Opened("USERINFO", i) <=> i = 1 \/ url[i - 1] = "/"
         /\ Opened("HOST", i) <=> i = 1 \/ url[i - 1] \in {"/", "@", "["}
         /\ Opened("PORT", i) <=> url[i - 1] = ":"
         /\ Opened("PATH", i) <=> url[i] = "/" \/ url[i] = "*"
         /\ Opened("QUERY", i) <=> url[i - 1] = "?"
         /\ Opened("FRAGMENT", i) <=> url[i - 1] = "#"
BY DEF Opened

LEMMA OpenedNow ==
  ASSUME NEW i
  PROVE  /\ Opened("SCHEMA", i)' <=> i = 1
         /\ Opened("USERINFO", i)' <=> i = 1 \/ url'[i - 1] = "/"
         /\ Opened("HOST", i)' <=> i = 1 \/ url'[i - 1] \in {"/", "@", "["}
         /\ Opened("PORT", i)' <=> url'[i - 1] = ":"
         /\ Opened("PATH", i)' <=> url'[i] = "/" \/ url'[i] = "*"
         /\ Opened("QUERY", i)' <=> url'[i - 1] = "?"
         /\ Opened("FRAGMENT", i)' <=> url'[i - 1] = "#"
BY DEF Opened

LEMMA OpenedKept ==
  ASSUME NEW f \in Fields, NEW i \in Nat, i >= First(f), Opened(f, i),
         \A j \in 1..i : url'[j] = url[j]
  PROVE  Opened(f, i)'
<1>1. i = 1 \/ i - 1 \in 1..i
  BY DEF First
<1>2. i \in 1..i
  BY DEF First
<1>3. CASE f = "SCHEMA"
  BY <1>3, OpenedIs DEF Opened
<1>4. CASE f = "USERINFO"
  BY <1>1, <1>4, OpenedIs DEF Opened
<1>5. CASE f = "HOST"
  BY <1>1, <1>5, OpenedIs DEF Opened
<1>6. CASE f = "PATH"
  BY <1>2, <1>6, OpenedIs DEF Opened
<1>7. CASE f \in {"PORT", "QUERY", "FRAGMENT"}
  <2>1. i - 1 \in 1..i
    BY <1>7 DEF First
  <2>2. url'[i - 1] = url[i - 1]
    BY <2>1
  <2>3. CASE f = "PORT"
    BY <2>2, <2>3, OpenedIs DEF Opened
  <2>4. CASE f = "QUERY"
    BY <2>2, <2>4, OpenedIs DEF Opened
  <2>5. CASE f = "FRAGMENT"
    BY <2>2, <2>5, OpenedIs DEF Opened
  <2> QED
    BY <1>7, <2>3, <2>4, <2>5
<1> QED
  BY <1>3, <1>4, <1>5, <1>6, <1>7 DEF Fields

LEMMA OpenedSame ==
  ASSUME UNCHANGED url, NEW f \in Fields, NEW i, Opened(f, i)
  PROVE  Opened(f, i)'
BY OpenedIs, OpenedNow DEF Fields

\* The three things that happen to the byte at q: it is a delimiter, a field goes
\* on with it, or a field begins at it.
Reads(q) ==
  /\ Len(url) \in Nat /\ Len(url') \in Nat /\ Len(url) <= Len(url')
  /\ \A i \in 1..Len(url) : url'[i] = url[i]
  /\ \A i \in 1..Len(url') : \/ i \in 1..Len(url) /\ i \notin p..end - 1
                             \/ i = q
                             \/ i \in p'..end' - 1

LEMMA TiledByDelimiter ==
  ASSUME Types, Tiled, Cut \subseteq Fields, NEW q \in Nat, Reads(q), Cut' = Cut,
         \A g \in Cut : field'[g] = field[g],
         url'[q] \in Delimiters
  PROVE  Tiled'
<1>1. \A g \in Cut : After(g)' = After(g)
  BY DEF After
<1>2. ASSUME NEW g \in Cut
      PROVE  field[g].len >= 1 /\ Opened(g, field[g].off)' /\ field[g].off >= First(g)
  <2>1. /\ g \in Fields /\ field[g].off \in Nat /\ field[g].off <= Len(url)
        /\ field[g].len >= 1 /\ field[g].off >= First(g) /\ Opened(g, field[g].off)
    BY FieldIs DEF Types, Tiled, First
  <2>2. \A j \in 1..field[g].off : url'[j] = url[j]
    BY <2>1 DEF Reads
  <2>3. field'[g] = field[g]
    OBVIOUS
  <2> QED
    BY <2>1, <2>2, <2>3, OpenedKept
<1>3. \A i \in 1..Len(url') :
       \/ \E f \in Cut : i \in field[f].off..After(f) - 1
       \/ url'[i] \in Delimiters
       \/ i \in p'..end' - 1
  BY DEF Tiled, Reads
<1>4. \A f, g \in Cut : Rank[f] < Rank[g] => After(f) <= field[g].off
  BY DEF Tiled
<1> QED
  BY <1>1, <1>2, <1>3, <1>4 DEF Tiled, First

LEMMA TiledByLonger ==
  ASSUME Types, Tiled, Cut \subseteq Fields, NEW q \in Nat, Reads(q), Cut' = Cut,
         NEW f \in Cut, After(f) = q, field' = Longer(f),
         \A g \in Cut : Rank[f] < Rank[g] => field[g].off > q
  PROVE  Tiled'
<1>1. /\ \A g \in Cut \ {f} : field'[g] = field[g]
      /\ field'[f].off = field[f].off /\ field'[f].len = field[f].len + 1
  BY LongerIs
<1>2. /\ \A g \in Cut \ {f} : After(g)' = After(g)
      /\ After(f)' = q + 1
  <2>1. field[f].off \in Nat /\ field[f].len \in Nat
    BY FieldIs
  <2>2. After(f)' = field[f].off + (field[f].len + 1)
    BY <1>1 DEF After
  <2> QED
    BY <1>1, <2>1, <2>2 DEF After
<1>3. ASSUME NEW g \in Cut
      PROVE  /\ field'[g].len >= 1 /\ Opened(g, field[g].off)' /\ field'[g].off >= First(g)
  <2>1. /\ g \in Fields /\ field[g].off \in Nat /\ field[g].off <= Len(url) /\ field[g].len \in Nat
        /\ field[g].len >= 1 /\ field[g].off >= First(g) /\ Opened(g, field[g].off)
    BY FieldIs DEF Types, Tiled, First
  <2>2. \A j \in 1..field[g].off : url'[j] = url[j]
    BY <2>1 DEF Reads
  <2>3. field'[g].off = field[g].off /\ field'[g].len >= 1
    BY <1>1, <2>1
  <2>4. Opened(g, field[g].off)'
    BY <2>1, <2>2, <2>3, OpenedKept
  <2> QED
    BY <2>1, <2>3, <2>4
<1>4. ASSUME NEW g \in Cut, NEW h \in Cut, Rank[g] < Rank[h]
      PROVE  After(g)' <= field'[h].off
  <2>1. After(g) <= field[h].off /\ field'[h].off = field[h].off
    BY <1>1, <1>4 DEF Tiled
  <2>2. field[h].off \in Nat
    BY FieldIs
  <2>3. CASE g = f
    BY <1>2, <1>4, <2>1, <2>2, <2>3
  <2>4. CASE g # f
    BY <1>2, <2>1, <2>4
  <2> QED
    BY <2>3, <2>4
<1>5. ASSUME NEW i \in 1..Len(url')
      PROVE  \/ \E g \in Cut : i \in field'[g].off..After(g)' - 1
             \/ url'[i] \in Delimiters
             \/ i \in p'..end' - 1
  <2>1. CASE i \in 1..Len(url) /\ i \notin p..end - 1
    <3>1. CASE \E g \in Cut : i \in field[g].off..After(g) - 1
      <4>1. PICK g \in Cut : i \in field[g].off..After(g) - 1
        BY <3>1
      <4>2. field[g].off \in Nat /\ After(g) \in Nat
        BY FieldIs
      <4>3. i \in field'[g].off..After(g)' - 1
        BY <1>1, <1>2, <4>1, <4>2
      <4> QED
        BY <4>3
    <3>2. CASE url[i] \in Delimiters
      BY <2>1, <3>2 DEF Reads
    <3> QED
      BY <2>1, <3>1, <3>2 DEF Tiled
  <2>2. CASE i = q
    <3>1. field[f].off \in Nat /\ field[f].len \in Nat /\ q = field[f].off + field[f].len
      BY FieldIs DEF After
    <3>2. i \in field'[f].off..After(f)' - 1
      BY <1>1, <1>2, <2>2, <3>1
    <3> QED
      BY <3>2
  <2> QED
    BY <2>1, <2>2 DEF Reads
<1> QED
  BY <1>3, <1>4, <1>5 DEF Tiled, First

LEMMA TiledByBegun ==
  ASSUME Types, Tiled, Cut \subseteq Fields, NEW q \in Nat, Reads(q),
         NEW f \in Fields \ Cut, Cut' = Cut \union {f}, field' = Begun(f, q),
         \A g \in Cut : Rank[g] < Rank[f] => After(g) <= q,
         \A g \in Cut : Rank[f] < Rank[g] => field[g].off > q,
         q >= First(f), Opened(f, q)'
  PROVE  Tiled'
<1>1. /\ \A g \in Cut : field'[g] = field[g] /\ After(g)' = After(g)
      /\ field'[f].off = q /\ field'[f].len = 1
  BY BegunIs DEF After
<1>2. After(f)' = q + 1
  BY <1>1 DEF After
<1>3. ASSUME NEW g \in Cut'
      PROVE  /\ field'[g].len >= 1 /\ Opened(g, field[g].off)' /\ field'[g].off >= First(g)
  <2>1. CASE g \in Cut
    <3>1. /\ g \in Fields /\ field[g].off \in Nat /\ field[g].off <= Len(url)
          /\ field[g].len >= 1 /\ field[g].off >= First(g) /\ Opened(g, field[g].off)
      BY <2>1, FieldIs DEF Types, Tiled, First
    <3>2. \A j \in 1..field[g].off : url'[j] = url[j]
      BY <3>1 DEF Reads
    <3>3. field'[g] = field[g]
      BY <1>1, <2>1
    <3>4. Opened(g, field[g].off)'
      BY <3>1, <3>2, <3>3, OpenedKept
    <3> QED
      BY <3>1, <3>3, <3>4
  <2>2. CASE g = f
    BY <1>1, <2>2
  <2> QED
    BY <2>1, <2>2
<1>4. ASSUME NEW g \in Cut', NEW h \in Cut', Rank[g] < Rank[h]
      PROVE  After(g)' <= field'[h].off
  <2>1. CASE g \in Cut /\ h \in Cut
    BY <1>1, <1>4, <2>1 DEF Tiled
  <2>2. CASE g = f /\ h \in Cut
    <3>1. field[h].off \in Nat /\ field[h].off > q
      BY <1>4, <2>2, FieldIs
    <3> QED
      BY <1>1, <1>2, <2>2, <3>1
  <2>3. CASE g \in Cut /\ h = f
    BY <1>1, <1>4, <2>3
  <2>4. CASE g = f /\ h = f
    BY <1>4, <2>4, RankIs
  <2> QED
    BY <2>1, <2>2, <2>3, <2>4
<1>5. ASSUME NEW i \in 1..Len(url')
      PROVE  \/ \E g \in Cut' : i \in field'[g].off..After(g)' - 1
             \/ url'[i] \in Delimiters
             \/ i \in p'..end' - 1
  <2>1. CASE i \in 1..Len(url) /\ i \notin p..end - 1
    BY <1>1, <2>1 DEF Tiled, Reads
  <2>2. CASE i = q
    BY <1>1, <1>2, <2>2
  <2> QED
    BY <2>1, <2>2 DEF Reads
<1> QED
  BY <1>3, <1>4, <1>5 DEF Tiled, First

-----------------------------------------------------------------------------
(* The steps *)

LEMMA InitOK == Init => UrlInv
<1> SUFFICES ASSUME Init PROVE UrlInv
  OBVIOUS
<1>1. /\ url = <<>> /\ behind \in Behind /\ is_connect \in BOOLEAN
      /\ found_at = FALSE /\ old = "NONE" /\ set = {} /\ port = 0
      /\ s \in {"s_req_server_start", "s_req_spaces_before_url"}
      /\ field = [f \in Fields |-> [off |-> 0, len |-> 0]]
      /\ hs = "none" /\ p = 0 /\ end = 0 /\ pc = "url" /\ ret = "none"
  BY DEF Init
<1>2. url \in Seq(Bytes) /\ Len(url) = 0
  BY <1>1, EmptySeq
<1>3. /\ field \in [Fields -> FieldRecords]
      /\ \A f \in Fields : field[f].off = 0 /\ After(f) = 0
  BY <1>1 DEF FieldRecords, After
<1>4. Types
  <2>1. behind \in Seq(Digits) /\ port \in 0..MaxPort
    BY <1>1, PortAssumption, BehindAssumption
  <2>2. \A f \in Fields : field[f].off <= Len(url) /\ After(f) <= Len(url) + 1
    BY <1>2, <1>3
  <2>3. s \in UrlStates \union {"s_req_spaces_before_url", "s_dead"} /\ s # "s_dead"
    BY <1>1 DEF UrlStates
  <2>4. /\ set \subseteq Fields /\ old \in Fields \union {"NONE"}
        /\ is_connect \in BOOLEAN /\ found_at \in BOOLEAN
    BY <1>1
  <2>5. /\ p \in Nat /\ end \in Nat /\ p <= end /\ end <= Len(url) + 1
        /\ hs \in HostStatesAll \union {"none"}
        /\ pc \in {"url", "host", "port", "done"} /\ ret \in {"none", "0", "1"}
        /\ ret = "none" <=> pc # "done"
    BY <1>1, <1>2
  <2> QED
    BY <1>2, <1>3, <2>1, <2>2, <2>3, <2>4, <2>5 DEF Types, FieldRecords
<1>5. Cut = {}
  BY <1>1 DEF Cut, NoHostYet
<1>6. Tiled
  BY <1>1, <1>2, <1>5 DEF Tiled
<1>7. UrlPart
  BY <1>1, FieldOfIs DEF UrlPart
<1>8. NoServer /\ ServerPart /\ Passed
  BY <1>1 DEF NoServer, ServerPart, Passed
<1> QED
  BY <1>4, <1>6, <1>7, <1>8 DEF UrlInv

\* A byte that has no place in the URL ends the call.
LEMMA DeadStep ==
  ASSUME Types, url' \in Seq(Bytes), Len(url') \in Nat, Len(url) \in Nat,
         Len(url) <= Len(url'), found_at' \in BOOLEAN,
         s' \in UrlStates \union {"s_req_spaces_before_url", "s_dead"}, Return("1"),
         UNCHANGED <<behind, is_connect, hostVars, old, field, set>>
  PROVE  UrlInv'
<1>1. UNCHANGED <<hs, p, end, port>> /\ ret' = "1" /\ pc' = "done"
  BY DEF hostVars, Return
<1>2. \A f \in Fields : After(f)' = After(f)
  BY DEF After
<1>3. \A f \in Fields : field[f].off \in Nat /\ After(f) \in Nat
  BY FieldIs
<1>4. Types'
  BY <1>1, <1>2, <1>3 DEF Types
<1> QED
  BY <1>1, <1>4 DEF UrlInv, Passed

LEMMA UrlStep ==
  ASSUME UrlInv, NEW b \in Bytes, UrlLoop(b)
  PROVE  UrlInv'
<1> DEFINE t == parse_url_char(s, b)
<1>0. PICK n : n = Len(url)
  OBVIOUS
<1>1. /\ pc = "url" /\ url' = Append(url, b) /\ s' = t
      /\ found_at' = (found_at \/ t = "s_req_server_with_at")
      /\ IF t = "s_dead" THEN Return("1") ELSE UNCHANGED <<pc, ret>>
      /\ \E f \in {FieldOf(t)} :
           \/ f = "NONE" /\ UNCHANGED <<old, field, set>>
           \/ f # "NONE" /\ f = old /\ field' = Longer(f) /\ UNCHANGED <<old, set>>
           \/ /\ f # "NONE" /\ f # old
              /\ field' = Begun(f, Len(url')) /\ set' = set \union {f} /\ old' = f
      /\ UNCHANGED <<behind, is_connect, hostVars>>
  BY DEF UrlLoop
<1>2. /\ url \in Seq(Bytes) /\ n = Len(url) /\ n \in Nat
      /\ url' \in Seq(Bytes) /\ Len(url') = n + 1
      /\ \A i \in 1..n : url'[i] = url[i]
      /\ url'[n + 1] = b
  BY <1>0, <1>1, LenProperties, AppendProperties DEF UrlInv, Types
<1>3. /\ Types /\ ret = "none" /\ Tiled /\ UrlPart /\ s # "s_dead"
      /\ s \in UrlStates \union {"s_req_spaces_before_url"}
      /\ hs = "none" /\ p = 0 /\ end = 0 /\ Cut = set /\ set \subseteq Fields
  BY <1>1 DEF UrlInv, Types, UrlPart, Cut, NoHostYet
<1>4. found_at' \in BOOLEAN
  <2>1. found_at \in BOOLEAN
    BY <1>3 DEF Types
  <2> QED
    BY <1>1, <2>1, Zenon
<1>5. CASE t = "s_dead"
  <2>1. FieldOf(t) = "NONE"
    BY <1>5, FieldOfIs
  <2>2. UNCHANGED <<old, field, set>>
    BY <1>1, <2>1
  <2>3. s' \in UrlStates \union {"s_req_spaces_before_url", "s_dead"}
    BY <1>1, <1>5
  <2>4. Return("1")
    BY <1>1, <1>5
  <2> QED
    BY <1>1, <1>2, <1>3, <1>4, <2>2, <2>3, <2>4, DeadStep
<1>6. CASE t # "s_dead"
  <2> HIDE DEF t
  <2>0. PICK f : /\ f = FieldOf(t)
                 /\ \/ f = "NONE" /\ UNCHANGED <<old, field, set>>
                    \/ f # "NONE" /\ f = old /\ field' = Longer(f) /\ UNCHANGED <<old, set>>
                    \/ /\ f # "NONE" /\ f # old
                       /\ field' = Begun(f, Len(url')) /\ set' = set \union {f} /\ old' = f
    BY <1>1
  <2>1. /\ t \in UrlStates /\ Reached(s) \in 0..7 /\ Reached(t) \in 0..7
        /\ Reached(s) <= Reached(t)
        /\ f = "NONE" => b \in Delimiters
        /\ f # "NONE" => /\ f \in Fields \ {"USERINFO", "PORT"}
                         /\ Rank[f] <= Reached(t)
                         /\ f = FieldOf(s) \/ Rank[f] > Reached(s)
        /\ f = "SCHEMA" /\ FieldOf(s) # "SCHEMA" => s = "s_req_spaces_before_url"
        /\ f = "HOST" /\ FieldOf(s) # "HOST" => s = "s_req_server_start"
        /\ f = "PATH" /\ FieldOf(s) # "PATH" => b \in {"/", "*"}
        /\ f = "QUERY" /\ FieldOf(s) # "QUERY" => s = "s_req_query_string_start"
        /\ f = "FRAGMENT" /\ FieldOf(s) # "FRAGMENT" => s = "s_req_fragment_start"
        /\ FieldOf(s) = "HOST" /\ f # "HOST" => b \in {"/", "?"}
        /\ t = "s_req_server_start" => b = "/"
        /\ t = "s_req_query_string_start" => b = "?"
        /\ t = "s_req_fragment_start" => b = "#"
    BY <1>3, <1>6, <2>0, MoveIs DEF t
  <2>2. /\ UNCHANGED <<pc, ret, hs, p, end, port, behind, is_connect>>
        /\ pc' = "url" /\ ret' = "none" /\ hs' = "none" /\ p' = 0 /\ end' = 0
    BY <1>1, <1>3, <1>6 DEF hostVars
  <2>3. Cut' = set'
    BY <2>2 DEF Cut, NoHostYet
  <2>4. Reads(n + 1)
    BY <1>2, <1>3, <2>2 DEF Reads
  <2>5. \A g \in set : g \in Fields /\ Rank[g] \in 1..7 /\ Rank[g] <= Reached(s)
                       /\ field[g].off \in Nat /\ field[g].len \in Nat /\ After(g) \in Nat
                       /\ field[g].off <= n /\ After(g) <= n + 1
    BY <1>2, <1>1, <1>3, FieldIs, RankIs DEF UrlPart, Types
  <2>6. ASSUME f # "NONE" PROVE f = old <=> f = FieldOf(s)
    <3>1. f = FieldOf(s) => f = old
      BY <1>1, <1>3, <2>6 DEF UrlPart
    <3>2. f = old => Rank[f] <= Reached(s) /\ Rank[f] \in 1..7
      BY <1>1, <1>3, <2>5, <2>6 DEF UrlPart
    <3> QED
      BY <2>1, <2>6, <3>1, <3>2
  <2>7. NoServer' /\ ServerPart' /\ Passed'
    BY <2>2 DEF NoServer, ServerPart, Passed
  <2>8. s' = t /\ s' # "s_dead" /\ s' # "s_req_spaces_before_url"
    BY <1>1, <1>6, <2>1 DEF UrlStates, t
  <2>9. CASE f = "NONE"
    <3>1. UNCHANGED <<old, field, set>>
      BY <2>0, <1>1, <2>9
    <3>2. \A g \in Fields : After(g)' = After(g)
      BY <3>1 DEF After
    <3>3. Types'
      <4>1. \A g \in Fields : field[g].off \in Nat /\ After(g) \in Nat
        BY <1>3, FieldIs
      <4> QED
        BY <1>2, <1>3, <1>4, <2>1, <2>2, <2>8, <3>1, <3>2, <4>1 DEF Types
    <3>4. Tiled'
      BY <1>2, <1>3, <2>1, <2>3, <2>4, <2>9, <3>1, TiledByDelimiter
    <3>5. UrlPart'
      <4>1. \A g \in set : Rank[g] <= Reached(t) /\ g \notin {"USERINFO", "PORT"}
        BY <1>1, <1>3, <2>1, <2>5 DEF UrlPart
      <4>2. FieldOf(s') = "NONE" /\ Len(url') = n + 1 /\ url'[Len(url')] = b /\ url' # <<>>
        BY <2>0, <1>2, <2>8, <2>9, EmptySeq
      <4>3. ASSUME "HOST" \in set
            PROVE  /\ field["HOST"].off = 1 \/ url'[field["HOST"].off - 1] = "/"
                   /\ After("HOST") <= n + 1
                   /\ url'[After("HOST")] \in {"/", "?"}
        <5>1. /\ field["HOST"].off = 1 \/ url[field["HOST"].off - 1] = "/"
              /\ FieldOf(s) = "HOST" \/ After("HOST") <= n
              /\ After("HOST") <= n => url[After("HOST")] \in {"/", "?"}
          BY <1>2, <1>1, <1>3, <4>3 DEF UrlPart
        <5>2. /\ After("HOST") \in 1..n + 1 /\ field["HOST"].off \in 1..n
          <6>1. field["HOST"].off >= 1
            BY <1>3, <4>3 DEF Tiled
          <6> QED
            BY <2>5, <4>3, <6>1 DEF After
        <5>3. field["HOST"].off = 1 \/ url'[field["HOST"].off - 1] = "/"
          BY <1>2, <5>1, <5>2
        <5>4. CASE After("HOST") <= n
          BY <1>2, <5>1, <5>2, <5>3, <5>4
        <5>5. CASE After("HOST") = n + 1
          <6>1. FieldOf(s) = "HOST" /\ f # "HOST"
            BY <1>2, <2>9, <5>1, <5>5
          <6> QED
            BY <1>2, <2>1, <5>2, <5>3, <5>5, <6>1
        <5> QED
          BY <1>2, <5>2, <5>4, <5>5
      <4>4. "HOST" \in set => (/\ field["HOST"].off = 1 \/ url[field["HOST"].off - 1] = "/"
                               /\ FieldOf(s) = "HOST" \/ After("HOST") <= Len(url)
                               /\ After("HOST") <= Len(url) => url[After("HOST")] \in {"/", "?"})'
        BY <3>1, <3>2, <4>2, <4>3 DEF Fields
      <4>5. old # "NONE" => old \in set
        BY <1>1, <1>3 DEF UrlPart
      <4> QED
        BY <2>1, <2>2, <2>8, <3>1, <4>1, <4>2, <4>4, <4>5 DEF UrlPart
    <3> QED
      BY <2>7, <3>3, <3>4, <3>5 DEF UrlInv
  <2>10. CASE f # "NONE" /\ f = old
    <3>1. f \in set /\ f \in Fields \ {"USERINFO", "PORT"} /\ field' = Longer(f)
          /\ UNCHANGED <<old, set>> /\ f = FieldOf(s) /\ After(f) = n + 1
      BY <1>2, <2>0, <1>1, <1>3, <2>1, <2>6, <2>10 DEF UrlPart
    <3>2. /\ field' \in [Fields -> FieldRecords]
          /\ \A g \in Fields \ {f} : field'[g] = field[g] /\ After(g)' = After(g)
          /\ field'[f].off = field[f].off /\ field'[f].len = field[f].len + 1
      BY <1>3, <3>1, LongerIs DEF After
    <3>3. After(f)' = n + 2
      <4>1. field[f].off \in Nat /\ field[f].len \in Nat
        BY <2>5, <3>1
      <4>2. field[f].off + field[f].len = n + 1
        BY <3>1 DEF After
      <4>3. After(f)' = field[f].off + (field[f].len + 1)
        BY <3>2 DEF After
      <4> QED
        BY <1>2, <4>1, <4>2, <4>3
    <3>4. Types'
      <4>1. ASSUME NEW g \in Fields
            PROVE  field'[g].off <= Len(url') /\ After(g)' <= Len(url') + 1
        <5>1. /\ field[g].off \in Nat /\ After(g) \in Nat
              /\ field[g].off <= n /\ After(g) <= n + 1
          BY <1>2, <1>3, FieldIs DEF Types
        <5> QED
          BY <1>2, <3>2, <3>3, <5>1
      <4> QED
        BY <1>2, <1>3, <1>4, <2>1, <2>2, <2>8, <3>1, <3>2, <4>1 DEF Types, FieldRecords
    <3>5. Tiled'
      <4>1. \A g \in Cut : ~(Rank[f] < Rank[g])
        <5>1. \A g \in set : g # f => After(g) <= n + 1
          BY <2>5
        <5>2. Rank[f] = Reached(s)
          BY <1>3, <2>10, <3>1, FieldReached
        <5> QED
          BY <1>3, <2>1, <2>5, <5>2
      <4> QED
        BY <1>2, <1>3, <2>3, <2>4, <3>1, <4>1, TiledByLonger
    <3>6. UrlPart'
      <4>1. \A g \in set : Rank[g] <= Reached(t) /\ g \notin {"USERINFO", "PORT"}
        BY <1>1, <1>3, <2>1, <2>5 DEF UrlPart
      <4>2. FieldOf(s') = f /\ Len(url') = n + 1 /\ url'[Len(url')] = b
        BY <2>0, <1>2, <2>8
      <4>3. t \notin {"s_req_server_start", "s_req_query_string_start", "s_req_fragment_start"}
        BY <2>0, <2>10, FieldOfIs
      <4>4. ASSUME "HOST" \in set
            PROVE  /\ field'["HOST"].off = 1 \/ url'[field'["HOST"].off - 1] = "/"
                   /\ f = "HOST" \/ After("HOST")' <= n + 1
                   /\ After("HOST")' <= n + 1 => url'[After("HOST")'] \in {"/", "?"}
        <5>1. /\ field["HOST"].off = 1 \/ url[field["HOST"].off - 1] = "/"
              /\ FieldOf(s) = "HOST" \/ After("HOST") <= n
              /\ After("HOST") <= n => url[After("HOST")] \in {"/", "?"}
          BY <1>2, <1>1, <1>3, <4>4 DEF UrlPart
        <5>2. /\ After("HOST") \in 1..n + 1 /\ field["HOST"].off \in 1..n
          <6>1. field["HOST"].off >= 1
            BY <1>3, <4>4 DEF Tiled
          <6> QED
            BY <2>5, <4>4, <6>1 DEF After
        <5>3. field'["HOST"].off = field["HOST"].off
          BY <3>2 DEF Fields
        <5>4. field'["HOST"].off = 1 \/ url'[field'["HOST"].off - 1] = "/"
          BY <1>2, <5>1, <5>2, <5>3
        <5>5. CASE f = "HOST"
          BY <1>2, <3>3, <5>4, <5>5
        <5>6. CASE f # "HOST"
          <6>1. After("HOST")' = After("HOST") /\ After("HOST") <= n
            BY <3>1, <3>2, <5>1, <5>6 DEF Fields
          <6> QED
            BY <1>2, <5>1, <5>2, <5>4, <6>1
        <5> QED
          BY <5>5, <5>6
      <4>5. "HOST" \in set => (/\ field["HOST"].off = 1 \/ url[field["HOST"].off - 1] = "/"
                               /\ FieldOf(s) = "HOST" \/ After("HOST") <= Len(url)
                               /\ After("HOST") <= Len(url) => url[After("HOST")] \in {"/", "?"})'
        BY <4>2, <4>4
      <4>6. After(old)' = Len(url') + 1
        BY <1>2, <2>10, <3>1, <3>3
      <4> QED
        BY <2>2, <2>8, <2>10, <3>1, <4>1, <4>2, <4>3, <4>5, <4>6 DEF UrlPart
    <3> QED
      BY <2>7, <3>4, <3>5, <3>6 DEF UrlInv
  <2>11. CASE f # "NONE" /\ f # old
    <3>1. /\ f \in Fields \ {"USERINFO", "PORT"} /\ field' = Begun(f, n + 1)
          /\ set' = set \union {f} /\ old' = f
          /\ f # FieldOf(s) /\ Rank[f] > Reached(s) /\ Rank[f] <= Reached(t)
      <4>1. field' = Begun(f, Len(url')) /\ set' = set \union {f} /\ old' = f
        BY <2>0, <1>1, <2>11
      <4> QED
        BY <1>2, <2>1, <2>6, <2>11, <4>1
    <3>2. f \notin set
      BY <2>1, <2>5, <3>1
    <3>3. /\ field' \in [Fields -> FieldRecords]
          /\ \A g \in Fields \ {f} : field'[g] = field[g] /\ After(g)' = After(g)
          /\ field'[f].off = n + 1 /\ field'[f].len = 1
      BY <1>2, <1>3, <3>1, BegunIs DEF After
    <3>4. After(f)' = n + 2
      BY <1>2, <3>3 DEF After
    <3>5. Types'
      <4>1. ASSUME NEW g \in Fields
            PROVE  field'[g].off <= Len(url') /\ After(g)' <= Len(url') + 1
        <5>1. /\ field[g].off \in Nat /\ After(g) \in Nat
              /\ field[g].off <= n /\ After(g) <= n + 1
          BY <1>2, <1>3, FieldIs DEF Types
        <5> QED
          BY <1>2, <3>3, <3>4, <5>1
      <4> QED
        BY <1>2, <1>3, <1>4, <2>1, <2>2, <2>8, <3>1, <3>3, <4>1 DEF Types, FieldRecords
    <3>6. n + 1 >= First(f) /\ Opened(f, n + 1)'
      <4>1. CASE f = "SCHEMA"
        <5>1. n + 1 = 1
          BY <1>2, <1>1, <1>3, <2>1, <3>1, <4>1, EmptySeq DEF UrlPart
        <5>2. Opened("SCHEMA", n + 1)'
          BY <5>1, OpenedNow
        <5> QED
          BY <1>2, <4>1, <5>2 DEF First
      <4>2. CASE f = "HOST"
        <5>1. url = <<>> \/ url[n] = "/"
          BY <1>2, <1>1, <1>3, <2>1, <3>1, <4>2 DEF UrlPart
        <5>2. n = 0 \/ (n \in 1..n /\ url'[n] = "/")
          <6>1. n = 0 <=> url = <<>>
            BY <1>2, EmptySeq
          <6> QED
            BY <1>2, <5>1, <6>1
        <5>3. n + 1 = 1 \/ url'[(n + 1) - 1] = "/"
          BY <1>2, <5>2
        <5>4. Opened("HOST", n + 1)'
          BY <5>3, OpenedNow
        <5> QED
          BY <1>2, <4>2, <5>4 DEF First
      <4>3. CASE f = "PATH"
        <5>1. url'[n + 1] \in {"/", "*"}
          BY <1>2, <2>1, <3>1, <4>3
        <5>2. Opened("PATH", n + 1)'
          BY <5>1, OpenedNow
        <5> QED
          BY <1>2, <4>3, <5>2 DEF First
      <4>4. CASE f = "QUERY"
        <5>1. url[n] = "?" /\ url # <<>>
          BY <1>2, <1>1, <1>3, <2>1, <3>1, <4>4 DEF UrlPart
        <5>2. n >= 1 /\ url'[(n + 1) - 1] = "?"
          <6>1. n # 0
            BY <1>2, <5>1, EmptySeq
          <6> QED
            BY <1>2, <5>1, <6>1
        <5>3. Opened("QUERY", n + 1)'
          BY <5>2, OpenedNow
        <5> QED
          BY <1>2, <4>4, <5>2, <5>3 DEF First
      <4>5. CASE f = "FRAGMENT"
        <5>1. url[n] = "#" /\ url # <<>>
          BY <1>2, <1>1, <1>3, <2>1, <3>1, <4>5 DEF UrlPart
        <5>2. n >= 1 /\ url'[(n + 1) - 1] = "#"
          <6>1. n # 0
            BY <1>2, <5>1, EmptySeq
          <6> QED
            BY <1>2, <5>1, <6>1
        <5>3. Opened("FRAGMENT", n + 1)'
          BY <5>2, OpenedNow
        <5> QED
          BY <1>2, <4>5, <5>2, <5>3 DEF First
      <4> QED
        BY <3>1, <4>1, <4>2, <4>3, <4>4, <4>5 DEF Fields
    <3>7. Tiled'
      <4>1. ASSUME NEW g \in Cut PROVE After(g) <= n + 1 /\ ~(Rank[f] < Rank[g])
        <5>1. /\ After(g) <= n + 1 /\ Rank[g] \in 1..7 /\ Rank[g] <= Reached(s)
          BY <1>3, <2>5
        <5>2. Rank[f] \in 1..7
          BY <3>1, RankIs
        <5> QED
          BY <2>1, <3>1, <5>1, <5>2
      <4>2. n + 1 \in Nat /\ f \in Fields \ Cut /\ Cut' = Cut \union {f} /\ Cut \subseteq Fields
        BY <1>2, <1>3, <2>3, <3>1, <3>2
      <4>3. Types /\ Tiled /\ field' = Begun(f, n + 1)
        BY <1>3, <3>1
      <4> QED
        BY <2>4, <3>6, <4>1, <4>2, <4>3, TiledByBegun
    <3>8. UrlPart'
      <4>1. ASSUME NEW g \in set' PROVE Rank[g] <= Reached(t) /\ g \notin {"USERINFO", "PORT"}
        <5>1. CASE g = f
          BY <3>1, <5>1
        <5>2. CASE g \in set
          BY <1>1, <1>3, <2>1, <2>5, <5>2 DEF UrlPart
        <5> QED
          BY <3>1, <5>1, <5>2
      <4>2. FieldOf(s') = f /\ Len(url') = n + 1 /\ url'[Len(url')] = b
        BY <2>0, <1>2, <2>8
      <4>3. t \notin {"s_req_server_start", "s_req_query_string_start", "s_req_fragment_start"}
        BY <2>0, <2>11, FieldOfIs
      <4>4. ASSUME "HOST" \in set'
            PROVE  /\ field'["HOST"].off = 1 \/ url'[field'["HOST"].off - 1] = "/"
                   /\ f = "HOST" \/ After("HOST")' <= n + 1
                   /\ After("HOST")' <= n + 1 => url'[After("HOST")'] \in {"/", "?"}
        <5>1. CASE f = "HOST"
          <6>1. url = <<>> \/ url[n] = "/"
            BY <1>2, <1>1, <1>3, <2>1, <3>1, <5>1 DEF UrlPart
          <6>2. n = 0 \/ (n \in 1..n /\ url'[n] = "/")
            <7>1. n = 0 <=> url = <<>>
              BY <1>2, EmptySeq
            <7> QED
              BY <1>2, <6>1, <7>1
          <6>3. n + 1 = 1 \/ url'[(n + 1) - 1] = "/"
            BY <1>2, <6>2
          <6> QED
            BY <1>2, <3>3, <3>4, <5>1, <6>3
        <5>2. CASE f # "HOST"
          <6>1. "HOST" \in set /\ field'["HOST"] = field["HOST"] /\ After("HOST")' = After("HOST")
            BY <3>1, <3>3, <4>4, <5>2 DEF Fields
          <6>2. /\ field["HOST"].off = 1 \/ url[field["HOST"].off - 1] = "/"
                /\ FieldOf(s) = "HOST" \/ After("HOST") <= n
                /\ After("HOST") <= n => url[After("HOST")] \in {"/", "?"}
            BY <1>2, <1>1, <1>3, <6>1 DEF UrlPart
          <6>3. /\ After("HOST") \in 1..n + 1 /\ field["HOST"].off \in 1..n
            <7>1. field["HOST"].off >= 1
              BY <1>3, <6>1 DEF Tiled
            <7> QED
              BY <2>5, <6>1, <7>1 DEF After
          <6>4. field'["HOST"].off = 1 \/ url'[field'["HOST"].off - 1] = "/"
            BY <1>2, <6>1, <6>2, <6>3
          <6>5. url'[After("HOST")] \in {"/", "?"}
            <7>1. CASE After("HOST") <= n
              BY <1>2, <6>2, <6>3, <7>1
            <7>2. CASE After("HOST") = n + 1
              <8>1. FieldOf(s) = "HOST"
                BY <1>2, <6>2, <7>2
              <8> QED
                BY <1>2, <2>1, <5>2, <7>2, <8>1
            <7> QED
              BY <1>2, <6>3, <7>1, <7>2
          <6> QED
            BY <6>1, <6>3, <6>4, <6>5
        <5> QED
          BY <5>1, <5>2
      <4>5. "HOST" \in set' => (/\ field["HOST"].off = 1 \/ url[field["HOST"].off - 1] = "/"
                                /\ FieldOf(s) = "HOST" \/ After("HOST") <= Len(url)
                                /\ After("HOST") <= Len(url) => url[After("HOST")] \in {"/", "?"})'
        BY <4>2, <4>4
      <4>6. After(old)' = Len(url') + 1
        BY <1>2, <3>1, <3>4
      <4> QED
        BY <2>2, <2>8, <3>1, <4>1, <4>2, <4>3, <4>5, <4>6 DEF UrlPart
    <3> QED
      BY <2>7, <3>5, <3>7, <3>8 DEF UrlInv
  <2> QED
    BY <2>9, <2>10, <2>11
<1> QED
  BY <1>5, <1>6

LEMMA EndOfUrlStep ==
  ASSUME UrlInv, EndOfUrl
  PROVE  UrlInv'
<1>1. /\ pc = "url" /\ UNCHANGED <<url, rest, behind, is_connect, found_at, s, old, set, port>>
  BY DEF EndOfUrl
<1>2. /\ Types /\ ret = "none" /\ Tiled /\ UrlPart
      /\ hs = "none" /\ p = 0 /\ end = 0 /\ Cut = set /\ set \subseteq Fields
      /\ \A f \in set : f \notin {"USERINFO", "PORT"}
      /\ url \in Seq(Bytes) /\ Len(url) \in Nat
  BY <1>1, LenProperties DEF UrlInv, Types, UrlPart, Cut, NoHostYet
<1>3. CASE Return("1") /\ UNCHANGED <<field, hs, p, end>>
  <2>1. found_at' \in BOOLEAN /\ s' \in UrlStates \union {"s_req_spaces_before_url", "s_dead"}
    BY <1>1, <1>2 DEF Types
  <2>2. UNCHANGED <<behind, is_connect, hostVars, old, field, set>>
    BY <1>1, <1>3 DEF hostVars
  <2> QED
    BY <1>1, <1>2, <1>3, <2>1, <2>2, DeadStep
<1>4. CASE /\ "HOST" \in set
           /\ pc' = "host" /\ UNCHANGED ret
           /\ p' = field["HOST"].off /\ end' = field["HOST"].off + field["HOST"].len
           /\ field' = [field EXCEPT !["HOST"].len = 0]
           /\ hs' = IF found_at THEN "s_http_userinfo_start" ELSE "s_http_host_start"
  <2>1. /\ field["HOST"].off \in Nat /\ field["HOST"].len \in Nat
        /\ field["HOST"].off >= 1 /\ field["HOST"].len >= 1
        /\ After("HOST") = field["HOST"].off + field["HOST"].len
        /\ After("HOST") <= Len(url) + 1 /\ field["HOST"] \in FieldRecords
    BY <1>2, <1>4, FieldIs DEF Tiled, Types, After
  <2>2. /\ p' = field["HOST"].off /\ end' = After("HOST") /\ p' \in Nat /\ end' \in Nat
        /\ p' >= 1 /\ p' < end' /\ end' <= Len(url) + 1
    BY <1>4, <2>1
  <2>3. /\ field' \in [Fields -> FieldRecords]
        /\ \A g \in Fields \ {"HOST"} : field'[g] = field[g]
        /\ field'["HOST"].off = p' /\ field'["HOST"].len = 0
    <3>1. field \in [Fields -> FieldRecords] /\ "HOST" \in Fields
      BY <1>2 DEF Types, FieldRecords, Fields
    <3>2. /\ [field["HOST"] EXCEPT !.len = 0] \in FieldRecords
          /\ [field["HOST"] EXCEPT !.len = 0].off = field["HOST"].off
          /\ [field["HOST"] EXCEPT !.len = 0].len = 0
      BY <2>1 DEF FieldRecords
    <3>3. field' = [field EXCEPT !["HOST"] = [field["HOST"] EXCEPT !.len = 0]]
      BY <1>4
    <3> QED
      BY <2>2, <3>1, <3>2, <3>3
  <2>4. /\ \A g \in Fields \ {"HOST"} : After(g)' = After(g)
        /\ After("HOST")' = p'
    BY <2>2, <2>3 DEF After
  <2>5. hs' \in {"s_http_userinfo_start", "s_http_host_start"} /\ hs' # "none"
    BY <1>4
  <2>6. Cut' = set \ {"HOST"}
    BY <1>1, <2>5 DEF Cut, NoHostYet
  <2>7. Types'
    <3>1. ASSUME NEW g \in Fields
          PROVE  field'[g].off <= Len(url) /\ After(g)' <= Len(url) + 1
      <4>1. /\ field[g].off \in Nat /\ After(g) \in Nat
            /\ field[g].off <= Len(url) /\ After(g) <= Len(url) + 1
        BY <1>2, FieldIs DEF Types
      <4> QED
        BY <2>1, <2>2, <2>3, <2>4, <4>1
    <3>2. hs' \in HostStatesAll \union {"none"}
      BY <2>5 DEF HostStatesAll
    <3> QED
      BY <1>1, <1>2, <1>4, <2>2, <2>3, <3>1, <3>2 DEF Types, FieldRecords
  <2>8. Tiled'
    <3>1. ASSUME NEW g \in Cut'
          PROVE  /\ field'[g].len >= 1 /\ Opened(g, field[g].off)'
                 /\ field'[g].off >= First(g)
      <4>1. g \in Cut /\ g \in Fields /\ field'[g] = field[g]
        BY <1>2, <2>3, <2>6
      <4>2. /\ field[g].off \in Nat /\ field[g].len >= 1 /\ field[g].off >= First(g)
            /\ Opened(g, field[g].off)
        BY <1>2, <4>1, FieldIs DEF Tiled, First
      <4>3. \A j \in 1..field[g].off : url'[j] = url[j]
        BY <1>1
      <4> QED
        BY <4>1, <4>2, <4>3, OpenedKept
    <3>2. ASSUME NEW g \in Cut', NEW h \in Cut', Rank[g] < Rank[h]
          PROVE  After(g)' <= field'[h].off
      BY <1>2, <2>3, <2>4, <2>6, <3>2 DEF Tiled
    <3>3. ASSUME NEW i \in 1..Len(url)
          PROVE  \/ \E g \in Cut' : i \in field'[g].off..After(g)' - 1
                 \/ url[i] \in Delimiters
                 \/ i \in p'..end' - 1
      <4>1. CASE \E g \in Cut : i \in field[g].off..After(g) - 1
        <5>1. PICK g \in Cut : i \in field[g].off..After(g) - 1
          BY <4>1
        <5>2. CASE g = "HOST"
          BY <2>2, <5>1, <5>2
        <5>3. CASE g # "HOST"
          BY <1>2, <2>3, <2>4, <2>6, <5>1, <5>3
        <5> QED
          BY <5>2, <5>3
      <4>2. CASE url[i] \in Delimiters
        BY <4>2
      <4> QED
        BY <1>2, <4>1, <4>2 DEF Tiled
    <3> QED
      BY <1>1, <3>1, <3>2, <3>3 DEF Tiled, First
  <2>9. ServerPart'
    <3>1. \A g \in set : Rank[g] > 4 => field'[g].off >= end'
      <4>1. ASSUME NEW g \in set, Rank[g] > 4 PROVE field'[g].off >= end'
        <5>1. g # "HOST" /\ g \in Fields /\ Rank["HOST"] < Rank[g]
          BY <1>2, <4>1, RankIs
        <5>2. After("HOST") <= field[g].off
          BY <1>2, <1>4, <5>1 DEF Tiled
        <5>3. field[g].off \in Nat
          BY <1>2, <5>1, FieldIs
        <5> QED
          BY <2>2, <2>3, <5>1, <5>2, <5>3
      <4> QED
        BY <4>1
    <3>2. \A g \in Cut' : Rank[g] <= 4 => After(g)' <= p'
      <4>1. ASSUME NEW g \in Cut', Rank[g] <= 4 PROVE After(g)' <= p'
        <5>1. g \in Fields /\ g \in set /\ g = "SCHEMA"
          BY <1>2, <2>6, <4>1, RankIs DEF Fields
        <5>2. After(g) <= field["HOST"].off
          BY <1>2, <1>4, <5>1, RankIs DEF Tiled
        <5> QED
          BY <2>2, <2>4, <5>1, <5>2
      <4> QED
        BY <4>1
    <3>3. /\ p' = 1 \/ url[p' - 1] = "/"
          /\ end' <= Len(url) => url[end'] \in {"/", "?"}
      BY <1>1, <1>2, <1>4, <2>2 DEF UrlPart
    <3>4. p' \in 1..end' /\ "PORT" \notin set /\ "USERINFO" \notin set
      BY <1>2, <2>2
    <3>5. HostField(hs') = "NONE"
      BY <2>5, HostFieldIs
    <3>6. hs' \notin {"s_http_host_v6_start", "s_http_host_port_start", "s_http_host",
             "s_http_host_v6", "s_http_host_v6_zone_start", "s_http_host_v6_zone",
             "s_http_host_v6_end", "s_http_host_port"}
      BY <2>5
    <3> QED
      BY <1>1, <1>4, <2>5, <3>1, <3>2, <3>3, <3>4, <3>5, <3>6 DEF ServerPart
  <2>10. UrlPart' /\ NoServer' /\ Passed'
    BY <1>2, <1>4, <2>5 DEF UrlPart, NoServer, Passed
  <2> QED
    BY <2>7, <2>8, <2>9, <2>10 DEF UrlInv
<1>5. CASE /\ "HOST" \notin set /\ "SCHEMA" \notin set
           /\ pc' = "port" /\ UNCHANGED <<ret, field, hs, p, end>>
  <2>1. \A f \in Fields : After(f)' = After(f)
    BY <1>5 DEF After
  <2>2. Types'
    BY <1>1, <1>2, <1>5, <2>1 DEF Types
  <2>3. Tiled'
    <3>1. Cut' = Cut
      BY <1>1, <1>5 DEF Cut
    <3>2. \A f \in Cut : \A i : Opened(f, i) => Opened(f, i)'
      BY <1>1, <1>2, OpenedSame
    <3> QED
      BY <1>1, <1>2, <1>5, <2>1, <3>1, <3>2 DEF Tiled
  <2>4. UrlPart' /\ ServerPart' /\ Passed'
    BY <1>2, <1>5 DEF UrlPart, ServerPart, Passed
  <2>5. NoServer'
    BY <1>1, <1>2, <1>5 DEF NoServer
  <2> QED
    BY <2>2, <2>3, <2>4, <2>5 DEF UrlInv
<1>6. \/ Return("1") /\ UNCHANGED <<field, hs, p, end>>
      \/ /\ "HOST" \in set
         /\ pc' = "host" /\ UNCHANGED ret
         /\ p' = field["HOST"].off /\ end' = field["HOST"].off + field["HOST"].len
         /\ field' = [field EXCEPT !["HOST"].len = 0]
         /\ hs' = IF found_at THEN "s_http_userinfo_start" ELSE "s_http_host_start"
      \/ /\ "HOST" \notin set /\ "SCHEMA" \notin set
         /\ pc' = "port" /\ UNCHANGED <<ret, field, hs, p, end>>
  BY DEF EndOfUrl
<1> QED
  BY <1>3, <1>4, <1>5, <1>6

\* What a step of http_parse_host starts from.
LEMMA InServer ==
  ASSUME UrlInv, pc = "host"
  PROVE  /\ Types /\ Tiled /\ ServerPart /\ ret = "none" /\ hs \in HostStatesAll /\ hs # "none"
         /\ url \in Seq(Bytes) /\ Len(url) \in Nat /\ Cut \subseteq Fields /\ set \subseteq Fields
         /\ "HOST" \in set /\ p \in 1..end /\ end \in Nat /\ end <= Len(url) + 1
<1>1. Types /\ Tiled /\ ServerPart /\ NoServer /\ ret = "none"
  BY DEF UrlInv, Types
<1>2. hs # "none"
  BY <1>1 DEF NoServer
<1> QED
  BY <1>1, <1>2, LenProperties DEF Types, ServerPart, Cut

\* Everything ServerPart says when http_parse_host is at p, but the field at work.
LEMMA HostByteIs ==
  ASSUME UrlInv, pc = "host", p < end
  PROVE  /\ p \in 1..Len(url) /\ p + 1 \in 1..end
         /\ \A g \in set : /\ g \in Fields /\ Rank[g] \in 1..7 /\ field[g].off \in Nat
                           /\ field[g].len \in Nat /\ After(g) \in Nat
                           /\ After(g) = field[g].off + field[g].len
                           /\ Rank[g] > 4 => field[g].off > p
         /\ \A g \in Cut : g \in set /\ field[g].off >= 1 /\ (Rank[g] <= 4 => After(g) <= p)
<1>1. /\ Types /\ Tiled /\ ServerPart /\ set \subseteq Fields /\ p \in 1..end /\ end \in Nat
      /\ end <= Len(url) + 1 /\ Len(url) \in Nat
  BY InServer
<1>2. ASSUME NEW g \in set
      PROVE  /\ g \in Fields /\ Rank[g] \in 1..7 /\ field[g].off \in Nat
             /\ field[g].len \in Nat /\ After(g) \in Nat
             /\ After(g) = field[g].off + field[g].len
             /\ Rank[g] > 4 => field[g].off > p
  <2>1. g \in Fields /\ Rank[g] \in 1..7 /\ (Rank[g] > 4 => field[g].off >= end)
    BY <1>1, InServer, RankIs DEF ServerPart
  <2>2. field[g].off \in Nat /\ field[g].len \in Nat /\ After(g) \in Nat
        /\ After(g) = field[g].off + field[g].len
    BY <1>1, <2>1, FieldIs DEF After
  <2> QED
    BY <1>1, <2>1, <2>2
<1>3. ASSUME NEW g \in Cut
      PROVE  g \in set /\ field[g].off >= 1 /\ (Rank[g] <= 4 => After(g) <= p)
  <2>1. g \in set /\ field[g].off \in Nat
    BY <1>2 DEF Cut
  <2>2. field[g].off >= 1 /\ (Rank[g] <= 4 => After(g) <= p)
    BY <1>1, <2>1, InServer DEF Tiled, ServerPart
  <2> QED
    BY <2>1, <2>2
<1>4. p \in 1..Len(url) /\ p + 1 \in 1..end
  BY <1>1
<1> QED
  BY <1>2, <1>3, <1>4

\* The part of the step that does not depend on what the byte is.
LEMMA HostKept ==
  ASSUME UrlInv, pc = "host", p < end, UNCHANGED <<url, behind, is_connect, found_at, s, end, old, port>>,
         UNCHANGED <<pc, ret>>, p' = p + 1, hs' \in HostStatesAll,
         field' \in [Fields -> FieldRecords], set' \subseteq Fields,
         \A g \in Fields : field'[g] = field[g] \/ (After(g)' = p + 1 /\ field'[g].off <= p)
  PROVE  Types' /\ Reads(p) /\ UrlPart' /\ NoServer' /\ Passed'
<1>1. /\ Types /\ ret = "none" /\ url \in Seq(Bytes) /\ Len(url) \in Nat
      /\ p \in 1..end /\ end \in Nat /\ end <= Len(url) + 1
  BY InServer
<1>2. p \in 1..Len(url) /\ p + 1 \in 1..end
  BY HostByteIs
<1>3. ASSUME NEW g \in Fields
      PROVE  field'[g].off <= Len(url) /\ After(g)' <= Len(url) + 1
  <2>1. /\ field[g].off <= Len(url) /\ After(g) <= Len(url) + 1
        /\ field[g].off \in Nat /\ After(g) \in Nat
    BY <1>1, FieldIs DEF Types
  <2>2. CASE field'[g] = field[g]
    BY <2>1, <2>2 DEF After
  <2>3. CASE After(g)' = p + 1 /\ field'[g].off <= p
    <3>1. field'[g].off \in Nat
      BY DEF FieldRecords
    <3> QED
      BY <1>1, <1>2, <2>3, <3>1
  <2> QED
    BY <2>2, <2>3
<1>4. Types'
  <2>1. p' \in Nat /\ p' <= end
    BY <1>1, <1>2
  <2> QED
    BY <1>1, <1>3, <2>1 DEF Types, FieldRecords
<1>5. Reads(p)
  BY <1>1, <1>2 DEF Reads
<1>6. hs' # "none" /\ pc' = "host" /\ ret' = "none"
  BY <1>1 DEF HostStatesAll
<1>7. UrlPart' /\ NoServer' /\ Passed'
  BY <1>6 DEF UrlPart, NoServer, Passed
<1> QED
  BY <1>4, <1>5, <1>7

\* What ServerPart says of the fields before p is not touched by the byte at p.
LEMMA HostStep ==
  ASSUME UrlInv, HostLoop
  PROVE  UrlInv'
<1>1. /\ pc = "host" /\ p < end
      /\ UNCHANGED <<url, rest, behind, is_connect, found_at, s, end, old, port>>
  BY DEF HostLoop
<1>2. /\ Types /\ Tiled /\ ServerPart /\ ret = "none" /\ hs \in HostStatesAll /\ hs # "none"
      /\ url \in Seq(Bytes) /\ Len(url) \in Nat /\ Cut \subseteq Fields /\ set \subseteq Fields
      /\ "HOST" \in set /\ p \in 1..end /\ end \in Nat /\ end <= Len(url) + 1
  BY <1>1, InServer
<1>3. /\ p \in 1..Len(url) /\ p + 1 \in 1..end
      /\ \A g \in set : /\ g \in Fields /\ Rank[g] \in 1..7 /\ field[g].off \in Nat
                        /\ field[g].len \in Nat /\ After(g) \in Nat
                        /\ After(g) = field[g].off + field[g].len
                        /\ Rank[g] > 4 => field[g].off > p
      /\ \A g \in Cut : g \in set /\ field[g].off >= 1 /\ (Rank[g] <= 4 => After(g) <= p)
  BY <1>1, HostByteIs
<1>4. PICK new : /\ new = HostChar(hs, url[p])
                 /\ IF new = "s_http_host_dead" THEN Return("1") /\ UNCHANGED <<field, set, hs, p>>
                    ELSE /\ hs' = new /\ p' = p + 1 /\ UNCHANGED <<pc, ret>>
                         /\ \/ HostField(new) = "NONE" /\ UNCHANGED <<field, set>>
                            \/ /\ HostField(new) # "NONE" /\ set' = set \union {HostField(new)}
                               /\ field' = IF Enters(hs, new) THEN Begun(HostField(new), p)
                                           ELSE Longer(HostField(new))
  BY DEF HostLoop
<1>5. CASE new = "s_http_host_dead"
  <2>1. Return("1") /\ UNCHANGED <<field, set, hs, p>>
    BY <1>4, <1>5
  <2>2. UNCHANGED <<behind, is_connect, hostVars, old, field, set>>
    BY <1>1, <2>1 DEF hostVars
  <2>3. found_at' \in BOOLEAN /\ s' \in UrlStates \union {"s_req_spaces_before_url", "s_dead"}
    BY <1>1, <1>2 DEF Types
  <2> QED
    BY <1>1, <1>2, <2>1, <2>2, <2>3, DeadStep
<1>6. CASE new # "s_http_host_dead"
  <2> DEFINE b == url[p]
  <2>1. HostMove(hs, b, new)
    BY <1>2, <1>4, <1>6, HostCharIs
  <2>2. /\ hs' = new /\ p' = p + 1 /\ UNCHANGED <<pc, ret>>
        /\ \/ HostField(new) = "NONE" /\ UNCHANGED <<field, set>>
           \/ /\ HostField(new) # "NONE" /\ set' = set \union {HostField(new)}
              /\ field' = IF Enters(hs, new) THEN Begun(HostField(new), p)
                          ELSE Longer(HostField(new))
    BY <1>4, <1>6
  <2>3. new \in HostStatesAll /\ new # "s_http_userinfo_start" /\ new # "none"
    BY <2>1 DEF HostMove, HostStatesAll
  <2>4. /\ url' = url /\ end' = end /\ pc' = "host"
    BY <1>1, <2>2
  <2>5. /\ end <= Len(url) => url[end] \in {"/", "?"}
        /\ hs = "s_http_userinfo_start" => p = 1 \/ url[p - 1] = "/"
        /\ hs = "s_http_host_start"     => p = 1 \/ url[p - 1] \in {"/", "@"}
        /\ hs = "s_http_host_v6_start"  => p > 1 /\ url[p - 1] = "["
        /\ hs = "s_http_host_port_start" => url[p - 1] = ":"
        /\ HostField(hs) # "NONE" => HostField(hs) \in set /\ After(HostField(hs)) = p
        /\ "USERINFO" \in set => /\ hs # "s_http_userinfo_start"
                                 /\ hs = "s_http_userinfo" \/ url[After("USERINFO")] = "@"
        /\ "PORT" \in set <=> hs = "s_http_host_port"
        /\ hs = "s_http_host" => HostNamed
        /\ hs \in {"s_http_host_v6", "s_http_host_v6_zone_start", "s_http_host_v6_zone"} =>
             HostOpen
        /\ hs \in {"s_http_host_v6_end", "s_http_host_port_start", "s_http_host_port"} =>
             HostNamed \/ HostClosed
        /\ "PORT" \in set => \A i \in field["PORT"].off..After("PORT") - 1 : url[i] \in Digits
    BY <1>2 DEF ServerPart
  <2>6. /\ "SCHEMA" \in Fields /\ "USERINFO" \in Fields /\ "HOST" \in Fields /\ "PORT" \in Fields
    BY DEF Fields
  <2> HIDE DEF b
  <2>7. CASE HostField(new) = "NONE"
    <3>1. UNCHANGED <<field, set>>
      BY <2>2, <2>7
    <3>2. \A g : After(g)' = After(g)
      BY <3>1 DEF After
    <3>3. /\ b \in Delimiters
          /\ \/ new = "s_http_host_start" /\ hs \in NoHostYet /\ b = "@" /\ hs # "s_http_host_start"
                /\ hs # "s_http_host_v6_start"
             \/ new = "s_http_host_v6_start" /\ hs = "s_http_host_start" /\ b = "["
             \/ new = "s_http_host_port_start" /\ hs \in {"s_http_host", "s_http_host_v6_end"} /\ b = ":"
             \/ /\ new = "s_http_host_v6_end" /\ hs \in {"s_http_host_v6", "s_http_host_v6_zone"}
                /\ b = "]"
      BY <2>1, <2>7, HostFieldIs DEF HostMove, Delimiters, NoHostYet
    <3>4. Cut' = Cut
      BY <2>2, <3>1, <3>3 DEF Cut, NoHostYet
    <3>5. Types' /\ Reads(p) /\ UrlPart' /\ NoServer' /\ Passed'
      <4>1. field' \in [Fields -> FieldRecords] /\ set' \subseteq Fields
        BY <1>2, <3>1 DEF Types, FieldRecords
      <4>2. \A g \in Fields : field'[g] = field[g] \/ (After(g)' = p + 1 /\ field'[g].off <= p)
        BY <3>1
      <4> QED
        BY <1>1, <2>2, <2>3, <4>1, <4>2, HostKept
    <3>6. Tiled'
      <4>1. url'[p] \in Delimiters /\ p \in Nat
        BY <1>2, <2>4, <3>3 DEF b
      <4> QED
        BY <1>2, <3>1, <3>4, <3>5, <4>1, TiledByDelimiter
    <3>7. ServerPart'
      <4>1. \A f \in set : Rank[f] > 4 => field[f].off >= end
        BY <1>2 DEF ServerPart
      <4>2. \A f \in Cut : Rank[f] <= 4 => After(f) <= p + 1
        BY <1>3
      <4>3. /\ new = "s_http_host_start" => url[(p + 1) - 1] \in {"/", "@"}
            /\ new = "s_http_host_v6_start" => p + 1 > 1 /\ url[(p + 1) - 1] = "["
            /\ new = "s_http_host_port_start" => url[(p + 1) - 1] = ":"
        BY <1>2, <3>3 DEF b
      <4>4. "USERINFO" \in set => url[After("USERINFO")] = "@"
        <5>1. CASE hs = "s_http_userinfo"
          BY <2>5, <3>3, <5>1, HostFieldIs DEF b
        <5> QED
          BY <2>5, <5>1
      <4>5. "PORT" \notin set /\ new # "s_http_host_port"
        BY <2>5, <3>3 DEF NoHostYet
      <4>6. HostNamed' <=> HostNamed
        BY <2>4, <3>1, <3>2 DEF HostNamed
      <4>7. HostOpen' <=> HostOpen
        BY <2>4, <3>1, <3>2 DEF HostOpen
      <4>8. HostClosed' <=> HostClosed
        BY <2>4, <3>2, <4>7 DEF HostClosed
      <4>9. new \in {"s_http_host_v6_end", "s_http_host_port_start"} => HostNamed \/ HostClosed
        <5>1. CASE hs = "s_http_host"
          BY <2>5, <5>1
        <5>2. CASE hs = "s_http_host_v6_end"
          BY <2>5, <5>2
        <5>3. CASE new = "s_http_host_v6_end"
          <6>1. HostOpen /\ After("HOST") = p /\ url[p] = "]"
            BY <2>5, <3>3, <5>3, HostFieldIs DEF b
          <6> QED
            BY <1>3, <6>1 DEF HostClosed
        <5> QED
          BY <3>3, <5>1, <5>2, <5>3
      <4>10. /\ new \notin {"s_http_host", "s_http_host_v6", "s_http_host_v6_zone_start",
                           "s_http_host_v6_zone", "s_http_host_port", "s_http_userinfo_start"}
        BY <3>3
      <4> QED
        BY <1>2, <1>3, <2>2, <2>3, <2>4, <2>5, <2>7, <3>1, <3>2, <3>4, <4>1, <4>2, <4>3, <4>4,
           <4>5, <4>6, <4>8, <4>9, <4>10 DEF ServerPart
    <3> QED
      BY <3>5, <3>6, <3>7 DEF UrlInv
  <2>8. CASE HostField(new) # "NONE" /\ ~Enters(hs, new)
    <3>1. PICK f : f = HostField(new)
      OBVIOUS
    <3>2. \/ new = "s_http_userinfo" /\ hs = new /\ f = "USERINFO"
          \/ new = "s_http_host" /\ hs = new /\ f = "HOST" /\ b \in HostByte
          \/ /\ f = "HOST" /\ b # "]"
             /\ hs \in {"s_http_host_v6", "s_http_host_v6_zone_start", "s_http_host_v6_zone"}
             /\ new \in {"s_http_host_v6", "s_http_host_v6_zone_start", "s_http_host_v6_zone"}
          \/ new = "s_http_host_port" /\ hs = new /\ f = "PORT" /\ b \in Digits
      BY <2>1, <2>8, <3>1, HostFieldIs DEF HostMove, Enters
    <3>3. /\ f = HostField(hs) /\ f \in set /\ After(f) = p /\ f \in Cut /\ f \in Fields
          /\ f \in {"USERINFO", "HOST", "PORT"}
      <4>1. f = HostField(hs) /\ f \in {"USERINFO", "HOST", "PORT"}
        BY <3>2, HostFieldIs
      <4>2. f \in set /\ After(f) = p
        BY <2>5, <4>1
      <4>3. f \in Cut
        BY <3>2, <4>2 DEF Cut, NoHostYet
      <4> QED
        BY <1>2, <4>1, <4>2, <4>3
    <3>4. field' = Longer(f) /\ set' = set
      <4>1. set' = set \union {f} /\ field' = Longer(f)
        BY <2>2, <2>8, <3>1
      <4> QED
        BY <3>3, <4>1
    <3>5. /\ field' \in [Fields -> FieldRecords]
          /\ \A g \in Fields \ {f} : field'[g] = field[g] /\ After(g)' = After(g)
          /\ field'[f].off = field[f].off /\ field'[f].len = field[f].len + 1
      BY <1>2, <3>3, <3>4, LongerIs DEF After
    <3>6. After(f)' = p + 1 /\ field'[f].off <= p
      <4>1. /\ field[f].off \in Nat /\ field[f].len \in Nat
            /\ field[f].off + field[f].len = p
        BY <1>3, <3>3
      <4>2. After(f)' = field[f].off + (field[f].len + 1)
        BY <3>5 DEF After
      <4> QED
        BY <3>5, <4>1, <4>2
    <3>7. Cut' = Cut
      BY <2>2, <3>2, <3>4 DEF Cut, NoHostYet
    <3>8. Types' /\ Reads(p) /\ UrlPart' /\ NoServer' /\ Passed'
      <4>1. \A g \in Fields : field'[g] = field[g] \/ (After(g)' = p + 1 /\ field'[g].off <= p)
        <5>1. ASSUME NEW g \in Fields
              PROVE  field'[g] = field[g] \/ (After(g)' = p + 1 /\ field'[g].off <= p)
          <6>1. CASE g = f
            BY <3>6, <6>1
          <6>2. CASE g # f
            BY <3>5, <6>2
          <6> QED
            BY <6>1, <6>2
        <5> QED
          BY <5>1
      <4> QED
        BY <1>1, <1>2, <2>2, <2>3, <3>4, <3>5, <4>1, HostKept
    <3>9. Tiled'
      <4>1. ASSUME NEW g \in Cut, Rank[f] < Rank[g] PROVE field[g].off > p
        <5>1. g \in set /\ g \in Fields /\ (Rank[g] > 4 => field[g].off > p)
          BY <1>3
        <5>2. ~(Rank[g] <= 4)
          <6>1. CASE f = "USERINFO"
            <7>1. hs = "s_http_userinfo" /\ "HOST" \notin Cut /\ "PORT" \notin set
              BY <2>5, <3>2, <6>1 DEF Cut, NoHostYet
            <7> QED
              BY <4>1, <5>1, <6>1, <7>1, RankIs DEF Fields
          <6>2. CASE f = "HOST"
            <7>1. "PORT" \notin set
              BY <2>5, <3>2, <6>2
            <7> QED
              BY <4>1, <5>1, <6>2, <7>1, RankIs DEF Fields
          <6>3. CASE f = "PORT"
            BY <4>1, <5>1, <6>3, RankIs DEF Fields
          <6> QED
            BY <3>3, <6>1, <6>2, <6>3
        <5>3. Rank[g] \in 1..7
          BY <1>3, <5>1
        <5> QED
          BY <5>1, <5>2, <5>3
      <4>2. p \in Nat
        BY <1>3
      <4> QED
        BY <1>2, <3>3, <3>4, <3>7, <3>8, <4>1, <4>2, TiledByLonger
    <3>10. ServerPart'
      <4>1. \A g \in set : Rank[g] > 4 => field'[g].off >= end
        <5>1. \A g \in set : Rank[g] > 4 => field[g].off >= end
          BY <1>2 DEF ServerPart
        <5> QED
          BY <1>2, <3>3, <3>5, <5>1, RankIs
      <4>2. \A g \in Cut : Rank[g] <= 4 => After(g)' <= p + 1
        <5>1. ASSUME NEW g \in Cut, Rank[g] <= 4 PROVE After(g)' <= p + 1
          <6>1. After(g) <= p /\ After(g) \in Nat /\ g \in Fields
            BY <1>3, <5>1
          <6> QED
            BY <1>2, <3>5, <3>6, <6>1
        <5> QED
          BY <5>1
      <4>3. /\ new \notin {"s_http_userinfo_start", "s_http_host_start", "s_http_host_v6_start",
                          "s_http_host_port_start", "s_http_host_v6_end"}
        BY <3>2
      <4>4. HostField(new) \in set /\ After(f)' = p + 1 /\ f = HostField(new)
        BY <3>1, <3>3, <3>6
      <4>5. "USERINFO" \in set => new = "s_http_userinfo" \/ url[After("USERINFO")'] = "@"
        <5>1. CASE f = "USERINFO"
          BY <3>2, <5>1
        <5>2. CASE f # "USERINFO"
          <6>1. After("USERINFO")' = After("USERINFO")
            BY <2>6, <3>5, <5>2
          <6> QED
            BY <2>5, <3>2, <5>2, <6>1
        <5> QED
          BY <5>1, <5>2
      <4>6. "PORT" \in set <=> new = "s_http_host_port"
        BY <2>5, <3>2
      <4>7. new = "s_http_host" => HostNamed'
        <5>1. ASSUME new = "s_http_host" PROVE HostNamed'
          <6>1. f = "HOST" /\ HostNamed /\ b \in HostByte
            BY <2>5, <3>2, <5>1
          <6>2. /\ field[f].off \in Nat /\ After(f) = p /\ p \in Nat
            BY <1>3, <3>3
          <6>3. \A i \in field[f].off..p : i = p \/ i \in field[f].off..p - 1
            BY <6>2
          <6>4. \A i \in field[f].off..p : url[i] \in HostByte
            BY <3>3, <6>1, <6>3 DEF HostNamed, b
          <6>5. field'[f].off..After(f)' - 1 = field[f].off..p
            BY <3>5, <3>6, <6>2
          <6> QED
            BY <2>4, <6>1, <6>4, <6>5 DEF HostNamed
        <5> QED
          BY <5>1
      <4>8. new \in {"s_http_host_v6", "s_http_host_v6_zone_start", "s_http_host_v6_zone"} =>
              HostOpen'
        <5>1. ASSUME new \in {"s_http_host_v6", "s_http_host_v6_zone_start", "s_http_host_v6_zone"}
              PROVE  HostOpen'
          <6>1. f = "HOST" /\ HostOpen /\ b # "]"
            BY <2>5, <3>2, <5>1
          <6>2. /\ field[f].off \in Nat /\ After(f) = p /\ p \in Nat
            BY <1>3, <3>3
          <6>3. \A i \in field[f].off..p : i = p \/ i \in field[f].off..p - 1
            BY <6>2
          <6>4. \A i \in field[f].off..p : url[i] # "]"
            BY <3>3, <6>1, <6>3 DEF HostOpen, b
          <6>5. field'[f].off..After(f)' - 1 = field[f].off..p
            BY <3>5, <3>6, <6>2
          <6>6. field'[f].off > 1 /\ url[field'[f].off - 1] = "["
            BY <3>5, <6>1 DEF HostOpen
          <6> QED
            BY <2>4, <6>1, <6>4, <6>5, <6>6 DEF HostOpen
        <5> QED
          BY <5>1
      <4>9. new = "s_http_host_port" => HostNamed' \/ HostClosed'
        <5>1. ASSUME new = "s_http_host_port" PROVE HostNamed' \/ HostClosed'
          <6>1. f = "PORT" /\ (HostNamed \/ HostClosed)
            BY <2>5, <3>2, <5>1
          <6>2. field'["HOST"] = field["HOST"] /\ After("HOST")' = After("HOST")
            BY <2>6, <3>5, <6>1
          <6> QED
            BY <2>4, <6>1, <6>2 DEF HostNamed, HostClosed, HostOpen
        <5> QED
          BY <5>1
      <4>10. "PORT" \in set =>
               \A i \in field'["PORT"].off..After("PORT")' - 1 : url[i] \in Digits
        <5>1. ASSUME "PORT" \in set
              PROVE  \A i \in field'["PORT"].off..After("PORT")' - 1 : url[i] \in Digits
          <6>1. f = "PORT" /\ b \in Digits
            BY <2>5, <3>2, <5>1
          <6>2. /\ field[f].off \in Nat /\ After(f) = p /\ p \in Nat
            BY <1>3, <3>3
          <6>3. \A i \in field[f].off..p : i = p \/ i \in field[f].off..p - 1
            BY <6>2
          <6>4. \A i \in field[f].off..p : url[i] \in Digits
            BY <2>5, <3>3, <6>1, <6>3 DEF b
          <6>5. field'[f].off..After(f)' - 1 = field[f].off..p
            BY <3>5, <3>6, <6>2
          <6> QED
            BY <6>1, <6>4, <6>5
        <5> QED
          BY <5>1
      <4> QED
        BY <1>2, <1>3, <2>2, <2>3, <2>4, <2>5, <3>4, <3>7, <4>1, <4>2, <4>3, <4>4,
           <4>5, <4>6, <4>7, <4>8, <4>9, <4>10 DEF ServerPart
    <3> QED
      BY <3>8, <3>9, <3>10 DEF UrlInv
  <2>9. CASE HostField(new) # "NONE" /\ Enters(hs, new)
    <3>0. PICK q : q = p
      OBVIOUS
    <3>1. PICK f : f = HostField(new)
      OBVIOUS
    <3>2. \/ new = "s_http_userinfo" /\ hs = "s_http_userinfo_start" /\ f = "USERINFO"
          \/ new = "s_http_host" /\ hs = "s_http_host_start" /\ f = "HOST" /\ b \in HostByte
          \/ new = "s_http_host_v6" /\ hs = "s_http_host_v6_start" /\ f = "HOST" /\ b # "]"
          \/ new = "s_http_host_port" /\ hs = "s_http_host_port_start" /\ f = "PORT" /\ b \in Digits
      BY <2>1, <2>9, <3>1, HostFieldIs DEF HostMove, Enters
    <3>3. /\ f \in Fields /\ f \notin Cut /\ f \in {"USERINFO", "HOST", "PORT"}
      <4>1. f = "USERINFO" => f \notin set
        BY <2>5, <3>2
      <4>2. f = "PORT" => f \notin set
        BY <2>5, <3>2
      <4>3. f = "HOST" => hs \in NoHostYet
        BY <3>2 DEF NoHostYet
      <4> QED
        BY <2>6, <3>2, <4>1, <4>2, <4>3 DEF Cut
    <3>4. field' = Begun(f, p) /\ set' = set \union {f}
      BY <2>2, <2>9, <3>1
    <3>5. /\ field' \in [Fields -> FieldRecords]
          /\ \A g \in Fields \ {f} : field'[g] = field[g] /\ After(g)' = After(g)
          /\ field'[f].off = p /\ field'[f].len = 1
      <4>1. p \in Nat
        BY <1>3
      <4>2. /\ field' \in [Fields -> FieldRecords]
            /\ \A g \in Fields \ {f} : field'[g] = field[g]
            /\ field'[f].off = p /\ field'[f].len = 1
        <5>1. /\ Begun(f, p) \in [Fields -> FieldRecords]
              /\ \A g \in Fields \ {f} : Begun(f, p)[g] = field[g]
              /\ Begun(f, p)[f].off = p /\ Begun(f, p)[f].len = 1
          BY <1>2, <3>3, <4>1, BegunIs
        <5> QED
          BY <3>4, <5>1
      <4> QED
        BY <4>2 DEF After
    <3>6. After(f)' = p + 1
      BY <3>5 DEF After
    <3>7. Cut' = Cut \union {f}
      <4>1. CASE f = "HOST"
        BY <1>2, <2>2, <3>2, <3>4, <4>1 DEF Cut, NoHostYet
      <4>2. CASE f # "HOST"
        BY <2>2, <3>2, <3>4, <4>2 DEF Cut, NoHostYet
      <4> QED
        BY <4>1, <4>2
    <3>8. Types' /\ Reads(p) /\ UrlPart' /\ NoServer' /\ Passed'
      <4>1. \A g \in Fields : field'[g] = field[g] \/ (After(g)' = p + 1 /\ field'[g].off <= p)
        <5>1. ASSUME NEW g \in Fields
              PROVE  field'[g] = field[g] \/ (After(g)' = p + 1 /\ field'[g].off <= p)
          <6>1. CASE g = f
            <7>1. field'[f].off <= p
              BY <1>3, <3>5
            <7> QED
              BY <3>6, <6>1, <7>1
          <6>2. CASE g # f
            BY <3>5, <6>2
          <6> QED
            BY <6>1, <6>2
        <5> QED
          BY <5>1
      <4>2. set' \subseteq Fields
        BY <1>2, <3>3, <3>4
      <4> QED
        BY <1>1, <1>2, <2>2, <2>3, <3>5, <4>1, <4>2, HostKept
    <3>9. Tiled'
      <4>1. ASSUME NEW g \in Cut
            PROVE  /\ Rank[g] < Rank[f] => After(g) <= p
                   /\ Rank[f] < Rank[g] => field[g].off > p
        <5>1. g \in set /\ g \in Fields /\ Rank[g] \in 1..7
              /\ (Rank[g] > 4 => field[g].off > p) /\ (Rank[g] <= 4 => After(g) <= p)
          BY <1>3
        <5>2. Rank[f] <= 4 /\ Rank[f] \in 1..7
          BY <3>3, RankIs
        <5>3. Rank[f] < Rank[g] => Rank[g] > 4
          <6>1. CASE f = "USERINFO"
            <7>1. hs = "s_http_userinfo_start" /\ "HOST" \notin Cut /\ "PORT" \notin set
              BY <2>5, <3>2, <6>1 DEF Cut, NoHostYet
            <7> QED
              BY <5>1, <6>1, <7>1, RankIs DEF Fields
          <6>2. CASE f = "HOST"
            <7>1. "PORT" \notin set
              BY <2>5, <3>2, <6>2
            <7> QED
              BY <5>1, <6>2, <7>1, RankIs DEF Fields
          <6>3. CASE f = "PORT"
            BY <5>1, <6>3, RankIs DEF Fields
          <6> QED
            BY <3>3, <6>1, <6>2, <6>3
        <5> QED
          BY <5>1, <5>2, <5>3
      <4>2. q >= First(f) /\ Opened(f, q)'
        <5>1. q \in Nat /\ q >= 1
          BY <1>3, <3>0
        <5>2. CASE f = "USERINFO"
          <6>1. q = 1 \/ url'[q - 1] = "/"
            BY <2>4, <2>5, <3>0, <3>2, <5>2
          <6> QED
            BY <5>1, <5>2, <6>1, OpenedNow DEF First
        <5>3. CASE f = "HOST"
          <6>1. q = 1 \/ url'[q - 1] \in {"/", "@", "["}
            BY <2>4, <2>5, <3>0, <3>2, <5>3
          <6> QED
            BY <5>1, <5>3, <6>1, OpenedNow DEF First
        <5>4. CASE f = "PORT"
          <6>1. url'[q - 1] = ":"
            BY <2>4, <2>5, <3>0, <3>2, <5>4
          <6>2. q >= 2
            <7>1. "HOST" \in Cut
              BY <1>2, <3>2, <5>4 DEF Cut, NoHostYet
            <7>2. field["HOST"].off >= 1 /\ field["HOST"].len >= 1
              BY <1>2, <7>1 DEF Tiled
            <7>3. /\ field["HOST"].off \in Nat /\ field["HOST"].len \in Nat
                  /\ After("HOST") = field["HOST"].off + field["HOST"].len
                  /\ After("HOST") <= p
              BY <1>2, <1>3, <7>1, RankIs
            <7> QED
              BY <3>0, <5>1, <7>2, <7>3
          <6> QED
            BY <5>1, <5>4, <6>1, <6>2, OpenedNow DEF First
        <5> QED
          BY <3>3, <5>2, <5>3, <5>4
      <4>3. q \in Nat /\ q = p /\ f \in Fields \ Cut /\ field' = Begun(f, q) /\ Reads(q)
        BY <1>3, <3>0, <3>3, <3>4, <3>8
      <4>4. /\ \A g \in Cut : Rank[g] < Rank[f] => After(g) <= q
            /\ \A g \in Cut : Rank[f] < Rank[g] => field[g].off > q
        BY <4>1, <4>3
      <4> QED
        BY <1>2, <3>7, <4>2, <4>3, <4>4, TiledByBegun
    <3>10. ServerPart'
      <4>1. \A g \in set' : Rank[g] > 4 => field'[g].off >= end
        <5>1. \A g \in set : Rank[g] > 4 => field[g].off >= end
          BY <1>2 DEF ServerPart
        <5>2. ~(Rank[f] > 4)
          BY <3>3, RankIs
        <5> QED
          BY <1>2, <3>3, <3>4, <3>5, <5>1, <5>2
      <4>2. \A g \in Cut' : Rank[g] <= 4 => After(g)' <= p + 1
        <5>1. ASSUME NEW g \in Cut', Rank[g] <= 4 PROVE After(g)' <= p + 1
          <6>1. CASE g = f
            BY <1>3, <3>6, <6>1
          <6>2. CASE g # f
            <7>1. g \in Cut /\ g \in set /\ g \in Fields
              BY <1>3, <3>7, <5>1, <6>2
            <7>2. After(g) <= p /\ After(g) \in Nat
              BY <1>3, <5>1, <7>1
            <7> QED
              BY <1>3, <3>5, <6>2, <7>1, <7>2
          <6> QED
            BY <6>1, <6>2
        <5> QED
          BY <5>1
      <4>3. /\ new \notin {"s_http_userinfo_start", "s_http_host_start", "s_http_host_v6_start",
                          "s_http_host_port_start", "s_http_host_v6_end",
                          "s_http_host_v6_zone_start", "s_http_host_v6_zone"}
        BY <3>2
      <4>4. HostField(new) \in set' /\ After(f)' = p + 1 /\ f = HostField(new)
        BY <3>1, <3>4, <3>6
      <4>5. "USERINFO" \in set' => new = "s_http_userinfo" \/ url[After("USERINFO")'] = "@"
        <5>1. CASE f = "USERINFO"
          BY <3>2, <5>1
        <5>2. CASE f # "USERINFO"
          <6>1. After("USERINFO")' = After("USERINFO")
            BY <2>6, <3>5, <5>2
          <6> QED
            BY <2>5, <3>2, <3>4, <5>2, <6>1
        <5> QED
          BY <5>1, <5>2
      <4>6. "PORT" \in set' <=> new = "s_http_host_port"
        BY <2>5, <3>2, <3>4
      <4>7. new = "s_http_host" => HostNamed'
        <5>1. ASSUME new = "s_http_host" PROVE HostNamed'
          <6>1. f = "HOST" /\ b \in HostByte
            BY <3>2, <5>1
          <6>2. \A i \in field'["HOST"].off..After("HOST")' - 1 : i = p
            BY <1>3, <3>5, <3>6, <6>1
          <6> QED
            BY <2>4, <6>1, <6>2 DEF HostNamed, b
        <5> QED
          BY <5>1
      <4>8. new = "s_http_host_v6" => HostOpen'
        <5>1. ASSUME new = "s_http_host_v6" PROVE HostOpen'
          <6>1. f = "HOST" /\ b # "]" /\ p > 1 /\ url[p - 1] = "["
            BY <2>5, <3>2, <5>1
          <6>2. \A i \in field'["HOST"].off..After("HOST")' - 1 : i = p
            BY <1>3, <3>5, <3>6, <6>1
          <6> QED
            BY <2>4, <3>5, <6>1, <6>2 DEF HostOpen, b
        <5> QED
          BY <5>1
      <4>9. new = "s_http_host_port" => HostNamed' \/ HostClosed'
        <5>1. ASSUME new = "s_http_host_port" PROVE HostNamed' \/ HostClosed'
          <6>1. f = "PORT" /\ (HostNamed \/ HostClosed)
            BY <2>5, <3>2, <5>1
          <6>2. field'["HOST"] = field["HOST"] /\ After("HOST")' = After("HOST")
            BY <2>6, <3>5, <6>1
          <6> QED
            BY <2>4, <6>1, <6>2 DEF HostNamed, HostClosed, HostOpen
        <5> QED
          BY <5>1
      <4>10. "PORT" \in set' =>
               \A i \in field'["PORT"].off..After("PORT")' - 1 : url[i] \in Digits
        <5>1. ASSUME "PORT" \in set'
              PROVE  \A i \in field'["PORT"].off..After("PORT")' - 1 : url[i] \in Digits
          <6>1. f = "PORT" /\ b \in Digits
            BY <2>5, <3>2, <3>4, <5>1
          <6>2. \A i \in field'["PORT"].off..After("PORT")' - 1 : i = p
            BY <1>3, <3>5, <3>6, <6>1
          <6> QED
            BY <6>1, <6>2 DEF b
        <5> QED
          BY <5>1
      <4>11. "HOST" \in set'
        BY <1>2, <3>4
      <4> QED
        BY <1>2, <1>3, <2>2, <2>3, <2>4, <2>5, <4>1, <4>2, <4>3, <4>4,
           <4>5, <4>6, <4>7, <4>8, <4>9, <4>10, <4>11 DEF ServerPart
    <3> QED
      BY <3>8, <3>9, <3>10 DEF UrlInv
  <2> QED
    BY <2>7, <2>8, <2>9
<1> QED
  BY <1>5, <1>6

LEMMA EndOfHostStep ==
  ASSUME UrlInv, EndOfHost
  PROVE  UrlInv'
<1>1. /\ pc = "host" /\ p = end
      /\ UNCHANGED <<url, rest, behind, is_connect, found_at, s, hs, p, end, port, old, field, set>>
  BY DEF EndOfHost, hostVars
<1>2. /\ Types /\ Tiled /\ ServerPart /\ ret = "none" /\ hs \in HostStatesAll /\ hs # "none"
      /\ url \in Seq(Bytes) /\ Len(url) \in Nat /\ Cut \subseteq Fields
  BY <1>1, InServer
<1>3. CASE Return("1")
  <2>1. found_at' \in BOOLEAN /\ s' \in UrlStates \union {"s_req_spaces_before_url", "s_dead"}
    BY <1>1, <1>2 DEF Types
  <2>2. UNCHANGED <<behind, is_connect, hostVars, old, field, set>>
    BY <1>1 DEF hostVars
  <2> QED
    BY <1>1, <1>2, <1>3, <2>1, <2>2, DeadStep
<1>4. CASE hs \in HostStates /\ pc' = "port" /\ UNCHANGED ret
  <2>1. \A f \in Fields : After(f)' = After(f)
    BY <1>1 DEF After
  <2>2. Types'
    BY <1>1, <1>2, <1>4, <2>1 DEF Types
  <2>3. Cut' = Cut
    BY <1>1 DEF Cut
  <2>4. Tiled'
    <3>1. \A f \in Cut : \A i : Opened(f, i) => Opened(f, i)'
      BY <1>1, <1>2, OpenedSame
    <3> QED
      BY <1>1, <1>2, <2>1, <2>3, <3>1 DEF Tiled
  <2>5. UrlPart' /\ NoServer' /\ Passed'
    BY <1>1, <1>2, <1>4 DEF UrlPart, NoServer, Passed
  <2>6. ServerPart'
    <3>1. \A f : After(f)' = After(f)
      BY <1>1 DEF After
    <3>2. (HostNamed' <=> HostNamed) /\ (HostOpen' <=> HostOpen) /\ (HostClosed' <=> HostClosed)
      BY <1>1, <3>1 DEF HostNamed, HostOpen, HostClosed
    <3> QED
      BY <1>1, <1>2, <1>4, <2>3, <3>1, <3>2 DEF ServerPart
  <2> QED
    BY <2>2, <2>4, <2>5, <2>6 DEF UrlInv
<1> QED
  BY <1>3, <1>4 DEF EndOfHost

-----------------------------------------------------------------------------
(* The port *)

\* The values of the beginnings of a string of digits.
Values(digits, w, n) ==
  /\ w \in [0..n -> Nat] /\ w[0] = 0
  /\ \A m \in 1..n : w[m] = w[m - 1] * 10 + DigitValue[digits[m]]

LEMMA ValuesExist ==
  ASSUME NEW digits \in Seq(Digits)
  PROVE  \E w : Values(digits, w, Len(digits))
<1> DEFINE T == {n \in Nat : n <= Len(digits) => \E w : Values(digits, w, n)}
<1>1. Len(digits) \in Nat /\ \A m \in 1..Len(digits) : digits[m] \in Digits
  BY LenProperties, ElementOfSeq
<1>2. 0 \in T
  <2>1. Values(digits, [m \in 0..0 |-> 0], 0)
    BY DEF Values
  <2> QED
    BY <2>1
<1>3. ASSUME NEW n \in Nat, n \in T PROVE n + 1 \in T
  <2> SUFFICES ASSUME n + 1 <= Len(digits) PROVE \E w : Values(digits, w, n + 1)
    OBVIOUS
  <2>1. PICK w : Values(digits, w, n)
    BY <1>1, <1>3
  <2>2. n + 1 \in 1..Len(digits)
    BY <1>1
  <2>3. DigitValue[digits[n + 1]] \in Nat
    <3>1. digits[n + 1] \in Digits
      BY <1>1, <2>2
    <3>2. \A d \in Digits : DigitValue[d] \in Nat
      BY DEF DigitValue, Digits
    <3> QED
      BY <3>1, <3>2
  <2> DEFINE x == w[n] * 10 + DigitValue[digits[n + 1]]
  <2>4. x \in Nat
    <3>1. w[n] \in Nat
      BY <2>1 DEF Values
    <3> QED
      BY <2>3, <3>1
  <2> HIDE DEF x
  <2> DEFINE u == [m \in 0..n + 1 |-> IF m = n + 1 THEN x ELSE w[m]]
  <2>5. u \in [0..n + 1 -> Nat] /\ u[n + 1] = x /\ \A m \in 0..n : u[m] = w[m]
    <3>1. \A m \in 0..n + 1 : m = n + 1 \/ m \in 0..n
      OBVIOUS
    <3>2. w \in [0..n -> Nat] /\ n + 1 \in 0..n + 1 /\ n + 1 \notin 0..n
      BY <2>1 DEF Values
    <3> QED
      BY <2>4, <3>1, <3>2
  <2> HIDE DEF u
  <2>6. ASSUME NEW m \in 1..n + 1 PROVE u[m] = u[m - 1] * 10 + DigitValue[digits[m]]
    <3>1. CASE m = n + 1
      <4>1. m - 1 = n /\ n \in 0..n
        BY <3>1
      <4> QED
        BY <2>5, <3>1, <4>1 DEF x
    <3>2. CASE m # n + 1
      <4>1. m \in 1..n /\ m \in 0..n /\ m - 1 \in 0..n
        BY <3>2
      <4> QED
        BY <2>1, <2>5, <4>1 DEF Values
    <3> QED
      BY <3>1, <3>2
  <2>7. Values(digits, u, n + 1)
    <3>1. u[0] = 0
      BY <2>1, <2>5 DEF Values
    <3> QED
      BY <2>5, <2>6, <3>1 DEF Values
  <2> QED
    BY <2>7
<1> HIDE DEF T
<1>4. Nat \subseteq T
  BY <1>2, <1>3, Induction
<1> QED
  BY <1>1, <1>4 DEF T

LEMMA DecimalIs ==
  ASSUME NEW digits \in Seq(Digits)
  PROVE  Decimal(digits) \in Nat
<1> DEFINE D == 0..Len(digits)
           Of(v) == [n \in D |-> IF n = 0 THEN 0 ELSE v[n - 1] * 10 + DigitValue[digits[n]]]
           f == CHOOSE v : v = Of(v)
<1>1. Len(digits) \in Nat
  BY LenProperties
<1>2. PICK w : Values(digits, w, Len(digits))
  BY ValuesExist
<1>3. w = Of(w)
  <2>1. w = [n \in D |-> w[n]]
    BY <1>2, Zenon DEF Values
  <2>2. \A n \in D : w[n] = IF n = 0 THEN 0 ELSE w[n - 1] * 10 + DigitValue[digits[n]]
    BY <1>1, <1>2 DEF Values
  <2> QED
    BY <2>1, <2>2
<1>4. f = Of(f)
  BY <1>3, Zenon
<1>5. \A n \in D : f[n] = IF n = 0 THEN 0 ELSE f[n - 1] * 10 + DigitValue[digits[n]]
  BY <1>4, Zenon
<1>6. Decimal(digits) = f[Len(digits)]
  BY DEF Decimal
<1> HIDE DEF f
<1> DEFINE T == {n \in Nat : n \in D => f[n] = w[n]}
<1>7. 0 \in T
  BY <1>1, <1>2, <1>5 DEF Values
<1>8. ASSUME NEW n \in Nat, n \in T PROVE n + 1 \in T
  <2> SUFFICES ASSUME n + 1 \in D PROVE f[n + 1] = w[n + 1]
    OBVIOUS
  <2>1. n \in D /\ n + 1 \in 1..Len(digits) /\ (n + 1) - 1 = n /\ n + 1 # 0
    BY <1>1
  <2>2. f[n + 1] = f[n] * 10 + DigitValue[digits[n + 1]]
    BY <1>5, <2>1
  <2>3. w[n + 1] = w[n] * 10 + DigitValue[digits[n + 1]]
    BY <1>2, <2>1 DEF Values
  <2> QED
    BY <1>8, <2>1, <2>2, <2>3
<1> HIDE DEF T
<1>9. Nat \subseteq T
  BY <1>7, <1>8, Induction
<1>10. f[Len(digits)] = w[Len(digits)]
  BY <1>1, <1>9 DEF T
<1> QED
  BY <1>1, <1>2, <1>6, <1>10 DEF Values

LEMMA PortIs ==
  ASSUME UrlInv, pc = "port", "PORT" \in set
  PROVE  /\ Strtoul(field["PORT"].off) = Decimal(Number)
         /\ Decimal(Number) \in Nat
<1>1. /\ Types /\ ServerPart /\ hs # "none" /\ ret = "none"
      /\ p = end /\ end \in Nat /\ end <= Len(url) + 1
      /\ url \in Seq(Bytes) /\ behind \in Seq(Digits)
  BY DEF UrlInv, Types, NoServer, ServerPart
<1> DEFINE o == field["PORT"].off
           All == Bytes \union Digits
           memory == url \o behind
           Stops == {j \in o..Len(memory) : memory[j] \notin Digits} \union {Len(memory) + 1}
<1>2. Len(url) \in Nat /\ Len(behind) \in Nat /\ \A i \in 1..Len(behind) : behind[i] \in Digits
  BY <1>1, LenProperties, ElementOfSeq
<1>3. hs = "s_http_host_port"
  BY <1>1 DEF ServerPart
<1>4. "PORT" \in Fields /\ "PORT" \in Cut
  BY <1>3 DEF Fields, Cut, NoHostYet
<1>5. o \in Nat /\ o >= 2 /\ field["PORT"].len >= 1 /\ field["PORT"].len \in Nat
  <2>1. Tiled
    BY <1>1 DEF UrlInv
  <2> QED
    BY <1>1, <1>4, <2>1, FieldIs DEF Tiled
<1>6. o + field["PORT"].len = end
  BY <1>1, <1>3, <1>4, HostFieldIs DEF ServerPart, After
<1>7. \A i \in o..end - 1 : url[i] \in Digits
  BY <1>1, <1>6 DEF ServerPart, After
<1>8. end <= Len(url) => url[end] \notin Digits
  BY <1>1 DEF ServerPart, Digits
<1>9. /\ PortText = SubSeq(url, o, end - 1) /\ PortText \in Seq(Digits)
      /\ Len(PortText) = end - o /\ \A i \in 1..end - o : PortText[i] = url[o + i - 1]
  <2>1. PortText = SubSeq(url, o, end - 1)
    <3>1. field["PORT"].off + field["PORT"].len - 1 = end - 1
      <4>1. \A x, y \in Nat : x + y = end => x + y - 1 = end - 1
        OBVIOUS
      <4> QED
        BY <1>5, <1>6, <4>1
    <3> QED
      BY <3>1, Zenon DEF PortText
  <2>2. /\ o \in 1..Len(url) + 1 /\ end - 1 \in o - 1..Len(url) /\ o \in Int /\ end - 1 \in Int
    BY <1>1, <1>2, <1>5, <1>6
  <2>3. /\ SubSeq(url, o, end - 1) \in Seq(Bytes) /\ Len(SubSeq(url, o, end - 1)) = end - o
        /\ \A i \in 1..end - o : SubSeq(url, o, end - 1)[i] = url[o + i - 1]
    <3>1. (end - 1) - o + 1 = end - o /\ o <= end - 1
      <4> HIDE DEF o
      <4> QED
        BY <1>1, <1>5, <1>6
    <3>2. \A i \in o..end - 1 : url[i] \in Bytes
      <4>1. \A i \in o..end - 1 : i \in 1..Len(url)
        BY <1>1, <1>2, <1>5
      <4> QED
        BY <1>1, <4>1, ElementOfSeq
    <3> HIDE DEF o
    <3> QED
      BY <2>2, <3>1, <3>2, SubSeqProperties
  <2>4. PortText \in Seq(Digits)
    <3>1. \A i \in o..end - 1 : url[i] \in Digits
      BY <1>7
    <3>2. o \in Int /\ end - 1 \in Int
      BY <2>2
    <3> HIDE DEF o
    <3> QED
      BY <2>1, <3>1, <3>2, SubSeqProperties
  <2> QED
    BY <2>1, <2>3, <2>4
<1>10. /\ memory \in Seq(All) /\ Len(memory) = Len(url) + Len(behind)
       /\ \A i \in 1..Len(url) : memory[i] = url[i]
       /\ \A i \in Len(url) + 1..Len(memory) : memory[i] \in Digits
  <2>1. url \in Seq(All) /\ behind \in Seq(All)
    BY <1>1
  <2>2. /\ memory \in Seq(All) /\ Len(memory) = Len(url) + Len(behind)
        /\ \A i \in 1..Len(url) : memory[i] = url[i]
        /\ \A i \in Len(url) + 1..Len(url) + Len(behind) : memory[i] = behind[i - Len(url)]
    BY <1>2, <2>1, ConcatProperties
  <2>3. \A i \in Len(url) + 1..Len(url) + Len(behind) : i - Len(url) \in 1..Len(behind)
    BY <1>2
  <2> QED
    BY <1>2, <2>2, <2>3
<1> HIDE DEF o, memory
<1>11. Strtoul(o) = Decimal(SubSeq(memory, o, Min(Stops) - 1))
  BY DEF Strtoul, memory
<1>12. CASE end <= Len(url)
  <2>1. end \in Stops
    BY <1>1, <1>2, <1>5, <1>6, <1>8, <1>10, <1>12
  <2>2. \A j \in Stops : end <= j
    <3>1. ASSUME NEW j \in Stops, j < end PROVE FALSE
      <4>1. j \in o..end - 1 /\ j \in 1..Len(url) /\ memory[j] \notin Digits
        BY <1>1, <1>2, <1>5, <1>10, <1>12, <3>1
      <4> QED
        BY <1>7, <1>10, <4>1
    <3> QED
      BY <1>1, <1>2, <1>5, <1>10, <3>1
  <2>3. Min(Stops) = end
    <3>1. Stops \in SUBSET Nat
      BY <1>2, <1>5, <1>10
    <3>2. Min(Stops) \in Stops /\ Min(Stops) <= end
      BY <2>1, <3>1, MinIs
    <3> QED
      BY <1>1, <2>2, <3>1, <3>2
  <2>4. SubSeq(memory, o, end - 1) = PortText
    <3>1. /\ SubSeq(memory, o, end - 1) \in Seq(All)
          /\ Len(SubSeq(memory, o, end - 1)) = end - o
          /\ \A i \in 1..end - o : SubSeq(memory, o, end - 1)[i] = memory[o + i - 1]
      <4>1. /\ o \in 1..Len(memory) + 1 /\ end - 1 \in o - 1..Len(memory)
            /\ o \in Int /\ end - 1 \in Int /\ end - 1 - o + 1 = end - o
        BY <1>1, <1>2, <1>5, <1>6, <1>10, <1>12
      <4> QED
        BY <1>1, <1>5, <1>6, <1>10, <4>1, SubSeqProperties
    <3>2. \A i \in 1..end - o : memory[o + i - 1] = url[o + i - 1]
      <4>1. \A i \in 1..end - o : o + i - 1 \in 1..Len(url)
        BY <1>1, <1>2, <1>5, <1>12
      <4> QED
        BY <1>10, <4>1
    <3>3. PortText \in Seq(All)
      BY <1>9
    <3> QED
      BY <1>9, <3>1, <3>2, <3>3, SeqEqual
  <2>5. Number = PortText
    <3>1. o + Len(PortText) = end
      BY <1>1, <1>5, <1>9
    <3> QED
      BY <1>1, <1>2, <1>12, <3>1 DEF Number, o
  <2> QED
    BY <1>9, <1>11, <2>3, <2>4, <2>5, DecimalIs DEF o
<1>13. CASE end > Len(url)
  <2>1. end = Len(url) + 1
    BY <1>1, <1>2, <1>13
  <2>2. Stops = {Len(memory) + 1}
    <3>1. \A j \in o..Len(memory) : memory[j] \in Digits
      <4>1. \A j \in o..Len(memory) : (j \in 1..Len(url) /\ j \in o..end - 1)
                                      \/ j \in Len(url) + 1..Len(memory)
        BY <1>2, <1>5, <1>10, <2>1
      <4> QED
        BY <1>7, <1>10, <4>1
    <3> QED
      BY <3>1
  <2>3. Min(Stops) = Len(memory) + 1
    <3>1. Len(memory) + 1 \in Nat
      BY <1>2, <1>10
    <3>2. Stops \in SUBSET Nat /\ Stops # {}
      BY <2>2, <3>1
    <3>3. Min(Stops) \in Stops
      BY <3>2, MinIs
    <3> QED
      BY <2>2, <3>3
  <2> DEFINE rest_of == SubSeq(memory, o, Len(memory))
             number  == PortText \o behind
  <2>4. rest_of = number
    <3>1. /\ rest_of \in Seq(All) /\ Len(rest_of) = Len(memory) - o + 1
          /\ \A i \in 1..Len(memory) - o + 1 : rest_of[i] = memory[o + i - 1]
      <4>1. /\ o \in 1..Len(memory) + 1 /\ Len(memory) \in o - 1..Len(memory)
            /\ o \in Int /\ Len(memory) \in Int
        BY <1>2, <1>5, <1>6, <1>10, <2>1
      <4> QED
        BY <1>10, <4>1, SubSeqProperties
    <3>2. /\ number \in Seq(Digits) /\ Len(number) = Len(PortText) + Len(behind)
          /\ \A i \in 1..Len(PortText) : number[i] = PortText[i]
          /\ \A i \in Len(PortText) + 1..Len(PortText) + Len(behind) :
               number[i] = behind[i - Len(PortText)]
      BY <1>1, <1>9, ConcatProperties
    <3>3. Len(rest_of) = Len(number)
      BY <1>2, <1>5, <1>9, <1>10, <2>1, <3>1, <3>2
    <3>4. ASSUME NEW i \in 1..Len(rest_of) PROVE rest_of[i] = number[i]
      <4>1. rest_of[i] = memory[o + i - 1] /\ i \in Nat /\ i >= 1
        BY <3>1
      <4>2. CASE i <= end - o
        <5>1. o + i - 1 \in 1..Len(url) /\ i \in 1..end - o
          BY <1>2, <1>5, <2>1, <4>1, <4>2
        <5> QED
          BY <1>9, <1>10, <3>2, <4>1, <5>1
      <4>3. CASE i > end - o
        <5>1. /\ o + i - 1 \in Len(url) + 1..Len(url) + Len(behind)
              /\ i \in Len(PortText) + 1..Len(PortText) + Len(behind)
              /\ (o + i - 1) - Len(url) = i - Len(PortText)
          <6>1. /\ Len(PortText) = (Len(url) + 1) - o /\ i > (Len(url) + 1) - o
                /\ i <= (Len(url) + Len(behind)) - o + 1
            <7>1. i <= Len(memory) - o + 1
              BY <3>1
            <7> QED
              BY <1>9, <1>10, <2>1, <4>3, <7>1
          <6> QED
            BY <1>2, <1>5, <4>1, <6>1
        <5>2. memory[o + i - 1] = behind[(o + i - 1) - Len(url)]
          BY <1>1, <5>1, ConcatProperties DEF memory
        <5> QED
          BY <3>2, <4>1, <5>1, <5>2
      <4>4. i <= end - o \/ i > end - o
        BY <1>1, <1>5, <4>1
      <4> QED
        BY <4>2, <4>3, <4>4
    <3>5. number \in Seq(All)
      BY <3>2
    <3> HIDE DEF rest_of, number
    <3> QED
      BY <3>1, <3>3, <3>4, <3>5, SeqEqual
  <2>5. Number = number
    <3>1. o + Len(PortText) = end
      BY <1>1, <1>5, <1>9
    <3> QED
      BY <1>1, <1>2, <1>13, <3>1 DEF Number, o
  <2>6. number \in Seq(Digits)
    BY <1>1, <1>9, ConcatProperties
  <2>7. Min(Stops) - 1 = Len(memory)
    BY <1>2, <1>10, <2>3
  <2> QED
    BY <1>11, <2>4, <2>5, <2>6, <2>7, DecimalIs DEF o
<1> QED
  BY <1>1, <1>2, <1>12, <1>13

LEMMA PortStep ==
  ASSUME UrlInv, Port
  PROVE  UrlInv'
<1>1. /\ pc = "port"
      /\ UNCHANGED <<url, rest, behind, is_connect, found_at, s, hs, p, end, old, field, set>>
  BY DEF Port
<1>2. /\ Types /\ Tiled /\ UrlPart /\ NoServer /\ ServerPart /\ ret = "none"
      /\ url \in Seq(Bytes) /\ Len(url) \in Nat /\ set \subseteq Fields
  BY <1>1, LenProperties DEF UrlInv, Types
<1>3. \/ Return("1") /\ UNCHANGED port
      \/ /\ Return("0") /\ (is_connect => set = {"HOST", "PORT"})
         /\ \/ "PORT" \notin set /\ UNCHANGED port
            \/ /\ "PORT" \in set /\ port' = Strtoul(field["PORT"].off)
               /\ ~(Strtoul(field["PORT"].off) > MaxPort)
  BY DEF Port
<1>4. CASE Return("1") /\ UNCHANGED port
  <2>1. found_at' \in BOOLEAN /\ s' \in UrlStates \union {"s_req_spaces_before_url", "s_dead"}
    BY <1>1, <1>2 DEF Types
  <2>2. UNCHANGED <<behind, is_connect, hostVars, old, field, set>>
    BY <1>1, <1>4 DEF hostVars
  <2> QED
    BY <1>1, <1>2, <1>4, <2>1, <2>2, DeadStep
<1>5. CASE /\ Return("0") /\ (is_connect => set = {"HOST", "PORT"})
           /\ \/ "PORT" \notin set /\ UNCHANGED port
              \/ /\ "PORT" \in set /\ port' = Strtoul(field["PORT"].off)
                 /\ ~(Strtoul(field["PORT"].off) > MaxPort)
  <2>1. ret' = "0" /\ pc' = "done"
    BY <1>5 DEF Return
  <2>2. "PORT" \in set => port' = Decimal(Number) /\ port' \in 0..MaxPort
    <3>1. ASSUME "PORT" \in set PROVE port' = Decimal(Number) /\ port' \in 0..MaxPort
      <4>1. Strtoul(field["PORT"].off) = Decimal(Number) /\ Decimal(Number) \in Nat
        BY <1>1, <3>1, PortIs
      <4> QED
        BY <1>5, <3>1, <4>1, PortAssumption
    <3> QED
      BY <3>1
  <2>3. port' \in 0..MaxPort
    BY <1>2, <1>5, <2>2 DEF Types
  <2>4. \A f : After(f)' = After(f)
    BY <1>1 DEF After
  <2>5. Types'
    BY <1>1, <1>2, <2>1, <2>3, <2>4 DEF Types
  <2>6. Cut' = Cut
    BY <1>1 DEF Cut
  <2>7. Tiled'
    <3>1. \A f \in Cut : \A i : Opened(f, i) => Opened(f, i)'
      BY <1>1, <1>2, OpenedSame DEF Cut
    <3> QED
      BY <1>1, <1>2, <2>4, <2>6, <3>1 DEF Tiled
  <2>8. UrlPart' /\ NoServer'
    BY <1>1, <1>2, <2>1 DEF UrlPart, NoServer
  <2>9. ServerPart'
    <3>1. (HostNamed' <=> HostNamed) /\ (HostOpen' <=> HostOpen) /\ (HostClosed' <=> HostClosed)
      BY <1>1, <2>4 DEF HostNamed, HostOpen, HostClosed
    <3> QED
      BY <1>1, <1>2, <2>1, <2>4, <2>6, <3>1 DEF ServerPart
  <2>10. Passed'
    <3>1. PortText' = PortText
      BY <1>1 DEF PortText
    <3>2. Number' = Number
      BY <1>1, <3>1 DEF Number
    <3>3. PortRead'
      BY <1>1, <2>2, <3>1 DEF PortRead, Number
    <3> QED
      BY <1>1, <1>5, <3>3 DEF Passed
  <2> QED
    BY <2>5, <2>7, <2>8, <2>9, <2>10 DEF UrlInv
<1> QED
  BY <1>3, <1>4, <1>5

-----------------------------------------------------------------------------
\* The invariant holds in every state of http_parser_parse_url.
THEOREM UrlCorrect == Spec => []UrlInv
<1>1. ASSUME UrlInv, Next PROVE UrlInv'
  BY <1>1, UrlStep, EndOfUrlStep, HostStep, EndOfHostStep, PortStep DEF Next
<1>2. ASSUME UrlInv, UNCHANGED vars PROVE UrlInv'
  <2>1. UNCHANGED <<url, behind, is_connect, found_at, s, hs, p, end, port, old, field, set, pc, ret>>
    BY <1>2 DEF vars, hostVars
  <2>2. \A f : After(f)' = After(f)
    BY <2>1 DEF After
  <2>3. Types'
    BY <1>2, <2>1, <2>2 DEF UrlInv, Types
  <2>4. Passed'
    <3>1. PortText' = PortText
      BY <2>1 DEF PortText
    <3> QED
      BY <1>2, <2>1, <3>1 DEF UrlInv, Passed, PortRead, Number, Accepted
  <2>5. ASSUME ret # "1" PROVE Tiled' /\ UrlPart' /\ NoServer' /\ ServerPart'
    <3>1. Tiled /\ UrlPart /\ NoServer /\ ServerPart /\ Types
      BY <1>2, <2>5 DEF UrlInv
    <3>2. Cut' = Cut /\ Cut \subseteq Fields
      BY <2>1, <3>1 DEF Cut, Types
    <3>3. Tiled'
      <4>1. \A f \in Cut : \A i : Opened(f, i) => Opened(f, i)'
        BY <2>1, <3>2, OpenedSame
      <4> QED
        BY <2>1, <2>2, <3>1, <3>2, <4>1 DEF Tiled
    <3>4. UrlPart' /\ NoServer'
      BY <2>1, <2>2, <3>1 DEF UrlPart, NoServer
    <3>5. (HostNamed' <=> HostNamed) /\ (HostOpen' <=> HostOpen) /\ (HostClosed' <=> HostClosed)
      BY <2>1, <2>2 DEF HostNamed, HostOpen, HostClosed
    <3>6. ServerPart'
      BY <2>1, <2>2, <3>1, <3>2, <3>5 DEF ServerPart
    <3> QED
      BY <3>3, <3>4, <3>6
  <2> QED
    BY <2>1, <2>3, <2>4, <2>5 DEF UrlInv
<1>3. UrlInv /\ [Next]_vars => UrlInv'
  BY <1>1, <1>2
<1> QED
  BY InitOK, <1>3, PTL DEF Spec

-----------------------------------------------------------------------------
(* What a caller sees *)

LEMMA AcceptedIs ==
  ASSUME UrlInv, Accepted
  PROVE  /\ Types /\ Tiled /\ NoServer /\ ServerPart /\ Passed
         /\ Cut = set /\ set \subseteq Fields /\ pc = "done"
         /\ hs \in HostStates \/ hs = "none"
<1>1. /\ Types /\ Tiled /\ NoServer /\ ServerPart /\ Passed /\ ret = "0" /\ pc = "done"
      /\ set \subseteq Fields
  BY DEF UrlInv, Accepted, Types
<1>2. hs \in HostStates \/ hs = "none"
  BY <1>1 DEF ServerPart
<1>3. Cut = set
  BY <1>2 DEF Cut, NoHostYet, HostStates
<1> QED
  BY <1>1, <1>2, <1>3

\* http_parser_parse_url: an accepted URL of any length falls into its fields, in
\* their order, none empty, none overlapping, and nothing outside them but
\* delimiters.
THEOREM UrlFalls == Spec => []FieldsTile
<1>1. ASSUME UrlInv PROVE FieldsTile
  <2>1. TypeOK
    <3>1. ASSUME NEW f \in Fields
          PROVE  /\ field[f].off \in 0..Len(url)
                 /\ field[f].off + field[f].len \in 0..Len(url) + 1
      <4>1. /\ Types /\ url \in Seq(Bytes) /\ field[f].off <= Len(url)
            /\ After(f) <= Len(url) + 1
        BY <1>1 DEF UrlInv, Types
      <4>2. /\ field[f].off \in Nat /\ field[f].len \in Nat /\ Len(url) \in Nat
        BY <4>1, FieldIs, LenProperties
      <4> QED
        BY <4>1, <4>2 DEF After
    <3>2. p \in 0..end
      BY <1>1 DEF UrlInv, Types
    <3> QED
      BY <1>1, <3>1, <3>2 DEF UrlInv, Types, TypeOK
  <2>2. ASSUME Accepted
        PROVE  /\ \A i, j \in DOMAIN Order : i < j =>
                    \A m \in Positions(Order[i]), n \in Positions(Order[j]) : m < n
               /\ \A f \in set : Positions(f) # {} /\ Opened(f, field[f].off)
               /\ \A i \in DOMAIN url :
                    \/ \E f \in set : i \in Positions(f)
                    \/ url[i] \in {":", "/", "@", "[", "]", "?", "#"}
    <3>1. Types /\ Tiled /\ ServerPart /\ NoServer /\ Cut = set /\ set \subseteq Fields
          /\ pc = "done" /\ url \in Seq(Bytes) /\ Len(url) \in Nat /\ DOMAIN url = 1..Len(url)
      BY <1>1, <2>2, AcceptedIs, LenProperties DEF Types
    <3>2. \A f \in set : /\ Positions(f) = field[f].off..After(f) - 1
                         /\ field[f].off \in Nat /\ field[f].len \in Nat
                         /\ After(f) = field[f].off + field[f].len
      BY <3>1, FieldIs DEF Positions, After
    <3>3. ASSUME NEW i \in DOMAIN Order, NEW j \in DOMAIN Order, i < j,
                 NEW m \in Positions(Order[i]), NEW n \in Positions(Order[j])
          PROVE  m < n
      <4>1. /\ Order[i] \in set /\ Order[j] \in set
        BY <3>3 DEF Positions
      <4>2. Rank[Order[i]] = i /\ Rank[Order[j]] = j
        BY <3>3, RankIs DEF Order
      <4>3. After(Order[i]) <= field[Order[j]].off
        BY <3>1, <3>3, <4>1, <4>2 DEF Tiled
      <4>4. /\ m \in field[Order[i]].off..After(Order[i]) - 1
            /\ n \in field[Order[j]].off..After(Order[j]) - 1
            /\ After(Order[i]) \in Nat /\ field[Order[j]].off \in Nat
        <5>1. /\ Positions(Order[i]) = field[Order[i]].off..After(Order[i]) - 1
              /\ Positions(Order[j]) = field[Order[j]].off..After(Order[j]) - 1
              /\ field[Order[i]].off \in Nat /\ field[Order[i]].len \in Nat
              /\ After(Order[i]) = field[Order[i]].off + field[Order[i]].len
              /\ field[Order[j]].off \in Nat
          BY <3>2, <4>1
        <5> QED
          BY <3>3, <5>1
      <4> QED
        BY <4>3, <4>4
    <3>4. ASSUME NEW f \in set PROVE Positions(f) # {} /\ Opened(f, field[f].off)
      <4>1. field[f].len >= 1 /\ Opened(f, field[f].off)
        BY <3>1 DEF Tiled
      <4>2. field[f].off \in Positions(f)
        BY <3>2, <4>1
      <4> QED
        BY <4>1, <4>2
    <3>5. ASSUME NEW i \in DOMAIN url
          PROVE  \/ \E f \in set : i \in Positions(f)
                 \/ url[i] \in {":", "/", "@", "[", "]", "?", "#"}
      <4>1. p = end /\ p \in Nat
        BY <3>1 DEF NoServer, ServerPart, Types
      <4>2. \/ \E f \in Cut : i \in field[f].off..After(f) - 1
            \/ url[i] \in Delimiters
            \/ i \in p..end - 1
        BY <3>1 DEF Tiled
      <4>3. i \notin p..end - 1
        BY <4>1
      <4> QED
        BY <3>1, <3>2, <4>2, <4>3 DEF Delimiters
    <3> QED
      BY <3>3, <3>4, <3>5
  <2> QED
    BY <2>1, <2>2 DEF FieldsTile
<1> QED
  BY UrlCorrect, <1>1, PTL

\* http_parse_host: the host of an accepted URL is a name or stands between
\* brackets, its port is of digits, its user ends at "@", and CONNECT takes
\* nothing but host and port.
THEOREM UrlServer == Spec => []ServerRight
<1>1. ASSUME UrlInv PROVE ServerRight
  <2> SUFFICES ASSUME Accepted
               PROVE  /\ "SCHEMA" \in set \/ is_connect => "HOST" \in set
                      /\ Text("PORT") \subseteq Digits
                      /\ "HOST" \in set => LET o == field["HOST"].off
                                               after == o + field["HOST"].len IN
                           \/ Text("HOST") \subseteq HostByte
                           \/ /\ o > 1 /\ after <= Len(url)
                              /\ url[o - 1] = "[" /\ url[after] = "]" /\ "]" \notin Text("HOST")
                      /\ "USERINFO" \in set =>
                           url[field["USERINFO"].off + field["USERINFO"].len] = "@"
                      /\ is_connect => set = {"HOST", "PORT"}
    BY DEF ServerRight
  <2>1. Types /\ Tiled /\ ServerPart /\ NoServer /\ Passed /\ set \subseteq Fields /\ ret = "0"
        /\ pc = "done" /\ (hs \in HostStates \/ hs = "none")
    BY <1>1, AcceptedIs DEF Accepted
  <2>2. is_connect => set = {"HOST", "PORT"}
    BY <2>1 DEF Passed
  <2>3. "SCHEMA" \in set \/ is_connect => "HOST" \in set
    BY <2>1, <2>2 DEF NoServer, ServerPart
  <2>4. \A f \in set : Positions(f) = field[f].off..After(f) - 1
    BY <2>1, FieldIs, SMT DEF Positions, After
  <2>5. Text("PORT") \subseteq Digits
    <3>1. CASE "PORT" \in set
      <4>1. \A i \in field["PORT"].off..After("PORT") - 1 : url[i] \in Digits
        BY <2>1, <3>1 DEF NoServer, ServerPart
      <4> QED
        BY <2>4, <3>1, <4>1 DEF Text
    <3>2. CASE "PORT" \notin set
      BY <3>2 DEF Text, Positions
    <3> QED
      BY <3>1, <3>2
  <2>6. ASSUME "HOST" \in set
        PROVE  \/ Text("HOST") \subseteq HostByte
               \/ /\ field["HOST"].off > 1 /\ After("HOST") <= Len(url)
                  /\ url[field["HOST"].off - 1] = "[" /\ url[After("HOST")] = "]"
                  /\ "]" \notin Text("HOST")
    <3>1. HostNamed \/ HostClosed
      BY <2>1, <2>6 DEF NoServer, ServerPart, HostStates
    <3>2. CASE HostNamed
      BY <2>4, <2>6, <3>2 DEF Text, HostNamed
    <3>3. CASE HostClosed
      BY <2>4, <2>6, <3>3 DEF Text, HostClosed, HostOpen
    <3> QED
      BY <3>1, <3>2, <3>3
  <2>7. "USERINFO" \in set => url[After("USERINFO")] = "@"
    BY <2>1 DEF NoServer, ServerPart, HostStates
  <2> QED
    BY <2>2, <2>3, <2>5, <2>6, <2>7 DEF After
<1> QED
  BY UrlCorrect, <1>1, PTL

\* "Ports have a max value of 2^16": whatever MaxPort is and however many digits
\* there are, the port of an accepted URL is the number its digits show, unless
\* the URL ends with them and more digits follow it in memory.
THEOREM UrlPort == Spec => []PortShown
<1>1. ASSUME UrlInv, Accepted, "PORT" \in set,
             field["PORT"].off + Len(PortText) <= Len(url) \/ behind = <<>>
      PROVE  port = Decimal(PortText)
  <2>1. port = Decimal(Number)
    BY <1>1 DEF UrlInv, Passed, PortRead, Accepted
  <2>2. Number = PortText
    <3>1. ret = "0" /\ Types /\ Tiled /\ NoServer /\ ServerPart /\ pc = "done"
      BY <1>1 DEF UrlInv, Types, Accepted
    <3>2. hs = "s_http_host_port"
      BY <1>1, <3>1 DEF NoServer, ServerPart
    <3>3. "PORT" \in Fields /\ "PORT" \in Cut
      BY <1>1, <3>2 DEF Fields, Cut, NoHostYet
    <3>4. /\ field["PORT"].off \in Nat /\ field["PORT"].off >= 2
          /\ field["PORT"].len \in Nat /\ url \in Seq(Bytes) /\ Len(url) \in Nat
          /\ field["PORT"].off + field["PORT"].len <= Len(url) + 1
      BY <3>1, <3>3, FieldIs, LenProperties DEF Tiled, Types, After
    <3>5. PortText \in Seq(Bytes) /\ Len(PortText) \in Nat
      <4>1. \A i \in field["PORT"].off..field["PORT"].off + field["PORT"].len - 1 :
              url[i] \in Bytes
        BY <3>4, ElementOfSeq
      <4>2. PortText \in Seq(Bytes)
        BY <3>4, <4>1, SubSeqProperties DEF PortText
      <4> QED
        BY <4>2, LenProperties
    <3>6. CASE behind = <<>>
      BY <3>5, <3>6, ConcatEmptySeq DEF Number
    <3>7. CASE field["PORT"].off + Len(PortText) <= Len(url)
      <4>1. ~(field["PORT"].off + Len(PortText) > Len(url))
        BY <3>4, <3>5, <3>7
      <4> QED
        BY <4>1 DEF Number
    <3> QED
      BY <1>1, <3>6, <3>7
  <2> QED
    BY <2>1, <2>2
<1>2. UrlInv => PortShown
  BY <1>1 DEF PortShown
<1> QED
  BY UrlCorrect, <1>2, PTL
=============================================================================
