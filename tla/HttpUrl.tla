------------------------------- MODULE HttpUrl -------------------------------
(***************************************************************************)
(* http_parser_parse_url and http_parse_host, strict build: a URL is cut   *)
(* into its fields by running parse_url_char over it, and the server part  *)
(* into user, host and port by a second state machine.  The bytes of the   *)
(* URL are chosen as they are read.  Positions count from 1; p - buf in    *)
(* the code is one less.                                                   *)
(***************************************************************************)
EXTENDS UrlChar, Sequences, FiniteSetsExt

CONSTANTS Bytes,    \* the classes of bytes of a URL
          MaxPort,  \* 0xffff
          MaxUrl,   \* bound on the length of a URL, by is_connect
          MaxRest,  \* bound on the bytes of its path, query and fragment
          Behind    \* the digits the buffer may hold behind the URL

ASSUME PortAssumption   == MaxPort \in Nat
ASSUME UrlAssumption    == MaxUrl \in [BOOLEAN -> Nat] /\ MaxRest \in Nat
ASSUME BehindAssumption == Behind \subseteq Seq(Digits)

Fields == {"SCHEMA", "HOST", "PORT", "PATH", "QUERY", "FRAGMENT", "USERINFO"}

VARIABLES url, rest,   \* the bytes read, and how many of them behind the server
          behind,      \* the digits after buflen, up to the first other byte
          is_connect, found_at,
          s, hs,       \* state of the URL and of its server part
          p,           \* http_parse_host: the byte it is at
          end,         \* and where the server part ends
          old,         \* old_uf; NONE: UF_MAX
          field, set,  \* field_data, field_set
          port, pc, ret

hostVars == <<hs, p, end, port>>
vars == <<url, rest, behind, is_connect, found_at, s, hostVars, old, field, set, pc, ret>>

Init ==
  /\ url = <<>> /\ rest = 0 /\ behind \in Behind /\ is_connect \in BOOLEAN
  /\ found_at = FALSE /\ old = "NONE" /\ set = {} /\ port = 0
  /\ s = IF is_connect THEN "s_req_server_start" ELSE "s_req_spaces_before_url"
  /\ field = [f \in Fields |-> [off |-> 0, len |-> 0]]
  /\ hs = "none" /\ p = 0 /\ end = 0 /\ pc = "url" /\ ret = "none"

RestStates == {"s_req_path", "s_req_query_string_start", "s_req_query_string",
               "s_req_fragment_start", "s_req_fragment"}

Return(r) == ret' = r /\ pc' = "done"

-----------------------------------------------------------------------------
(* http_parser_parse_url *)

FieldOf(t) == CASE t = "s_req_schema" -> "SCHEMA"
                [] t \in {"s_req_server", "s_req_server_with_at"} -> "HOST"
                [] t = "s_req_path" -> "PATH"
                [] t = "s_req_query_string" -> "QUERY"
                [] t = "s_req_fragment" -> "FRAGMENT"
                [] OTHER -> "NONE"   \* delimiters

Longer(f) == [field EXCEPT ![f].len = @ + 1]

\* Mutant: the byte a field begins with is not counted.
BegunEmpty(f, at) == [field EXCEPT ![f] = [off |-> at, len |-> 0]]

Begun(f, at) == [field EXCEPT ![f] = [off |-> at, len |-> 1]]

\* One byte of the loop over the URL.
UrlLoop(b) ==
  /\ pc = "url"
  /\ LET t == parse_url_char(s, b)
         f == FieldOf(t)
     IN /\ Len(url) < MaxUrl[is_connect]
        /\ rest' = IF t \in RestStates THEN rest + 1 ELSE rest
        /\ rest' <= MaxRest
        /\ url' = Append(url, b) /\ s' = t
        /\ found_at' = (found_at \/ t = "s_req_server_with_at")
        /\ IF t = "s_dead" THEN Return("1") ELSE UNCHANGED <<pc, ret>>
        /\ \/ f = "NONE" /\ UNCHANGED <<old, field, set>>
           \/ f # "NONE" /\ f = old /\ field' = Longer(f) /\ UNCHANGED <<old, set>>
           \/ /\ f # "NONE" /\ f # old
              /\ field' = Begun(f, Len(url')) /\ set' = set \cup {f} /\ old' = f
  /\ UNCHANGED <<behind, is_connect, hostVars>>

\* The end of the URL: a schema needs a host, a host is looked into.
EndOfUrl ==
  /\ pc = "url"
  /\ CASE "SCHEMA" \in set /\ "HOST" \notin set ->
            Return("1") /\ UNCHANGED <<field, hs, p, end>>
       [] "HOST" \in set ->
            /\ pc' = "host" /\ UNCHANGED ret
            /\ p' = field["HOST"].off /\ end' = field["HOST"].off + field["HOST"].len
            /\ field' = [field EXCEPT !["HOST"].len = 0]
            /\ hs' = IF found_at THEN "s_http_userinfo_start" ELSE "s_http_host_start"
       [] OTHER -> pc' = "port" /\ UNCHANGED <<ret, field, hs, p, end>>
  /\ UNCHANGED <<url, rest, behind, is_connect, found_at, s, old, set, port>>

-----------------------------------------------------------------------------
(* http_parse_host *)

HostByte == Alpha \cup Digits \cup {".", "-"}
ZoneByte == HostByte \cup {"%"}

HostMoves(b) == IF b \in HostByte THEN "s_http_host" ELSE "s_http_host_dead"
V6Moves(b) ==
  IF b \in HexByte \cup {":", "."} THEN "s_http_host_v6" ELSE "s_http_host_dead"

\* http_parse_host_char.
HostChar(h, b) ==
  CASE h \in {"s_http_userinfo", "s_http_userinfo_start"} ->
         CASE b = "@" -> "s_http_host_start"
           [] b \in Userinfo -> "s_http_userinfo"
           [] OTHER -> "s_http_host_dead"
    [] h = "s_http_host_start" /\ b = "["        -> "s_http_host_v6_start"
    [] h = "s_http_host_start" /\ b # "["        -> HostMoves(b)
    [] h \in {"s_http_host", "s_http_host_v6_end"} /\ b = ":" -> "s_http_host_port_start"
    [] h = "s_http_host" /\ b # ":"              -> HostMoves(b)
    [] h = "s_http_host_v6" /\ b = "]"           -> "s_http_host_v6_end"
    [] h = "s_http_host_v6" /\ b = "%"           -> "s_http_host_v6_zone_start"
    [] h = "s_http_host_v6" /\ b \notin {"]", "%"} -> V6Moves(b)
    [] h = "s_http_host_v6_start"                -> V6Moves(b)
    [] h = "s_http_host_v6_zone" /\ b = "]"      -> "s_http_host_v6_end"
    [] h \in {"s_http_host_v6_zone", "s_http_host_v6_zone_start"} /\ b \in ZoneByte ->
         "s_http_host_v6_zone"
    [] h \in {"s_http_host_port", "s_http_host_port_start"} /\ b \in Digits ->
         "s_http_host_port"
    [] OTHER -> "s_http_host_dead"

HostField(h) ==
  CASE h \in {"s_http_host", "s_http_host_v6", "s_http_host_v6_zone_start",
              "s_http_host_v6_zone"} -> "HOST"
    [] h = "s_http_host_port" -> "PORT"
    [] h = "s_http_userinfo"  -> "USERINFO"
    [] OTHER -> "NONE"

\* A field begins where its state is entered; a zone goes on with the host.
Enters(h, new) == new # h /\ new \notin {"s_http_host_v6_zone_start", "s_http_host_v6_zone"}

HostLoop ==
  /\ pc = "host" /\ p < end
  /\ LET new == HostChar(hs, url[p])
         f   == HostField(new)
     IN IF new = "s_http_host_dead" THEN Return("1") /\ UNCHANGED <<field, set, hs, p>>
        ELSE /\ hs' = new /\ p' = p + 1 /\ UNCHANGED <<pc, ret>>
             /\ \/ f = "NONE" /\ UNCHANGED <<field, set>>
                \/ /\ f # "NONE" /\ set' = set \cup {f}
                   /\ field' = IF Enters(hs, new) THEN Begun(f, p) ELSE Longer(f)
  /\ UNCHANGED <<url, rest, behind, is_connect, found_at, s, end, old, port>>

\* Mutant: a host that ends inside its brackets is taken.
HostStatesOpen == {"s_http_host_v6", "s_http_host", "s_http_host_v6_end", "s_http_host_port"}

\* The states a server part may end in.
HostStates == {"s_http_host", "s_http_host_v6_end", "s_http_host_port"}

EndOfHost ==
  /\ pc = "host" /\ p = end
  /\ IF hs \in HostStates THEN pc' = "port" /\ UNCHANGED ret ELSE Return("1")
  /\ UNCHANGED <<url, rest, behind, is_connect, found_at, s, hostVars, old, field, set>>

-----------------------------------------------------------------------------
\* The value of a string of digits.
Decimal(digits) ==
  LET v[n \in 0..Len(digits)] == IF n = 0 THEN 0 ELSE v[n - 1] * 10 + DigitValue[digits[n]]
  IN  v[Len(digits)]

\* strtoul() from i: on through memory as long as there are digits.
Strtoul(i) ==
  LET memory == url \o behind
      stop   == Min({j \in i..Len(memory) : memory[j] \notin Digits} \cup {Len(memory) + 1})
  IN Decimal(SubSeq(memory, i, stop - 1))

\* Mutant: no limit.
PortUnlimited ==
  /\ pc = "port"
  /\ IF is_connect /\ set # {"HOST", "PORT"} THEN Return("1") /\ UNCHANGED port
     ELSE /\ Return("0")
          /\ port' = IF "PORT" \in set THEN Strtoul(field["PORT"].off) % (MaxPort + 1) ELSE 0
  /\ UNCHANGED <<url, rest, behind, is_connect, found_at, s, hs, p, end, old, field, set>>

\* CONNECT takes host and port only; then the port, with its limit.
Port ==
  /\ pc = "port"
  /\ \/ is_connect /\ set # {"HOST", "PORT"} /\ Return("1") /\ UNCHANGED port
     \/ /\ is_connect => set = {"HOST", "PORT"}
        /\ \/ "PORT" \notin set /\ Return("0") /\ UNCHANGED port
           \/ "PORT" \in set /\ LET v == Strtoul(field["PORT"].off) IN
                IF v > MaxPort THEN Return("1") /\ UNCHANGED port
                ELSE port' = v /\ Return("0")
  /\ UNCHANGED <<url, rest, behind, is_connect, found_at, s, hs, p, end, old, field, set>>

Next == (\E b \in Bytes : UrlLoop(b)) \/ EndOfUrl \/ HostLoop \/ EndOfHost \/ Port

Spec == Init /\ [][Next]_vars

-----------------------------------------------------------------------------
\* Offsets and lengths stay inside the URL.
TypeOK ==
  /\ url \in Seq(Bytes) /\ is_connect \in BOOLEAN /\ found_at \in BOOLEAN
  /\ set \subseteq Fields /\ old \in Fields \cup {"NONE"} /\ port \in 0..MaxPort
  /\ \A f \in Fields : field[f].off \in 0..Len(url)
                       /\ field[f].off + field[f].len \in 0..Len(url) + 1
  /\ p \in 0..end /\ ret \in {"none", "0", "1"} /\ pc \in {"url", "host", "port", "done"}

Positions(f) ==
  IF f \in set THEN field[f].off..field[f].off + field[f].len - 1 ELSE {}
Order == <<"SCHEMA", "USERINFO", "HOST", "PORT", "PATH", "QUERY", "FRAGMENT">>
Accepted == ret = "0"

\* The bytes that may stand before a field that begins at i.
Opened(f, i) ==
  CASE f = "SCHEMA"   -> i = 1
    [] f = "USERINFO" -> i = 1 \/ url[i - 1] = "/"
    [] f = "HOST"     -> i = 1 \/ url[i - 1] \in {"/", "@", "["}
    [] f = "PORT"     -> url[i - 1] = ":"
    [] f = "PATH"     -> url[i] = "/" \/ url[i] = "*"
    [] f = "QUERY"    -> url[i - 1] = "?"
    [] f = "FRAGMENT" -> url[i - 1] = "#"

\* An accepted URL falls into its fields: they come in the order of a URL, none is
\* empty, none overlaps another, each stands behind its delimiter, and every byte
\* outside them is a delimiter.
FieldsTile ==
  /\ TypeOK
  /\ Accepted =>
       /\ \A i, j \in DOMAIN Order : i < j =>
            \A m \in Positions(Order[i]), n \in Positions(Order[j]) : m < n
       /\ \A f \in set : Positions(f) # {} /\ Opened(f, field[f].off)
       /\ \A i \in DOMAIN url :
            \/ \E f \in set : i \in Positions(f)
            \/ url[i] \in {":", "/", "@", "[", "]", "?", "#"}

Text(f) == {url[i] : i \in Positions(f)}

\* The host of an accepted URL is a name or an address between brackets that are
\* closed, the port digits, the user never part of the host; after CONNECT there is
\* nothing but host and port.
ServerRight == Accepted =>
  /\ "SCHEMA" \in set \/ is_connect => "HOST" \in set
  /\ Text("PORT") \subseteq Digits
  /\ "HOST" \in set => LET o == field["HOST"].off
                           after == o + field["HOST"].len IN
       \/ Text("HOST") \subseteq HostByte
       \/ /\ o > 1 /\ after <= Len(url)
          /\ url[o - 1] = "[" /\ url[after] = "]" /\ "]" \notin Text("HOST")
  /\ "USERINFO" \in set =>
       url[field["USERINFO"].off + field["USERINFO"].len] = "@"
  /\ is_connect => set = {"HOST", "PORT"}

PortText == SubSeq(url, field["PORT"].off, field["PORT"].off + field["PORT"].len - 1)

\* "Ports have a max value of 2^16": the port of an accepted URL is the number in
\* its PORT field, and larger ones are refused and not cut (strtoul in
\* http_parser_parse_url).  Where the URL ends with the field, strtoul also reads
\* digits that follow it in memory; what it should do there is not said here.
PortShown ==
  /\ Accepted /\ "PORT" \in set
  /\ field["PORT"].off + Len(PortText) <= Len(url) \/ behind = <<>>
  => port = Decimal(PortText)

=============================================================================
