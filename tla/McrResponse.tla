----------------------------- MODULE McrResponse -----------------------------
(***************************************************************************)
(* mcr_message_complete_callback for the messages of one connection: the   *)
(* file a URL names, its type, and the response that is put together in    *)
(* context->buffer, the one buffer of the connection, and sent.            *)
(*                                                                         *)
(* A cell of the buffer is one part of the head (what one mcr_http_*       *)
(* function appends), one piece of a body, or the '\0' of the string       *)
(* functions.                                                              *)
(***************************************************************************)
EXTENDS Integers, Sequences, FiniteSetsExt, SequencesExt

CONSTANTS Paths,    \* what URLs name in wwwroot: [url, ext, kind, len]
          RootDot,  \* whether the path of wwwroot has a dot
          BodyMax,  \* MCR_TBUFF_MAXSIZE * 3/4, in pieces
          MaxReq    \* bound on the messages of the connection

(***************************************************************************)
(* ext: what follows the last dot of the path: an extension, other (none   *)
(* that is supported, a dot in a directory's name included), or none when  *)
(* there is no dot.  kind: page (len pieces), directory, missing.          *)
(***************************************************************************)
Supported == <<"html", "css", "js", "jpg", "jpeg", "png">>
Urls      == {path.url : path \in Paths}

ASSUME PathsAssumption ==
  /\ \A path \in Paths : /\ path.ext \in Range(Supported) \cup {"other", "none"}
                         /\ path.kind \in {"page", "directory", "missing"}
                         /\ path.len \in Nat
  /\ \A p, q \in Paths : p.url = q.url => p = q
  /\ "/index.html" \in Urls
ASSUME BoundsAssumption == RootDot \in BOOLEAN /\ BodyMax \in Nat \ {0} /\ MaxReq \in Nat

Parts == <<"protocol", "version", "status", "errno", "server", "ranges",
           "length", "type", "date", "blank">>
HeadLen == Len(Parts)
NoType == <<"unset", "">>
DefaultType == <<"text", "html;charset=utf-8">>
Zero == [of |-> 0, part |-> "zero", val |-> 0]
Junk == [of |-> 0, part |-> "junk", val |-> 0]

VARIABLES url,         \* context->url, a member of Urls or "/"
          msgs,        \* messages that came in
          fd,          \* mcr_route's fd
          content_len, \* context->content_len; -1 stands for SIZE_MAX
          type,        \* content_type
          buffer, buf_len,
          complete,    \* context->complete_flag
          sent,        \* sent[i]: how many cells of the response to i send() took
          pc

vars == <<url, msgs, fd, content_len, type, buffer, buf_len, complete, sent, pc>>

Init == /\ url = "/" /\ msgs = 0 /\ fd = "closed" /\ content_len = 0 /\ type = NoType
        /\ buffer = [i \in 1..HeadLen + BodyMax + 1 |-> Junk]
        /\ buf_len = HeadLen + BodyMax + 1
        /\ complete = FALSE /\ sent = <<>> /\ pc = "parse"

-----------------------------------------------------------------------------
\* mcr_url_callback, and the message is complete.
Message ==
  /\ pc = "parse" /\ msgs < MaxReq
  /\ url' \in Urls \cup {"/"} /\ msgs' = msgs + 1 /\ pc' = "route"
  /\ UNCHANGED <<fd, content_len, type, buffer, buf_len, complete, sent>>

\* mcr_uri_of_wwwroot; a URL of at most URL_MAX_LENGTH bytes always fits.
UriOfWwwroot(u) == CHOOSE path \in Paths : path.url = IF u = "/" THEN "/index.html" ELSE u
File == UriOfWwwroot(url)

Open ==
  /\ pc = "route"
  /\ IF File.kind = "missing" THEN pc' = "not_found" /\ UNCHANGED fd
     ELSE fd' = "open" /\ pc' = "read"
  /\ UNCHANGED <<url, msgs, content_len, type, buffer, buf_len, complete, sent>>

Minimum(a, b) == IF a < b THEN a ELSE b

\* read(); it fails for a directory.  content_len is unsigned: -1 is not 0.
Read ==
  /\ pc = "read"
  /\ content_len' \in {-1} \cup
       IF File.kind = "directory" THEN {} ELSE {Minimum(File.len, BodyMax)}
  /\ IF content_len' = 0 THEN fd' = "closed" /\ pc' = "not_found"
     ELSE pc' = "mimetype" /\ UNCHANGED fd
  /\ UNCHANGED <<url, msgs, type, buffer, buf_len, complete, sent>>

Class(i) == IF i <= 4 THEN "text" ELSE "image"   \* i < 4, counted from 0

\* Mutant: the default is left out.
GetMimetypeNoDefault ==
  /\ pc = "mimetype"
  /\ IF File.ext = "none" /\ ~RootDot THEN pc' = "crashed" /\ UNCHANGED type
     ELSE /\ \/ \E i \in DOMAIN Supported :
                  File.ext = Supported[i] /\ type' = <<Class(i), Supported[i]>>
             \/ File.ext \notin Range(Supported) /\ UNCHANGED type
          /\ pc' = "ok"
  /\ UNCHANGED <<url, msgs, fd, content_len, buffer, buf_len, complete, sent>>

\* Without any dot in the path strrchr() returns NULL, which is incremented and
\* read.  What is not supported is text/html.
GetMimetype ==
  /\ pc = "mimetype"
  /\ IF File.ext = "none" /\ ~RootDot THEN pc' = "crashed" /\ UNCHANGED type
     ELSE /\ \/ \E i \in DOMAIN Supported :
                  File.ext = Supported[i] /\ type' = <<Class(i), Supported[i]>>
             \/ File.ext \notin Range(Supported) /\ type' = <<"text", "html">>
          /\ pc' = "ok"
  /\ UNCHANGED <<url, msgs, fd, content_len, buffer, buf_len, complete, sent>>

-----------------------------------------------------------------------------
\* The string functions, on the buffer b.
Strlen(b) == Min({i \in DOMAIN b : b[i] = Zero}) - 1
Put(b, at, cells) ==
  [i \in DOMAIN b |-> IF i \in at..at + Len(cells) - 1 THEN cells[i - at + 1] ELSE b[i]]
Strcpy(b, c) == Put(b, 1, <<c, Zero>>)
Strcat(b, c) == Put(b, Strlen(b) + 1, <<c, Zero>>)

\* The value a part of the head shows.
Shown(part, status, len, t) == CASE part = "status" -> status
                                 [] part = "length" -> len
                                 [] part = "type"   -> t
                                 [] OTHER           -> 0

HeadOf(status, len, t) ==
  [i \in 1..HeadLen |->
     [of |-> msgs, part |-> Parts[i], val |-> Shown(Parts[i], status, len, t)]]

\* mcr_http_protocol and, one after the other, the functions that append.
WithHead(b, head) ==
  LET after[i \in 1..Len(head)] == IF i = 1 THEN Strcpy(b, head[1])
                                   ELSE Strcat(after[i - 1], head[i])
  IN  after[Len(head)]

\* The body that read() put there: len pieces of the file, none if it failed.
Body(len) == [i \in 1..(IF len > 0 THEN len ELSE 0) |->
                [of |-> msgs, part |-> "body", val |-> i]]

\* Mutant: the length is that of the string when the body is in it.
MakeResponseStrlen(status, len, t) ==
  LET headed == WithHead(buffer, HeadOf(status, len, t)) IN
  /\ buffer' = Put(headed, Strlen(headed) + 1, Body(len))
  /\ buf_len' = Len(buffer')

\* mcr_make_http_response: the length is taken before the body overwrites the '\0'.
MakeResponse(status, len, t) ==
  LET headed == WithHead(buffer, HeadOf(status, len, t)) IN
  /\ buffer' = Put(headed, Strlen(headed) + 1, Body(len))
  /\ buf_len' = Strlen(headed) + len

Ok ==
  /\ pc = "ok" /\ MakeResponse(200, content_len, type)
  /\ fd' = "closed" /\ pc' = "send"
  /\ UNCHANGED <<url, msgs, content_len, type, complete, sent>>

\* 0 for content_type: the default.
NotFound ==
  /\ pc = "not_found" /\ MakeResponse(404, 0, DefaultType) /\ pc' = "send"
  /\ UNCHANGED <<url, msgs, fd, content_len, type, complete, sent>>

\* send() takes all or, on a full socket that is interrupted, a part; only -1 is
\* looked at.
Send ==
  /\ pc = "send"
  /\ \/ /\ sent' \in {Append(sent, n) : n \in 1..buf_len}
        /\ complete' = TRUE /\ pc' = "parse"
     \/ sent' = Append(sent, 0) /\ pc' = "error" /\ UNCHANGED complete
  /\ UNCHANGED <<url, msgs, fd, content_len, type, buffer, buf_len>>

Next == Message \/ Open \/ Read \/ GetMimetype \/ Ok \/ NotFound \/ Send

Spec == Init /\ [][Next]_vars

-----------------------------------------------------------------------------
\* The buffer is as long as its array, and every message has had one send().
TypeOK ==
  /\ url \in Urls \cup {"/"} /\ msgs \in 0..MaxReq /\ content_len \in -1..BodyMax
  /\ fd \in {"closed", "open"} /\ complete \in BOOLEAN
  /\ type \in {NoType} \cup ({"text", "image"} \X Range(Supported))
  /\ DOMAIN buffer = 1..HeadLen + BodyMax + 1
  /\ buf_len \in HeadLen - 1..HeadLen + BodyMax + 1
  /\ sent \in Seq(0..HeadLen + BodyMax)
  \* every message but the one at work has had its send()
  /\ Len(sent) = IF pc \in {"parse", "error"} THEN msgs ELSE msgs - 1
  /\ pc \in {"parse", "route", "read", "mimetype", "ok", "not_found", "send",
             "error", "crashed"}

Taken == Minimum(File.len, BodyMax)

\* The type that goes with an extension; jpg is the image that gets text.
RightType(ext) == CASE ext \in {"html", "css", "js", "jpg"} -> <<"text", ext>>
                    [] ext \in {"jpeg", "png"}              -> <<"image", ext>>
                    [] OTHER                                -> <<"text", "html">>

\* The response that belongs to the message the worker is at.
Answer ==
  IF File.kind = "page" /\ File.len > 0
  THEN HeadOf(200, Taken, RightType(File.ext))
         \o Body(Taken)
  ELSE HeadOf(404, 0, DefaultType)

\* What is handed to send() is the response to this message from its first cell
\* to its last, with the type of its own file and a Content-Length that is the
\* length of its body: nothing of an earlier, longer response and nothing
\* uninitialised, although all are put together in one buffer with functions that
\* look for its '\0'.  A file that is longer than the buffer for it is cut.  Excepted is a read() that failed.
ResponseRight ==
  /\ TypeOK
  /\ pc = "send" /\ (File.kind = "missing" \/ content_len # -1) =>
       SubSeq(buffer, 1, buf_len) = Answer

\* After a read() that failed the head is complete but for its last cell, and
\* nothing else is sent.
FailedReadFramed == pc = "send" /\ File.kind = "directory" =>
  buf_len = HeadLen - 1 /\ \A i \in 1..buf_len : buffer[i].of = msgs

=============================================================================
