-------------------------- MODULE McrResponseProofs --------------------------
(***************************************************************************)
(* Theorems about the response of mcr_http.c: for any files, any room for  *)
(* their bodies, and any number of messages on a connection.               *)
(***************************************************************************)
EXTENDS McrResponse, LeastNumber

Size == HeadLen + BodyMax + 1

\* b is the whole array, and nothing but it.
Array(b) == b = [i \in 1..Size |-> b[i]]

-----------------------------------------------------------------------------
(* The string functions *)

\* A string of n cells, then its '\0'.
String(b, n) == b[n + 1] = Zero /\ \A i \in 1..n : b[i] # Zero

LEMMA Sizes == HeadLen = 10 /\ Size \in Nat /\ Size >= 12 /\ BodyMax \in Nat /\ Size = 11 + BodyMax
BY BoundsAssumption DEF Size, HeadLen, Parts

\* strlen() finds the end of the string.
LEMMA StrlenIs ==
  ASSUME NEW b, Array(b), NEW n \in Nat, n < Size, String(b, n)
  PROVE  Strlen(b) = n
<1> DEFINE S == {i \in DOMAIN b : b[i] = Zero}
<1>1. DOMAIN b = 1..Size /\ Size \in Nat
  BY Sizes DEF Array
<1>2. n + 1 \in S /\ S \in SUBSET Nat /\ \A i \in S : n + 1 <= i
  BY <1>1 DEF String
<1> HIDE DEF S
<1>3. Min(S) \in S /\ \A y \in S : Min(S) <= y
  BY <1>2, MinIs
<1>4. Min(S) = n + 1
  <2>1. Min(S) <= n + 1 /\ n + 1 <= Min(S) /\ Min(S) \in Nat
    BY <1>2, <1>3
  <2> QED
    BY <2>1
<1>5. Strlen(b) = Min(S) - 1
  BY DEF Strlen, S
<1> QED
  BY <1>4, <1>5

\* A cell and the '\0' behind it.
LEMMA PutCell ==
  ASSUME NEW b, Array(b), NEW n \in Nat, NEW c
  PROVE  Put(b, n + 1, <<c, Zero>>)
           = [i \in 1..Size |-> IF i = n + 1 THEN c ELSE IF i = n + 2 THEN Zero ELSE b[i]]
<1> DEFINE s == <<c, Zero>>
<1>1. DOMAIN b = 1..Size /\ Size \in Nat
  BY Sizes DEF Array
<1>2. Len(s) = 2 /\ s[1] = c /\ s[2] = Zero
  OBVIOUS
<1> HIDE DEF s
<1>3. ASSUME NEW i \in 1..Size
      PROVE  (IF i \in (n + 1)..(n + 1) + Len(s) - 1 THEN s[i - (n + 1) + 1] ELSE b[i])
               = IF i = n + 1 THEN c ELSE IF i = n + 2 THEN Zero ELSE b[i]
  <2>1. CASE i = n + 1
    BY <1>2, <2>1
  <2>2. CASE i = n + 2
    BY <1>2, <2>2
  <2>3. CASE i # n + 1 /\ i # n + 2
    BY <1>1, <1>2, <2>3
  <2> QED
    BY <2>1, <2>2, <2>3
<1> QED
  BY <1>1, <1>3 DEF Put, s

\* strcat() appends its cell.
LEMMA StrcatIs ==
  ASSUME NEW b, Array(b), NEW n \in Nat, n < Size, String(b, n), NEW c
  PROVE  Strcat(b, c)
           = [i \in 1..Size |-> IF i = n + 1 THEN c ELSE IF i = n + 2 THEN Zero ELSE b[i]]
BY StrlenIs, PutCell DEF Strcat

LEMMA StrcpyIs ==
  ASSUME NEW b, Array(b), NEW c
  PROVE  Strcpy(b, c) = [i \in 1..Size |-> IF i = 1 THEN c ELSE IF i = 2 THEN Zero ELSE b[i]]
<1>1. Put(b, 0 + 1, <<c, Zero>>)
        = [i \in 1..Size |-> IF i = 0 + 1 THEN c ELSE IF i = 0 + 2 THEN Zero ELSE b[i]]
  BY PutCell
<1> QED
  BY <1>1 DEF Strcpy

-----------------------------------------------------------------------------
(* The head *)

\* The buffer once the first i cells of head are in it.
Filled(b, head, i) ==
  [j \in 1..Size |-> IF j <= i THEN head[j] ELSE IF j = i + 1 THEN Zero ELSE b[j]]

\* Cells of which none is a '\0', and for which there is room.
NoNul(head) == /\ head \in Seq(Range(head)) /\ Len(head) \in 1..HeadLen
               /\ \A i \in 1..Len(head) : head[i] # Zero

LEMMA FilledIs ==
  ASSUME NEW b, NEW head, NoNul(head), NEW i \in 1..Len(head)
  PROVE  /\ Array(Filled(b, head, i)) /\ String(Filled(b, head, i), i) /\ i < Size
         /\ Strlen(Filled(b, head, i)) = i
<1>1. i \in Nat /\ i < Size /\ i + 1 \in 1..Size /\ i <= Len(head) /\ Len(head) \in Nat
  BY Sizes DEF NoNul
<1>2. Array(Filled(b, head, i))
  BY DEF Array, Filled
<1>3. String(Filled(b, head, i), i)
  BY <1>1, Sizes DEF NoNul, String, Filled
<1> QED
  BY <1>1, <1>2, <1>3, StrlenIs

\* The next function appends the next cell.
LEMMA Append1 ==
  ASSUME NEW b, NEW head, NoNul(head), NEW i \in 2..Len(head)
  PROVE  Strcat(Filled(b, head, i - 1), head[i]) = Filled(b, head, i)
<1>1. PICK k \in Nat : k = i - 1
  BY DEF NoNul
<1>2. /\ k \in 1..Len(head) /\ k + 1 = i /\ k + 2 = i + 1
  BY <1>1 DEF NoNul
<1> DEFINE f == Filled(b, head, k)
           c == head[i]
<1>3. /\ Array(f) /\ String(f, k) /\ k < Size
  BY <1>2, FilledIs
<1>4. \A j \in 1..Size : f[j] = IF j <= k THEN head[j] ELSE IF j = k + 1 THEN Zero ELSE b[j]
  BY DEF Filled
<1> HIDE DEF f, c
<1>5. Strcat(f, c) = [j \in 1..Size |-> IF j = k + 1 THEN c ELSE IF j = k + 2 THEN Zero ELSE f[j]]
  BY <1>3, StrcatIs
<1>6. ASSUME NEW j \in 1..Size
      PROVE  (IF j = k + 1 THEN c ELSE IF j = k + 2 THEN Zero ELSE f[j])
               = IF j <= i THEN head[j] ELSE IF j = i + 1 THEN Zero ELSE b[j]
  <2>1. CASE j = k + 1
    BY <2>1, <1>2 DEF c
  <2>2. CASE j = k + 2
    BY <2>2, <1>2
  <2>3. CASE j # k + 1 /\ j # k + 2
    BY <2>3, <1>2, <1>4, Sizes
  <2> QED
    BY <2>1, <2>2, <2>3
<1>7. Strcat(f, c) = Filled(b, head, i)
  BY <1>5, <1>6 DEF Filled
<1> QED
  BY <1>1, <1>7 DEF f, c

\* The head is written from the first cell of the buffer on, whatever was in it.
LEMMA WithHeadIs ==
  ASSUME NEW b, Array(b), NEW head, NoNul(head)
  PROVE  WithHead(b, head) = Filled(b, head, Len(head))
<1> DEFINE Of(h) == [i \in 1..Len(head) |-> IF i = 1 THEN Strcpy(b, head[1])
                                            ELSE Strcat(h[i - 1], head[i])]
           w == [i \in 1..Len(head) |-> Filled(b, head, i)]
           f == CHOOSE h : h = Of(h)
           T == {i \in Nat : i + 1 \in 1..Len(head) => f[i + 1] = Filled(b, head, i + 1)}
<1>1. Len(head) \in Nat /\ 1 \in 1..Len(head)
  BY DEF NoNul
<1>2. Strcpy(b, head[1]) = Filled(b, head, 1)
  <2>1. \A j \in 1..Size : (IF j = 1 THEN head[1] ELSE IF j = 2 THEN Zero ELSE b[j])
                             = IF j <= 1 THEN head[j] ELSE IF j = 1 + 1 THEN Zero ELSE b[j]
    BY Sizes
  <2>2. Strcpy(b, head[1])
          = [i \in 1..Size |-> IF i = 1 THEN head[1] ELSE IF i = 2 THEN Zero ELSE b[i]]
    BY StrcpyIs
  <2> QED
    BY <2>1, <2>2 DEF Filled
<1>3. w = Of(w)
  <2>1. ASSUME NEW i \in 1..Len(head)
        PROVE  Filled(b, head, i) = IF i = 1 THEN Strcpy(b, head[1])
                                    ELSE Strcat(w[i - 1], head[i])
    <3>1. CASE i = 1
      BY <3>1, <1>2
    <3>2. CASE i # 1
      <4>1. i \in 2..Len(head) /\ i - 1 \in 1..Len(head)
        BY <3>2, <1>1
      <4>2. w[i - 1] = Filled(b, head, i - 1)
        BY <4>1
      <4>3. Strcat(Filled(b, head, i - 1), head[i]) = Filled(b, head, i)
        BY <4>1, Append1
      <4> QED
        BY <3>2, <4>2, <4>3
    <3> QED
      BY <3>1, <3>2
  <2> QED
    BY <2>1
<1>4. f = Of(f)
  BY <1>3, Zenon
<1>5. \A i \in 1..Len(head) : f[i] = IF i = 1 THEN Strcpy(b, head[1])
                                     ELSE Strcat(f[i - 1], head[i])
  BY <1>4, Zenon
<1>6. WithHead(b, head) = f[Len(head)]
  BY DEF WithHead
<1> HIDE DEF f
<1>7. 0 \in T
  BY <1>1, <1>2, <1>5
<1>8. ASSUME NEW i \in Nat, i \in T PROVE i + 1 \in T
  <2> SUFFICES ASSUME (i + 1) + 1 \in 1..Len(head)
               PROVE  f[(i + 1) + 1] = Filled(b, head, (i + 1) + 1)
    OBVIOUS
  <2> DEFINE k == (i + 1) + 1
  <2>1. /\ k \in 2..Len(head) /\ k \in 1..Len(head) /\ k # 1 /\ k - 1 = i + 1
        /\ i + 1 \in 1..Len(head)
    BY <1>1
  <2>2. f[i + 1] = Filled(b, head, k - 1)
    BY <1>8, <2>1
  <2> HIDE DEF k
  <2>3. f[k] = Strcat(f[k - 1], head[k])
    BY <1>5, <2>1
  <2>4. Strcat(Filled(b, head, k - 1), head[k]) = Filled(b, head, k)
    BY <2>1, Append1
  <2>5. f[k] = Filled(b, head, k)
    BY <2>1, <2>2, <2>3, <2>4
  <2> QED
    BY <2>5 DEF k
<1> HIDE DEF T
<1>9. Nat \subseteq T
  BY <1>7, <1>8, Induction
<1>10. Len(head) - 1 \in T /\ (Len(head) - 1) + 1 = Len(head)
  BY <1>1, <1>9
<1>11. f[Len(head)] = Filled(b, head, Len(head))
  BY <1>1, <1>10 DEF T
<1> QED
  BY <1>6, <1>11

-----------------------------------------------------------------------------
(* The response *)

\* A head is never ended by one of its own cells.
LEMMA HeadIs ==
  ASSUME NEW status, NEW len, NEW t
  PROVE  /\ NoNul(HeadOf(status, len, t)) /\ Len(HeadOf(status, len, t)) = HeadLen
         /\ \A i \in 1..HeadLen : HeadOf(status, len, t)[i].of = msgs
<1> DEFINE h == HeadOf(status, len, t)
<1>1. HeadLen = 10 /\ HeadLen \in Nat
  BY Sizes
<1>2. ASSUME NEW i \in 1..HeadLen PROVE Parts[i] # "zero"
  <2>1. i \in 1..10
    BY <1>1
  <2> QED
    BY <2>1 DEF Parts
<1>3. \A i \in 1..HeadLen : h[i] = [of |-> msgs, part |-> Parts[i],
                                     val |-> Shown(Parts[i], status, len, t)]
  BY DEF HeadOf
<1>4. h = [i \in 1..HeadLen |-> h[i]]
  BY DEF HeadOf
<1> HIDE DEF h
<1>5. ASSUME NEW i \in 1..HeadLen PROVE h[i].of = msgs /\ h[i].part = Parts[i]
  <2>1. PICK v : v = Shown(Parts[i], status, len, t)
    OBVIOUS
  <2>2. h[i] = [of |-> msgs, part |-> Parts[i], val |-> v]
    BY <1>3, <2>1
  <2> QED
    BY <2>2
<1>6. Zero.part = "zero"
  BY DEF Zero
<1>7. \A i \in 1..HeadLen : h[i] # Zero
  BY <1>2, <1>5, <1>6
<1>8. DOMAIN h = 1..HeadLen
  BY <1>4
<1>9. h \in Seq(Range(h)) /\ Len(h) = HeadLen
  <2>1. PICK n \in Nat : n = HeadLen
    BY <1>1
  <2>2. h \in [1..n -> Range(h)]
    BY <1>4, <1>8, <2>1 DEF Range
  <2>3. h \in Seq(Range(h)) /\ Len(h) = n
    BY <2>2
  <2> QED
    BY <2>1, <2>3
<1> QED
  BY <1>1, <1>5, <1>7, <1>9 DEF NoNul, h

\* How many pieces a body has.
LEMMA BodyIs ==
  ASSUME NEW len \in -1..BodyMax
  PROVE  /\ Len(Body(len)) = IF len > 0 THEN len ELSE 0
         /\ Len(Body(len)) \in Nat /\ Body(len) \in Seq(Range(Body(len)))
<1>1. PICK n \in Nat : n = IF len > 0 THEN len ELSE 0
  BY Sizes
<1> DEFINE h == Body(len)
<1>2. h = [i \in 1..n |-> h[i]] /\ DOMAIN h = 1..n
  BY <1>1 DEF Body
<1> HIDE DEF h
<1>3. h \in [1..n -> Range(h)]
  BY <1>2 DEF Range
<1>4. h \in Seq(Range(h)) /\ Len(h) = n
  BY <1>3
<1> QED
  BY <1>1, <1>4 DEF h

\* b has this response from its first cell on.
Holds(b, status, len, t) == /\ \A i \in 1..HeadLen : b[i] = HeadOf(status, len, t)[i]
                            /\ \A i \in 1..len : b[HeadLen + i] = Body(len)[i]

\* mcr_make_http_response: the head, the body right behind it, and their length.
LEMMA MakeResponseIs ==
  ASSUME NEW status, NEW len \in -1..BodyMax, NEW t, Array(buffer),
         MakeResponse(status, len, t)
  PROVE  Array(buffer') /\ buf_len' = HeadLen + len /\ Holds(buffer', status, len, t)
<1> DEFINE head == HeadOf(status, len, t)
           body == Body(len)
           headed == WithHead(buffer, head)
<1>1. NoNul(head) /\ Len(head) = HeadLen
  BY HeadIs
<1>2. HeadLen = 10 /\ HeadLen \in 1..Len(head) /\ Size = 11 + BodyMax /\ BodyMax \in Nat
  BY <1>1, Sizes
<1>3. Len(body) = (IF len > 0 THEN len ELSE 0) /\ Len(body) \in Nat
  BY BodyIs
<1> HIDE DEF head, body
<1>4. headed = Filled(buffer, head, HeadLen)
  BY <1>1, WithHeadIs
<1>5. Strlen(headed) = HeadLen /\ DOMAIN headed = 1..Size
  <2>1. Strlen(Filled(buffer, head, HeadLen)) = HeadLen
    BY <1>1, <1>2, FilledIs
  <2> QED
    BY <1>4, <2>1 DEF Filled
<1>6. \A i \in 1..HeadLen : headed[i] = head[i]
  BY <1>2, <1>4 DEF Filled
<1>7. buffer' = Put(headed, Strlen(headed) + 1, body) /\ buf_len' = Strlen(headed) + len
  BY DEF MakeResponse, head, body
<1> HIDE DEF headed
<1>8. buffer' = [i \in 1..Size |-> IF i \in (HeadLen + 1)..(HeadLen + 1) + Len(body) - 1
                                   THEN body[i - (HeadLen + 1) + 1] ELSE headed[i]]
  BY <1>5, <1>7 DEF Put
<1>9. Array(buffer')
  BY <1>8 DEF Array
<1>10. \A i \in 1..HeadLen : buffer'[i] = head[i]
  BY <1>2, <1>6, <1>8
<1>11. ASSUME NEW i \in 1..len PROVE buffer'[HeadLen + i] = body[i]
  <2>1. /\ HeadLen + i \in 1..Size /\ HeadLen + i \in (HeadLen + 1)..(HeadLen + 1) + Len(body) - 1
        /\ (HeadLen + i) - (HeadLen + 1) + 1 = i
    BY <1>2, <1>3
  <2>2. PICK k \in 1..Size : k = HeadLen + i
    BY <2>1
  <2>3. k \in (HeadLen + 1)..(HeadLen + 1) + Len(body) - 1 /\ k - (HeadLen + 1) + 1 = i
    BY <2>1, <2>2
  <2>4. buffer'[k] = body[i]
    BY <1>8, <2>3
  <2> QED
    BY <2>2, <2>4
<1> QED
  BY <1>5, <1>7, <1>9, <1>10, <1>11 DEF Holds, head, body

\* What is sent of it when there is a length: all of the head and the body.
LEMMA Whole ==
  ASSUME NEW b, NEW status, NEW len, NEW t, NEW n, n = HeadLen + len, len \in 0..BodyMax,
         Array(b), Holds(b, status, len, t)
  PROVE  SubSeq(b, 1, n) = HeadOf(status, len, t) \o Body(len)
<1> DEFINE head == HeadOf(status, len, t)
           body == Body(len)
<1>1. HeadLen = 10 /\ HeadLen \in Nat /\ BodyMax \in Nat /\ Size = 11 + BodyMax
  BY Sizes
<1>2. Len(head) = HeadLen /\ head \in Seq(Range(head))
  BY HeadIs DEF NoNul
<1>3. Len(body) = len /\ body \in Seq(Range(body))
  BY BodyIs, <1>1
<1>4. \A i \in 1..HeadLen : b[i] = head[i]
  BY DEF Holds
<1>5. \A i \in 1..len : b[HeadLen + i] = body[i]
  BY DEF Holds
<1> HIDE DEF head, body
<1>6. n \in Nat /\ n \in 1..Size
  BY <1>1
<1>7. SubSeq(b, 1, n) = [i \in 1..n |-> b[i]]
  <2>1. SubSeq(b, 1, n) = [i \in 1..(1 + n - 1) |-> b[i + 1 - 1]]
    BY <1>6 DEF Array
  <2> QED
    BY <1>6, <2>1
<1>8. head \o body = [i \in 1..n |-> IF i <= HeadLen THEN head[i] ELSE body[i - HeadLen]]
  <2>1. PICK S : S = Range(head) \cup Range(body)
    OBVIOUS
  <2>2. head \in Seq(S) /\ body \in Seq(S)
    BY <1>2, <1>3, <2>1
  <2>3. /\ head \o body \in Seq(S) /\ Len(head \o body) = Len(head) + Len(body)
        /\ \A i \in 1..Len(head) + Len(body) :
             (head \o body)[i] = IF i <= Len(head) THEN head[i] ELSE body[i - Len(head)]
    BY <2>2
  <2>4. Len(head \o body) = n
    BY <1>2, <1>3, <2>3
  <2>5. PICK q \in Seq(S) : q = head \o body
    BY <2>3
  <2>6. q \in [1..Len(q) -> S]
    OBVIOUS
  <2>7. q = [i \in 1..Len(q) |-> q[i]]
    BY <2>6
  <2> QED
    BY <1>2, <1>3, <2>3, <2>4, <2>5, <2>7
<1>9. ASSUME NEW i \in 1..n PROVE b[i] = IF i <= HeadLen THEN head[i] ELSE body[i - HeadLen]
  <2>1. CASE i <= HeadLen
    BY <1>4, <1>6, <2>1
  <2>2. CASE ~(i <= HeadLen)
    <3>1. PICK k \in 1..len : k = i - HeadLen /\ i = HeadLen + k
      BY <1>1, <1>6, <2>2
    <3> QED
      BY <1>5, <2>2, <3>1
  <2> QED
    BY <2>1, <2>2
<1> QED
  BY <1>7, <1>8, <1>9 DEF head, body

-----------------------------------------------------------------------------
(* The inductive invariant: what the steps of one message leave for the next one *)

\* From read() on there is a file.
FoundInv == pc \in {"read", "mimetype", "ok"} => File.kind # "missing"

\* content_len is that of this file, or read() failed.
LengthInv == pc \in {"mimetype", "ok"} =>
  /\ content_len # 0
  /\ content_len # -1 => File.kind = "page" /\ content_len = Taken

TypeInv == pc = "ok" => type = RightType(File.ext)

NotFoundInv == pc = "not_found" =>
  File.kind = "missing" \/ (File.kind = "page" /\ File.len = 0)

\* What is in the buffer fits into it, and is what the properties say.
SendInv == pc = "send" =>
  /\ buf_len \in HeadLen - 1..HeadLen + BodyMax
  /\ File.kind = "missing" \/ content_len # -1 => SubSeq(buffer, 1, buf_len) = Answer
  /\ File.kind = "directory" => /\ buf_len = HeadLen - 1
                                /\ \A i \in 1..buf_len : buffer[i].of = msgs

Inv == /\ TypeOK /\ Array(buffer)
       /\ FoundInv /\ LengthInv /\ TypeInv /\ NotFoundInv /\ SendInv

\* What a URL of the connection names.
LEMMA FileIs ==
  ASSUME url \in Urls \cup {"/"}
  PROVE  /\ File \in Paths /\ File.len \in Nat
         /\ File.kind \in {"page", "directory", "missing"}
         /\ File.ext \in Range(Supported) \cup {"other", "none"}
<1> DEFINE name == IF url = "/" THEN "/index.html" ELSE url
<1>1. name \in Urls
  BY PathsAssumption
<1>2. PICK p \in Paths : p.url = name
  BY <1>1 DEF Urls
<1>3. File = CHOOSE path \in Paths : path.url = name
  BY DEF File, UriOfWwwroot
<1> HIDE DEF name
<1>4. File \in Paths
  BY <1>2, <1>3
<1> QED
  BY <1>4, PathsAssumption

\* How much of it read() takes.
LEMMA TakenIs ==
  ASSUME url \in Urls \cup {"/"}
  PROVE  Taken \in 0..BodyMax /\ (Taken = 0 <=> File.len = 0)
<1>1. PICK l \in Nat : l = File.len
  BY FileIs
<1>2. Taken = IF l < BodyMax THEN l ELSE BodyMax
  BY <1>1 DEF Taken, Minimum
<1> QED
  BY <1>1, <1>2, BoundsAssumption

\* A step that stays with the message stays with its file and its answer.
LEMMA SameMessage ==
  ASSUME url' = url
  PROVE  File' = File /\ Taken' = Taken /\ (msgs' = msgs => Answer' = Answer)
<1>1. File' = File
  BY DEF File
<1>2. Taken' = Taken
  BY <1>1 DEF Taken
<1>3. ASSUME msgs' = msgs PROVE Answer' = Answer
  BY <1>1, <1>2, <1>3 DEF Answer, HeadOf, Body
<1> QED
  BY <1>1, <1>2, <1>3

\* The types are those of the table.
LEMMA TypesAre ==
  /\ Range(Supported) = {"html", "css", "js", "jpg", "jpeg", "png"}
  /\ DOMAIN Supported = 1..6
  /\ \A i \in 1..6 : <<Class(i), Supported[i]>> = RightType(Supported[i])
<1>1. DOMAIN Supported = 1..6
  BY DEF Supported
<1>2. /\ Supported[1] = "html" /\ Supported[2] = "css" /\ Supported[3] = "js"
      /\ Supported[4] = "jpg" /\ Supported[5] = "jpeg" /\ Supported[6] = "png"
  BY DEF Supported
<1>3. Range(Supported) = {"html", "css", "js", "jpg", "jpeg", "png"}
  <2>1. \A x : x \in Range(Supported) <=> \E i \in 1..6 : x = Supported[i]
    BY <1>1 DEF Range
  <2>2. \A x : x \in Range(Supported) <=> x \in {"html", "css", "js", "jpg", "jpeg", "png"}
    BY <1>2, <2>1
  <2> QED
    BY <2>2
<1>4. \A i \in 1..4 : Class(i) = "text"
  BY DEF Class
<1>5. \A i \in 5..6 : Class(i) = "image"
  BY DEF Class
<1>6. ASSUME NEW i \in 1..4 PROVE <<Class(i), Supported[i]>> = RightType(Supported[i])
  <2>1. Supported[i] \in {"html", "css", "js", "jpg"}
    BY <1>2
  <2>2. RightType(Supported[i]) = <<"text", Supported[i]>>
    BY <2>1 DEF RightType
  <2> QED
    BY <1>4, <2>2
<1>7. ASSUME NEW i \in 5..6 PROVE <<Class(i), Supported[i]>> = RightType(Supported[i])
  <2>1. Supported[i] \in {"jpeg", "png"}
    BY <1>2
  <2>2. RightType(Supported[i]) = <<"image", Supported[i]>>
    BY <2>1 DEF RightType
  <2> QED
    BY <1>5, <2>2
<1> QED
  BY <1>1, <1>3, <1>6, <1>7

-----------------------------------------------------------------------------
(* The steps *)

LEMMA InvInit == Init => Inv
<1> SUFFICES ASSUME Init PROVE Inv
  OBVIOUS
<1>1. buffer = [i \in 1..Size |-> Junk]
  BY DEF Init, Size
<1>2. Array(buffer)
  BY <1>1 DEF Array
<1>3. TypeOK
  <2>1. DOMAIN buffer = 1..HeadLen + BodyMax + 1
    BY <1>1 DEF Size
  <2>2. buf_len \in HeadLen - 1..HeadLen + BodyMax + 1 /\ content_len \in -1..BodyMax
    BY Sizes DEF Init
  <2>3. sent \in Seq(0..HeadLen + BodyMax) /\ Len(sent) = 0
    BY DEF Init
  <2>4. url \in Urls \cup {"/"} /\ msgs \in 0..MaxReq /\ fd \in {"closed", "open"}
        /\ pc = "parse" /\ Len(sent) = msgs
    BY <2>3, BoundsAssumption DEF Init
  <2>5. complete \in BOOLEAN /\ type = NoType
    BY Zenon DEF Init
  <2> QED
    BY <2>1, <2>2, <2>3, <2>4, <2>5 DEF TypeOK
<1> QED
  BY <1>2, <1>3 DEF Init, Inv, FoundInv, LengthInv, TypeInv, NotFoundInv, SendInv

LEMMA MessageInv == Inv /\ Message => Inv'
<1> SUFFICES ASSUME Inv, Message PROVE Inv'
  OBVIOUS
<1>1. TypeOK'
  <2>1. msgs' \in 0..MaxReq /\ Len(sent') = msgs' - 1
    BY BoundsAssumption DEF Inv, Message, TypeOK
  <2> QED
    BY <2>1 DEF Inv, Message, TypeOK
<1> QED
  BY <1>1 DEF Inv, Message, Array, FoundInv, LengthInv, TypeInv, NotFoundInv, SendInv

LEMMA OpenInv == Inv /\ Open => Inv'
<1> SUFFICES ASSUME Inv, Open PROVE Inv'
  OBVIOUS
<1>1. File' = File
  BY SameMessage DEF Open
<1>2. TypeOK'
  BY DEF Inv, Open, TypeOK
<1>3. pc' \in {"not_found", "read"} /\ (pc' = "not_found" <=> File.kind = "missing")
  BY DEF Open
<1>4. Array(buffer)'
  BY DEF Inv, Open, Array
<1> QED
  BY <1>1, <1>2, <1>3, <1>4 DEF Inv, FoundInv, LengthInv, TypeInv, NotFoundInv, SendInv

LEMMA ReadInv == Inv /\ Read => Inv'
<1> SUFFICES ASSUME Inv, Read PROVE Inv'
  OBVIOUS
<1>1. File' = File /\ Taken' = Taken
  BY SameMessage DEF Read
<1>2. /\ Taken \in 0..BodyMax /\ (Taken = 0 <=> File.len = 0)
      /\ File.kind \in {"page", "directory", "missing"} /\ File.kind # "missing"
  BY TakenIs, FileIs DEF Inv, TypeOK, Read, FoundInv
<1>3. content_len' = -1 \/ (File.kind = "page" /\ content_len' = Taken)
  BY <1>2 DEF Read, Taken
<1>4. content_len' \in -1..BodyMax
  BY <1>2, <1>3, Sizes
<1>5. TypeOK'
  BY <1>4 DEF Inv, Read, TypeOK
<1>6. Array(buffer)'
  BY DEF Inv, Read, Array
<1>7. IF content_len' = 0 THEN pc' = "not_found" ELSE pc' = "mimetype"
  BY DEF Read
<1>8. FoundInv' /\ LengthInv' /\ NotFoundInv'
  BY <1>1, <1>2, <1>3, <1>7 DEF FoundInv, LengthInv, NotFoundInv
<1> QED
  BY <1>5, <1>6, <1>7, <1>8 DEF Inv, TypeInv, SendInv

LEMMA GetMimetypeInv == Inv /\ GetMimetype => Inv'
<1> SUFFICES ASSUME Inv, GetMimetype PROVE Inv'
  OBVIOUS
<1>1. File' = File /\ Taken' = Taken
  BY SameMessage DEF GetMimetype
<1>2. Array(buffer)'
  BY DEF Inv, GetMimetype, Array
<1>3. \/ pc' = "crashed" /\ type' = type
      \/ pc' = "ok" /\ type' = RightType(File.ext)
                    /\ type' \in {"text", "image"} \X Range(Supported)
  <2>1. CASE pc' = "crashed" /\ UNCHANGED type
    BY <2>1
  <2>2. ASSUME NEW i \in DOMAIN Supported, File.ext = Supported[i],
               type' = <<Class(i), Supported[i]>>, pc' = "ok"
        PROVE  pc' = "ok" /\ type' = RightType(File.ext)
                 /\ type' \in {"text", "image"} \X Range(Supported)
    <3>1. type' = RightType(File.ext)
      BY <2>2, TypesAre
    <3>2. Class(i) \in {"text", "image"} /\ Supported[i] \in Range(Supported)
      BY DEF Class, Range
    <3> QED
      BY <2>2, <3>1, <3>2
  <2>3. ASSUME File.ext \notin Range(Supported), type' = <<"text", "html">>, pc' = "ok"
        PROVE  pc' = "ok" /\ type' = RightType(File.ext)
                 /\ type' \in {"text", "image"} \X Range(Supported)
    <3>1. File.ext \notin {"html", "css", "js", "jpg"} /\ File.ext \notin {"jpeg", "png"}
      BY <2>3, TypesAre
    <3>2. RightType(File.ext) = <<"text", "html">>
      BY <3>1, Zenon DEF RightType
    <3>3. "html" \in Range(Supported)
      BY TypesAre
    <3> QED
      BY <2>3, <3>2, <3>3
  <2> QED
    BY <2>1, <2>2, <2>3 DEF GetMimetype
<1>4. TypeOK'
  BY <1>3 DEF Inv, GetMimetype, TypeOK
<1>5. pc = "mimetype" /\ content_len' = content_len
  BY DEF GetMimetype
<1>6. FoundInv' /\ LengthInv'
  BY <1>1, <1>3, <1>5 DEF Inv, FoundInv, LengthInv
<1>7. TypeInv'
  BY <1>1, <1>3 DEF TypeInv
<1> QED
  BY <1>2, <1>3, <1>4, <1>6, <1>7 DEF Inv, NotFoundInv, SendInv

LEMMA OkInv == Inv /\ Ok => Inv'
<1> SUFFICES ASSUME Inv, Ok PROVE Inv'
  OBVIOUS
<1>1. File' = File /\ Taken' = Taken /\ Answer' = Answer /\ msgs' = msgs
  BY SameMessage DEF Ok
<1>2. /\ File.kind # "missing" /\ type = RightType(File.ext) /\ content_len # 0
      /\ content_len # -1 => File.kind = "page" /\ content_len = Taken
      /\ content_len \in -1..BodyMax /\ content_len' = content_len
      /\ pc' = "send"
  BY DEF Inv, Ok, FoundInv, LengthInv, TypeInv, TypeOK
<1>3. PICK len, t : /\ len = content_len /\ t = type
                    /\ Array(buffer') /\ buf_len' = HeadLen + len
                    /\ Holds(buffer', 200, len, t)
  <2>1. PICK len, t : len = content_len /\ t = type /\ len \in -1..BodyMax
    BY <1>2
  <2>2. MakeResponse(200, len, t) /\ Array(buffer)
    BY <2>1 DEF Inv, Ok
  <2>3. Array(buffer') /\ buf_len' = HeadLen + len /\ Holds(buffer', 200, len, t)
    BY <2>1, <2>2, MakeResponseIs
  <2> QED
    BY <2>1, <2>3
<1>4. buf_len' \in HeadLen - 1..HeadLen + BodyMax
  BY <1>2, <1>3, Sizes
<1>5. TypeOK'
  <2>1. DOMAIN buffer' = 1..HeadLen + BodyMax + 1
    BY <1>3 DEF Array, Size
  <2>2. buf_len' \in HeadLen - 1..HeadLen + BodyMax + 1
    BY <1>4, Sizes
  <2> QED
    BY <2>1, <2>2 DEF Inv, Ok, TypeOK
<1>6. ASSUME content_len # -1 PROVE SubSeq(buffer', 1, buf_len') = Answer
  <2>1. /\ content_len \in 0..BodyMax /\ content_len = Taken /\ File.kind = "page"
    BY <1>2, <1>6
  <2>2. SubSeq(buffer', 1, HeadLen + len) = HeadOf(200, len, t) \o Body(len)
    <3>1. PICK b, n : b = buffer' /\ n = HeadLen + len
      OBVIOUS
    <3>2. Array(b) /\ len \in 0..BodyMax /\ Holds(b, 200, len, t)
      BY <1>3, <2>1, <3>1
    <3>3. SubSeq(b, 1, n) = HeadOf(200, len, t) \o Body(len)
      BY <3>1, <3>2, Whole
    <3> QED
      BY <3>1, <3>3
  <2>3. File.len \in Nat /\ File.len > 0
    BY <1>2, <2>1, TakenIs, FileIs DEF Inv, TypeOK
  <2>4. Answer = HeadOf(200, Taken, RightType(File.ext)) \o Body(Taken)
    BY <2>1, <2>3 DEF Answer
  <2> QED
    BY <1>2, <1>3, <2>1, <2>2, <2>4
<1>7. ASSUME File.kind = "directory"
      PROVE  buf_len' = HeadLen - 1 /\ \A i \in 1..buf_len' : buffer'[i].of = msgs
  <2>1. content_len = -1
    BY <1>2, <1>7
  <2>2. buf_len' = HeadLen - 1 /\ \A i \in 1..buf_len' : i \in 1..HeadLen
    BY <1>3, <2>1, Sizes
  <2>3. \A i \in 1..HeadLen : buffer'[i].of = msgs
    BY <1>3, HeadIs DEF Holds
  <2> QED
    BY <2>2, <2>3
<1>8. SendInv'
  BY <1>1, <1>2, <1>4, <1>6, <1>7 DEF SendInv
<1> QED
  BY <1>2, <1>3, <1>5, <1>8 DEF Inv, Array, FoundInv, LengthInv, TypeInv, NotFoundInv

LEMMA NotFoundStepInv == Inv /\ NotFound => Inv'
<1> SUFFICES ASSUME Inv, NotFound PROVE Inv'
  OBVIOUS
<1>1. File' = File /\ Answer' = Answer
  BY SameMessage DEF NotFound
<1>2. /\ File.kind = "missing" \/ (File.kind = "page" /\ File.len = 0)
      /\ pc' = "send"
  BY DEF Inv, NotFound, NotFoundInv
<1>3. 0 \in -1..BodyMax /\ 0 \in 0..BodyMax /\ HeadLen + 0 = HeadLen /\ HeadLen \in Nat
  BY Sizes
<1>4. Array(buffer') /\ buf_len' = HeadLen + 0 /\ Holds(buffer', 404, 0, DefaultType)
  BY <1>3, MakeResponseIs DEF Inv, NotFound
<1>5. buf_len' \in HeadLen - 1..HeadLen + BodyMax
  BY <1>3, <1>4, Sizes
<1>6. TypeOK'
  <2>1. DOMAIN buffer' = 1..HeadLen + BodyMax + 1
    BY <1>4 DEF Array, Size
  <2>2. buf_len' \in HeadLen - 1..HeadLen + BodyMax + 1
    BY <1>5, Sizes
  <2> QED
    BY <2>1, <2>2 DEF Inv, NotFound, TypeOK
<1>7. SubSeq(buffer', 1, buf_len') = Answer
  <2>1. SubSeq(buffer', 1, HeadLen + 0) = HeadOf(404, 0, DefaultType) \o Body(0)
    <3>1. PICK b, n, len, t : /\ b = buffer' /\ n = HeadLen + len
                              /\ len = 0 /\ t = DefaultType
      OBVIOUS
    <3>2. Array(b) /\ len \in 0..BodyMax /\ Holds(b, 404, len, t)
      BY <1>3, <1>4, <3>1
    <3>3. SubSeq(b, 1, n) = HeadOf(404, len, t) \o Body(len)
      BY <3>1, <3>2, Whole
    <3> QED
      BY <3>1, <3>3
  <2>2. Body(0) = <<>>
    BY <1>3, BodyIs
  <2>3. PICK h : h = HeadOf(404, 0, DefaultType)
    OBVIOUS
  <2>4. h \in Seq(Range(h))
    BY <2>3, HeadIs DEF NoNul
  <2>5. h \o <<>> = h
    BY <2>4
  <2>6. Answer = HeadOf(404, 0, DefaultType)
    BY <1>2 DEF Answer
  <2> QED
    BY <1>4, <2>1, <2>2, <2>3, <2>5, <2>6
<1>8. SendInv'
  BY <1>1, <1>2, <1>5, <1>7 DEF SendInv
<1> QED
  BY <1>2, <1>4, <1>6, <1>8 DEF Inv, Array, FoundInv, LengthInv, TypeInv, NotFoundInv

LEMMA SendStepInv == Inv /\ Send => Inv'
<1> SUFFICES ASSUME Inv, Send PROVE Inv'
  OBVIOUS
<1>1. \E n \in 0..HeadLen + BodyMax : sent' = Append(sent, n)
  BY Sizes DEF Inv, Send, SendInv
<1>2. sent' \in Seq(0..HeadLen + BodyMax) /\ Len(sent') = Len(sent) + 1
  BY <1>1 DEF Inv, TypeOK
<1>3. pc = "send" /\ pc' \in {"parse", "error"} /\ complete' \in BOOLEAN
  BY DEF Inv, Send, TypeOK
<1>4. Len(sent') = msgs
  BY <1>2, <1>3 DEF Inv, TypeOK
<1>5. TypeOK'
  BY <1>2, <1>3, <1>4 DEF Inv, Send, TypeOK
<1> QED
  BY <1>3, <1>5 DEF Inv, Send, Array, FoundInv, LengthInv, TypeInv, NotFoundInv, SendInv

LEMMA StutterInv == Inv /\ UNCHANGED vars => Inv'
<1> SUFFICES ASSUME Inv, UNCHANGED vars PROVE Inv'
  OBVIOUS
<1>1. File' = File /\ Taken' = Taken /\ Answer' = Answer
  BY SameMessage DEF vars
<1>2. TypeOK' /\ Array(buffer)'
  BY DEF Inv, TypeOK, Array, vars
<1> QED
  BY <1>1, <1>2 DEF Inv, FoundInv, LengthInv, TypeInv, NotFoundInv, SendInv, vars

-----------------------------------------------------------------------------
(* The theorems *)

\* The invariant that the two properties rest on.
THEOREM ResponseInvariant == Spec => []Inv
<1>1. Inv /\ [Next]_vars => Inv'
  BY MessageInv, OpenInv, ReadInv, GetMimetypeInv, OkInv, NotFoundStepInv, SendStepInv,
     StutterInv DEF Next
<1> QED
  BY InvInit, <1>1, PTL DEF Spec

\* mcr_make_http_response: what is sent is the response to this message from its
\* first cell to its last, whatever earlier responses have left in the buffer.
THEOREM ResponseCorrect == Spec => []ResponseRight
<1>1. Inv => ResponseRight
  BY DEF Inv, SendInv, ResponseRight
<1> QED
  BY ResponseInvariant, <1>1, PTL

\* After a read() that failed the head of this message, but for its last cell, is
\* sent and nothing else.
THEOREM FailedReadCorrect == Spec => []FailedReadFramed
<1>1. Inv => FailedReadFramed
  BY DEF Inv, SendInv, FailedReadFramed
<1> QED
  BY ResponseInvariant, <1>1, PTL
=============================================================================
