------------------------------ MODULE MCHttpUrl ------------------------------
EXTENDS HttpUrl

\* a://a@a:2 has nine bytes; CONNECT URLs start at the server.
MCMaxUrl == [c \in BOOLEAN |-> IF c THEN 5 ELSE 9]

\* Behind the URL: a '\0' or a delimiter, or a digit.
MCBehind == {<<>>, <<"2">>}
=============================================================================
