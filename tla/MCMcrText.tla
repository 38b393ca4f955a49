------------------------------ MODULE MCMcrText ------------------------------
EXTENDS McrText

\* key_area before its first use: an empty string or a word.
MCGarbage == {<<>>, <<"a">>}
=============================================================================
