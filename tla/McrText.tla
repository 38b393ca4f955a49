------------------------------- MODULE McrText -------------------------------
(***************************************************************************)
(* The text of a configuration file and what to_dict makes of it: readline *)
(* cuts it into lines, str_split2 cuts a line at its separator, to_words   *)
(* cuts both sides into words.  What to_dict allocates on the way is in    *)
(* McrConfig.                                                              *)
(*                                                                         *)
(* Positions count from 1; the position after the last character stands    *)
(* for the '\0' there.                                                     *)
(***************************************************************************)
EXTENDS Naturals, Sequences, FiniteSetsExt

CONSTANTS Chars,       \* the characters of a text
          MaxText,     \* bound on the length of a text
          MaxWordSize, \* MAX_WORD_SIZE
          MaxWordNum,  \* MAX_WORD_NUM
          Garbage      \* what key_area may hold before it is written

NewLine == "NL"
Blanks  == {" ", NewLine}          \* ' ', '\t', '\n'
Stops   == {".", ","}              \* . , ! ?
Inside  == {"a", "/"}              \* letters, digits, '_', '/'

Classes == Blanks \cup Stops \cup Inside \cup {":", "#", "-"}

ASSUME CharsAssumption   == Chars \subseteq Classes
ASSUME GarbageAssumption == Garbage \subseteq Seq(Classes)
ASSUME SizesAssumption == MaxText \in Nat /\ MaxWordNum \in Nat \ {0}
                          /\ MaxWordSize \in Nat \ {0, 1}

VARIABLES text,        \* the buffer
          cl, nl,      \* this line and the next; 0 for NULL
          key_area, values_area,
          p, words,    \* of to_words: where it is, the words it has found
          key,         \* dic->key: the part of key_area it is
          entries,     \* the list of dicts
          pc

vars == <<text, cl, nl, key_area, values_area, p, words, key, entries, pc>>

Init == /\ text \in UNION {[1..n -> Chars] : n \in 0..MaxText}
        /\ cl = 1 /\ nl = 1 /\ key_area \in Garbage /\ values_area = <<>>
        /\ p = 1 /\ words = <<>> /\ key = <<>> /\ entries = <<>> /\ pc = "line"

\* The end of the line that starts at i.
LineEnd(i) == Min({j \in i..Len(text) : text[j] = NewLine} \cup {Len(text) + 1})
Line(i)    == SubSeq(text, i, LineEnd(i) - 1)

\* `next:', and the test at the head of the loop.
GoNext(next) == /\ cl' = next /\ pc' = IF next = 0 THEN "done" ELSE "line"

\* Mutant: the loop ends as soon as there is no further line.
readlineLast ==
  /\ pc = "line"
  /\ nl' = IF LineEnd(cl) > Len(text) THEN 0 ELSE LineEnd(cl) + 1
  /\ IF nl' = 0 \/ Line(cl) = <<>> \/ text[cl] = "#"
     THEN GoNext(nl') ELSE pc' = "split" /\ UNCHANGED cl
  /\ UNCHANGED <<text, key_area, values_area, p, words, key, entries>>

\* Mutant: the next line begins at the newline.
readlineStays ==
  /\ pc = "line"
  /\ nl' = IF LineEnd(cl) > Len(text) THEN 0 ELSE LineEnd(cl)
  /\ IF Line(cl) = <<>> \/ text[cl] = "#"
     THEN GoNext(nl') ELSE pc' = "split" /\ UNCHANGED cl
  /\ UNCHANGED <<text, key_area, values_area, p, words, key, entries>>

\* Reads a line; comments and empty lines are passed over.
readline ==
  /\ pc = "line"
  /\ nl' = IF LineEnd(cl) > Len(text) THEN 0 ELSE LineEnd(cl) + 1
  /\ IF Line(cl) = <<>> \/ text[cl] = "#"
     THEN GoNext(nl') ELSE pc' = "split" /\ UNCHANGED cl
  /\ UNCHANGED <<text, key_area, values_area, p, words, key, entries>>

Separators(line) == {i \in DOMAIN line : line[i] = ":"}

\* Mutant: one character before the separator is taken for none.
str_split2OffByOne ==
  /\ pc = "split"
  /\ LET line == Line(cl) IN
     \/ /\ Cardinality(Separators(line)) # 1 /\ GoNext(nl)
        /\ UNCHANGED <<key_area, values_area, p, words>>
     \/ \E s \in Separators(line) :
          /\ Separators(line) = {s}
          /\ key_area' = IF s > 2 THEN SubSeq(line, 1, s - 1) ELSE key_area
          /\ values_area' = SubSeq(line, s + 1, Len(line))
          /\ p' = 1 /\ words' = <<>> /\ pc' = "key" /\ UNCHANGED cl
  /\ UNCHANGED <<text, nl, key, entries>>

\* Exactly one separator; a line that begins with it leaves key_area as it was.
str_split2 ==
  /\ pc = "split"
  /\ LET line == Line(cl) IN
     \/ /\ Cardinality(Separators(line)) # 1 /\ GoNext(nl)
        /\ UNCHANGED <<key_area, values_area, p, words>>
     \/ \E s \in Separators(line) :
          /\ Separators(line) = {s}
          /\ key_area' = IF s > 1 THEN SubSeq(line, 1, s - 1) ELSE key_area
          /\ values_area' = SubSeq(line, s + 1, Len(line))
          /\ p' = 1 /\ words' = <<>> /\ pc' = "key" /\ UNCHANGED cl
  /\ UNCHANGED <<text, nl, key, entries>>

-----------------------------------------------------------------------------
Area == IF pc = "key" THEN key_area ELSE values_area

Starts(area) == {i \in p..Len(area) : area[i] \in Inside}

\* Mutant: a word ends at a full stop, whatever follows.
EndsAtStop(area, i) == area[i] \in Blanks \cup Stops

\* A word ends before a blank, and before a stop that a blank or the end follows.
Ends(area, i) ==
  \/ area[i] \in Blanks
  \/ area[i] \in Stops /\ (i = Len(area) \/ area[i + 1] \in Blanks)

\* One word of to_words; it keeps the first MAX_WORD_SIZE - 1 characters.
NextWord(max) ==
  /\ p <= Len(Area) /\ Len(words) < max /\ Starts(Area) # {}
  /\ LET from == Min(Starts(Area))
         end  == Min({i \in from..Len(Area) : Ends(Area, i)} \cup {Len(Area) + 1})
         kept == Min({end - from, MaxWordSize - 1})
     IN /\ words' = Append(words, [from |-> from, kept |-> kept, end |-> end])
        /\ p' = end
  /\ UNCHANGED <<text, cl, nl, key_area, values_area, key, entries, pc>>

\* to_words returns.
NoMore(max) == p > Len(Area) \/ Len(words) = max \/ Starts(Area) = {}

\* to_words for the key, of which there must be one.
KeyWord == pc = "key" /\ NextWord(1)

Key ==
  /\ pc = "key" /\ NoMore(1)
  /\ \/ /\ Len(words) # 1 /\ GoNext(nl) /\ UNCHANGED <<key, p, words>>
     \/ /\ Len(words) = 1 /\ key' = words[1]
        /\ p' = 1 /\ words' = <<>> /\ pc' = "values" /\ UNCHANGED cl
  /\ UNCHANGED <<text, nl, key_area, values_area, entries>>

ValuesWord == pc = "values" /\ NextWord(MaxWordNum)

\* listAddNodeTail.
Values ==
  /\ pc = "values" /\ NoMore(MaxWordNum)
  /\ entries' = Append(entries, [at |-> cl, key |-> key, key_area |-> key_area,
                                 values |-> words, values_area |-> values_area])
  /\ GoNext(nl)
  /\ UNCHANGED <<text, nl, key_area, values_area, p, words, key>>

Next == readline \/ str_split2 \/ KeyWord \/ Key \/ ValuesWord \/ Values

Spec == Init /\ [][Next]_vars

\* One thread runs to_dict.
FairSpec == Spec /\ WF_vars(Next)

-----------------------------------------------------------------------------
\* Both pointers are in the text or NULL, the areas within their sizes.
TypeOK ==
  /\ pc \in {"line", "split", "key", "values", "done"}
  /\ cl \in 0..Len(text) + 1 /\ nl \in 0..Len(text) + 1 /\ (cl = 0 <=> pc = "done")
  /\ Len(key_area) <= MaxText \/ key_area \in Garbage
  /\ Len(values_area) <= MaxText
  /\ p \in 1..Len(Area) + 1 /\ Len(words) <= MaxWordNum
  /\ Len(entries) <= Len(text)

\* ws are all the words of area, up to a limit: they follow each other with a
\* blank between them, none has a blank inside or begins with another character,
\* and no letter is left out before the last of them, nor after it below the limit.
AllWords(ws, area, max) ==
  /\ \A i \in DOMAIN ws :
       /\ area[ws[i].from] \in Inside /\ ws[i].kept \in 1..MaxWordSize - 1
       /\ ws[i].from + ws[i].kept <= ws[i].end
       /\ \A j \in ws[i].from..ws[i].end - 1 : area[j] \notin Blanks
  /\ \A i \in 1..Len(ws) - 1 :
       \E j \in ws[i].end..ws[i + 1].from : area[j] \in Blanks
  /\ \A j \in DOMAIN area : area[j] \in Inside =>
       \/ \E i \in DOMAIN ws : j \in ws[i].from..ws[i].end - 1
       \/ Len(ws) = max /\ j >= ws[max].end

\* What to_words hands to a dict are the words of the two sides of the line: an
\* address or a version with stops inside is one word, nothing is passed over.
WordsExact == \A n \in DOMAIN entries :
  /\ AllWords(<<entries[n].key>>, entries[n].key_area, 1)
  /\ AllWords(entries[n].values, entries[n].values_area, MaxWordNum)

LineStarts == {1} \cup {i \in 2..Len(text) + 1 : text[i - 1] = NewLine}
Before(line) == {i \in DOMAIN line : \A s \in Separators(line) : i < s}

\* A line with one separator and one word before it: with more than one word there
\* to_dict takes the first, but "ignore lines whose number of keys != 1" asks for none.
Setting(line) ==
  LET letters == {i \in Before(line) : line[i] \in Inside} IN
  /\ Cardinality(Separators(line)) = 1 /\ line[1] # "#"
  /\ letters # {}
  /\ \A i, j \in letters : \A k \in i..j : line[k] \notin Blanks

\* When to_dict is through, every line that sets something has exactly one dict,
\* the last line of a text without a final newline included; comments and lines
\* with no or several separators have none, and the dicts are in the order of
\* the lines, so that a later line overrides an earlier one.
NoLineLost ==
  /\ TypeOK
  /\ \A m, n \in DOMAIN entries : m < n => entries[m].at < entries[n].at
  /\ pc = "done" => \A i \in LineStarts :
       Setting(Line(i)) => \E n \in DOMAIN entries : entries[n].at = i
  /\ \A n \in DOMAIN entries : LET line == Line(entries[n].at) IN
       line[1] # "#" /\ Cardinality(Separators(line)) = 1

\* to_dict gets through every text.
ReadsToTheEnd == <>(pc = "done")

\* The key of a dict is taken from its own line and not from a line before it,
\* whose key is still in key_area: it is all that stands before the separator
\* (str_split2, to_dict).  Lines that begin with the separator have no key; what
\* to_dict does with them is not required here.
OwnKey == \A n \in DOMAIN entries :
  LET at == entries[n].at IN
  text[at] # ":" =>
    entries[n].key_area = SubSeq(text, at, at + Max(Before(Line(at))) - 1)

=============================================================================
