---------------------------- MODULE McrTextProofs ----------------------------
(***************************************************************************)
(* Theorems about to_dict on the text of a configuration file: for texts   *)
(* of any length, any sizes of words and dicts, and whatever key_area held *)
(* before it was written.                                                  *)
(***************************************************************************)
EXTENDS McrText, LeastNumber, FiniteSetTheorems, SequenceTheorems

-----------------------------------------------------------------------------
(* Lines *)

LEMMA TextIs ==
  ASSUME text \in Seq(Chars)
  PROVE  Len(text) \in Nat /\ \A i \in 1..Len(text) : text[i] \in Chars
BY LenProperties, ElementOfSeq

LEMMA LineEndIs ==
  ASSUME text \in Seq(Chars), NEW i \in 1..Len(text) + 1
  PROVE  /\ LineEnd(i) \in i..Len(text) + 1
         /\ LineEnd(i) <= Len(text) => text[LineEnd(i)] = NewLine
         /\ \A j \in i..LineEnd(i) - 1 : text[j] # NewLine
<1> DEFINE S == {j \in i..Len(text) : text[j] = NewLine} \union {Len(text) + 1}
<1>1. S \in SUBSET Nat /\ S # {}
  BY TextIs
<1>2. LineEnd(i) \in S /\ \A j \in S : LineEnd(i) <= j
  BY <1>1, MinIs DEF LineEnd
<1> QED
  BY <1>2, TextIs

LEMMA LineIs ==
  ASSUME text \in Seq(Chars), NEW i \in 1..Len(text) + 1
  PROVE  /\ Line(i) \in Seq(Chars) /\ Len(Line(i)) = LineEnd(i) - i
         /\ \A k \in 1..Len(Line(i)) : Line(i)[k] = text[i + k - 1]
         /\ Line(i) # <<>> => i <= Len(text) /\ Line(i)[1] = text[i]
<1>1. /\ LineEnd(i) \in Int /\ i \in Int /\ LineEnd(i) - 1 \in Int /\ LineEnd(i) >= i
      /\ \A j \in i..LineEnd(i) - 1 : text[j] \in Chars
  BY TextIs, LineEndIs
<1>2. /\ Line(i) \in Seq(Chars)
      /\ Len(Line(i)) = IF i <= LineEnd(i) - 1 THEN LineEnd(i) - 1 - i + 1 ELSE 0
      /\ \A k \in 1..LineEnd(i) - 1 - i + 1 : Line(i)[k] = text[i + k - 1]
  BY <1>1, SubSeqProperties DEF Line
<1>3. Len(Line(i)) = LineEnd(i) - i
  BY <1>1, <1>2
<1>4. \A k \in 1..Len(Line(i)) : Line(i)[k] = text[i + k - 1]
  BY <1>1, <1>2, <1>3
<1>5. ASSUME Line(i) # <<>> PROVE i <= Len(text) /\ Line(i)[1] = text[i]
  <2>1. Len(Line(i)) \in Nat \ {0}
    BY <1>2, <1>5, EmptySeq
  <2>2. Line(i)[1] = text[i]
    BY <1>4, <2>1
  <2> QED
    BY <1>3, <2>1, <2>2, LineEndIs, TextIs
<1> QED
  BY <1>2, <1>3, <1>4, <1>5

LEMMA SeparatorsAre ==
  ASSUME NEW line \in Seq(Chars)
  PROVE  Cardinality(Separators(line)) = 1 <=> \E s \in 1..Len(line) : Separators(line) = {s}
<1>1. Len(line) \in Nat /\ DOMAIN line = 1..Len(line)
  BY LenProperties
<1>2. Separators(line) \subseteq 1..Len(line)
  BY <1>1 DEF Separators
<1>3. IsFiniteSet(1..Len(line))
  BY <1>1, FS_Interval
<1>4. IsFiniteSet(Separators(line))
  BY <1>2, <1>3, FS_Subset
<1>5. Cardinality(Separators(line)) = 1 <=> \E s : Separators(line) = {s}
  BY <1>4, FS_Singleton
<1> QED
  BY <1>2, <1>5

\* The line after one that starts at i, as GoNext goes to it.
After(i) == IF LineEnd(i) > Len(text) THEN 0 ELSE LineEnd(i) + 1

LEMMA AfterIs ==
  ASSUME text \in Seq(Chars), NEW i \in LineStarts
  PROVE  /\ i \in 1..Len(text) + 1 /\ After(i) \in 0..Len(text) + 1
         /\ After(i) # 0 => After(i) \in LineStarts /\ After(i) > i
         /\ \A j \in LineStarts : After(i) = 0 \/ j < After(i) => j <= i
<1>1. i \in 1..Len(text) + 1 /\ Len(text) \in Nat
  BY TextIs DEF LineStarts
<1>2. /\ LineEnd(i) \in i..Len(text) + 1
      /\ LineEnd(i) <= Len(text) => text[LineEnd(i)] = NewLine
      /\ \A j \in i..LineEnd(i) - 1 : text[j] # NewLine
  BY <1>1, LineEndIs
<1>3. After(i) \in 0..Len(text) + 1
  BY <1>1, <1>2 DEF After
<1>4. ASSUME After(i) # 0 PROVE After(i) \in LineStarts /\ After(i) > i
  <2>1. After(i) = LineEnd(i) + 1 /\ LineEnd(i) <= Len(text)
    BY <1>1, <1>2, <1>4 DEF After
  <2>2. After(i) \in 2..Len(text) + 1 /\ text[After(i) - 1] = NewLine /\ After(i) > i
    BY <1>1, <1>2, <2>1
  <2> QED
    BY <2>2 DEF LineStarts
<1>5. ASSUME NEW j \in LineStarts, After(i) = 0 \/ j < After(i), j > i PROVE FALSE
  <2>1. j \in 2..Len(text) + 1 /\ text[j - 1] = NewLine
    BY <1>1, <1>5 DEF LineStarts
  <2>2. j - 1 >= LineEnd(i)
    BY <1>1, <1>2, <1>5, <2>1
  <2> QED
    BY <1>1, <1>2, <1>5, <2>1, <2>2 DEF After
<1>6. \A j \in LineStarts : j \in Int
  BY <1>1 DEF LineStarts
<1> QED
  BY <1>1, <1>3, <1>4, <1>5, <1>6

-----------------------------------------------------------------------------
(* Words *)

WordRecords == [from : Nat, kept : Nat, end : Nat]

\* What to_words has found when it is at q: AllWords, up to there.
WordsSoFar(ws, area, q) ==
  /\ ws \in Seq(WordRecords)
  /\ \A i \in 1..Len(ws) :
       /\ area[ws[i].from] \in Inside /\ ws[i].kept \in 1..MaxWordSize - 1
       /\ ws[i].from + ws[i].kept <= ws[i].end
       /\ \A j \in ws[i].from..ws[i].end - 1 : area[j] \notin Blanks
  /\ \A i \in 1..Len(ws) - 1 :
       \E j \in ws[i].end..ws[i + 1].from : area[j] \in Blanks
  /\ \A j \in 1..Len(area) : area[j] \in Inside /\ j < q =>
       \E i \in 1..Len(ws) : j \in ws[i].from..ws[i].end - 1
  /\ q \in 1..Len(area) + 1
  /\ Len(ws) = 0 => q = 1
  /\ Len(ws) > 0 => q = ws[Len(ws)].end /\ (q <= Len(area) => Ends(area, q))

LEMMA ClassesApart ==
  /\ \A c \in Inside : c \notin Blanks /\ c \notin Stops /\ c # ":" /\ c # "#"
  /\ NewLine \in Blanks
BY DEF Inside, Blanks, Stops, NewLine

LEMMA NoWordsYet ==
  ASSUME NEW area \in Seq(Classes)
  PROVE  WordsSoFar(<<>>, area, 1)
<1>1. Len(area) \in Nat
  BY LenProperties
<1>2. <<>> \in Seq(WordRecords) /\ Len(<<>>) = 0
  BY EmptySeq
<1> QED
  BY <1>1, <1>2 DEF WordsSoFar

\* When to_words stops, it has found all words there are, or as many as it may.
LEMMA NoMoreIs ==
  ASSUME Area \in Seq(Classes), WordsSoFar(words, Area, p),
         NEW max \in Nat \ {0}, Len(words) <= max, NoMore(max)
  PROVE  AllWords(words, Area, max)
<1> DEFINE area == Area
<1>1. Len(words) \in Nat /\ DOMAIN words = 1..Len(words)
  BY LenProperties DEF WordsSoFar
<1>2. Len(area) \in Nat /\ DOMAIN area = 1..Len(area)
  BY LenProperties
<1>3. NoMore(max) <=> p > Len(area) \/ Len(words) = max \/ Starts(area) = {}
  BY DEF NoMore
<1>4. Starts(area) = {i \in p..Len(area) : area[i] \in Inside}
  BY DEF Starts
<1>5. WordsSoFar(words, area, p)
  OBVIOUS
<1> HIDE DEF area
<1>6. ASSUME NEW j \in 1..Len(area), area[j] \in Inside
      PROVE  \/ \E i \in 1..Len(words) : j \in words[i].from..words[i].end - 1
             \/ Len(words) = max /\ j >= words[max].end
  <2>1. CASE j < p
    BY <1>5, <1>6, <2>1 DEF WordsSoFar
  <2>2. CASE j >= p
    <3>1. p \in 1..Len(area) + 1
      BY <1>5 DEF WordsSoFar
    <3>2. j \in Starts(area)
      BY <1>2, <1>4, <1>6, <2>2, <3>1
    <3>3. Len(words) = max
      BY <1>2, <1>3, <1>6, <2>2, <3>1, <3>2
    <3>4. p = words[max].end
      BY <1>1, <1>5, <3>3 DEF WordsSoFar
    <3> QED
      BY <2>2, <3>3, <3>4
  <2> QED
    BY <1>5, <1>6, <2>1, <2>2 DEF WordsSoFar
<1>7. AllWords(words, area, max)
  BY <1>1, <1>2, <1>5, <1>6 DEF AllWords, WordsSoFar
<1> QED
  BY <1>7 DEF area

LEMMA NextWordStep ==
  ASSUME Area \in Seq(Classes), WordsSoFar(words, Area, p),
         NEW max \in Nat, NextWord(max)
  PROVE  WordsSoFar(words', Area, p') /\ Len(words') <= max
<1> DEFINE area == Area
           from == Min(Starts(area))
           E == {i \in from..Len(area) : Ends(area, i)} \union {Len(area) + 1}
           end == Min(E)
           kept == Min({end - from, MaxWordSize - 1})
           w == [from |-> from, kept |-> kept, end |-> end]
<1>1. /\ p <= Len(area) /\ Len(words) < max /\ Starts(area) # {}
      /\ words' = Append(words, w) /\ p' = end
  BY DEF NextWord
<1>2. Len(area) \in Nat /\ p \in 1..Len(area) + 1 /\ \A i \in 1..Len(area) : area[i] \in Classes
  BY LenProperties, ElementOfSeq DEF WordsSoFar
<1>3. /\ from \in p..Len(area) /\ area[from] \in Inside
      /\ \A j \in p..Len(area) : area[j] \in Inside => from <= j
  <2>1. Starts(area) \in SUBSET Nat
    BY <1>2 DEF Starts
  <2>2. from \in Starts(area) /\ \A j \in Starts(area) : from <= j
    BY <1>1, <2>1, MinIs
  <2> HIDE DEF from, area
  <2> QED
    BY <2>2 DEF Starts
<1> HIDE DEF from
<1>4. /\ end \in from..Len(area) + 1 /\ (end <= Len(area) => Ends(area, end))
      /\ \A j \in from..end - 1 : ~Ends(area, j)
  <2>1. E \in SUBSET Nat /\ E # {}
    BY <1>2, <1>3
  <2>2. end \in E /\ \A j \in E : end <= j
    BY <2>1, MinIs
  <2> HIDE DEF end, area
  <2> QED
    BY <1>2, <1>3, <2>2
<1> HIDE DEF end
<1>5. \A j \in from..end - 1 : area[j] \notin Blanks
  BY <1>4 DEF Ends
<1>6. ~Ends(area, from)
  BY <1>3, ClassesApart DEF Ends
<1>7. end > from
  BY <1>2, <1>3, <1>4, <1>6
<1>8. kept \in 1..MaxWordSize - 1 /\ from + kept <= end
  <2>1. end - from \in Nat \ {0} /\ MaxWordSize - 1 \in Nat \ {0}
    BY <1>2, <1>3, <1>4, <1>7, SizesAssumption
  <2>2. {end - from, MaxWordSize - 1} \in SUBSET Nat
    BY <2>1
  <2>3. kept \in {end - from, MaxWordSize - 1} /\ kept <= end - from /\ kept <= MaxWordSize - 1
    BY <2>2, MinIs
  <2> HIDE DEF kept
  <2>4. kept \in Nat \ {0}
    BY <2>1, <2>3
  <2>5. from + kept <= end
    BY <1>2, <1>3, <1>4, <2>3, <2>4
  <2> QED
    BY <2>1, <2>3, <2>4, <2>5
<1> HIDE DEF kept
<1>9. w \in WordRecords /\ w.from = from /\ w.kept = kept /\ w.end = end
  BY <1>2, <1>3, <1>4, <1>8, SizesAssumption DEF WordRecords
<1> HIDE DEF w
<1>10. /\ words \in Seq(WordRecords) /\ Len(words) \in Nat
       /\ words' \in Seq(WordRecords) /\ Len(words') = Len(words) + 1
       /\ \A i \in 1..Len(words) : words'[i] = words[i]
       /\ words'[Len(words) + 1] = w
  BY <1>1, <1>9, LenProperties, AppendProperties DEF WordsSoFar
<1>11. WordsSoFar(words, area, p)
  OBVIOUS
<1> HIDE DEF area
<1>12. \A i \in 1..Len(words') : i = Len(words) + 1 \/ i \in 1..Len(words)
  BY <1>10
<1>13. ASSUME NEW i \in 1..Len(words')
       PROVE  /\ area[words'[i].from] \in Inside /\ words'[i].kept \in 1..MaxWordSize - 1
              /\ words'[i].from + words'[i].kept <= words'[i].end
              /\ \A j \in words'[i].from..words'[i].end - 1 : area[j] \notin Blanks
  <2>1. CASE i = Len(words) + 1
    BY <1>3, <1>5, <1>8, <1>9, <1>10, <2>1
  <2>2. CASE i \in 1..Len(words)
    <3>1. words'[i] = words[i]
      BY <1>10, <2>2
    <3> QED
      BY <1>11, <2>2, <3>1 DEF WordsSoFar
  <2> QED
    BY <1>12, <2>1, <2>2
<1>14. ASSUME NEW i \in 1..Len(words') - 1
       PROVE  \E j \in words'[i].end..words'[i + 1].from : area[j] \in Blanks
  <2>1. i \in 1..Len(words) /\ words'[i] = words[i]
    BY <1>10
  <2>2. CASE i = Len(words)
    <3>1. words'[i + 1].from = from /\ words'[i].end = p
      BY <1>9, <1>10, <1>11, <2>1, <2>2 DEF WordsSoFar
    <3>2. Ends(area, p) /\ p # from /\ p < from /\ p + 1 <= from
      BY <1>1, <1>2, <1>3, <1>6, <1>10, <1>11, <2>1, <2>2 DEF WordsSoFar
    <3>3. area[p] \in Blanks \/ (p < Len(area) /\ area[p + 1] \in Blanks)
      BY <1>2, <1>3, <3>2 DEF Ends
    <3>4. p \in p..from /\ p + 1 \in p..from
      BY <1>2, <1>3, <3>2
    <3> QED
      BY <3>1, <3>3, <3>4
  <2>3. CASE i \in 1..Len(words) - 1
    <3>1. words'[i + 1] = words[i + 1]
      BY <1>10, <2>3
    <3> QED
      BY <1>11, <2>1, <2>3, <3>1 DEF WordsSoFar
  <2> QED
    BY <1>10, <2>1, <2>2, <2>3
<1>15. ASSUME NEW j \in 1..Len(area), area[j] \in Inside, j < end
       PROVE  \E i \in 1..Len(words') : j \in words'[i].from..words'[i].end - 1
  <2>1. CASE j < p
    <3>1. PICK i \in 1..Len(words) : j \in words[i].from..words[i].end - 1
      BY <1>11, <1>15, <2>1 DEF WordsSoFar
    <3>2. i \in 1..Len(words') /\ words'[i] = words[i]
      BY <1>10
    <3> QED
      BY <3>1, <3>2
  <2>2. CASE j >= p
    <3>1. j \in from..end - 1
      BY <1>2, <1>3, <1>4, <1>15, <2>2
    <3>2. Len(words) + 1 \in 1..Len(words')
      BY <1>10
    <3> QED
      BY <1>9, <1>10, <3>1, <3>2
  <2> QED
    BY <1>2, <2>1, <2>2
<1>16. WordsSoFar(words', area, p')
  <2>1. end \in 1..Len(area) + 1 /\ p' = end
    BY <1>1, <1>2, <1>3, <1>4
  <2>2. Len(words') > 0 /\ Len(words') # 0 /\ end = words'[Len(words')].end
    BY <1>9, <1>10
  <2> QED
    BY <1>4, <1>10, <1>13, <1>14, <1>15, <2>1, <2>2 DEF WordsSoFar
<1>17. Len(words') <= max
  BY <1>1, <1>10
<1> QED
  BY <1>16, <1>17 DEF area

-----------------------------------------------------------------------------
(* The inductive invariant *)

EntryRecords == [at : Nat, key : WordRecords, key_area : Seq(Classes),
                 values : Seq(WordRecords), values_area : Seq(Chars)]

\* A line that leaves something in key_area, the lines up to c that do, and what
\* the last one of them leaves.
Keyed(i) == /\ Line(i) # <<>> /\ text[i] \notin {"#", ":"}
            /\ Cardinality(Separators(Line(i))) = 1
KeyedTo(c) == {i \in LineStarts : i <= c /\ Keyed(i)}
KeyFrom(area, S) ==
  IF S = {} THEN area \in Garbage
  ELSE area = SubSeq(text, Max(S), Max(S) + Max(Before(Line(Max(S)))) - 1)

\* A dict is of a line with one separator, with all its words.
EntryOK(e) ==
  /\ e.at \in LineStarts /\ Line(e.at) # <<>> /\ text[e.at] # "#"
  /\ \E s \in 1..Len(Line(e.at)) : Separators(Line(e.at)) = {s}
  /\ AllWords(<<e.key>>, e.key_area, 1)
  /\ AllWords(e.values, e.values_area, MaxWordNum)
  /\ KeyFrom(e.key_area, KeyedTo(e.at))

Types ==
  /\ text \in Seq(Chars) /\ Len(text) <= MaxText
  /\ pc \in {"line", "split", "key", "values", "done"}
  /\ (pc = "done" <=> cl = 0) /\ (pc # "done" => cl \in LineStarts)
  /\ nl \in 0..Len(text) + 1
  /\ key_area \in Seq(Classes) /\ (Len(key_area) <= MaxText \/ key_area \in Garbage)
  /\ values_area \in Seq(Chars) /\ Len(values_area) <= MaxText
  /\ words \in Seq(WordRecords) /\ Len(words) <= MaxWordNum
  /\ p \in 1..Len(Area) + 1

\* The line at work is no comment, and goes on to the one after it.
InLine == pc \in {"split", "key", "values"} =>
  Line(cl) # <<>> /\ text[cl] # "#" /\ nl = After(cl)

\* It has one separator; the words of the side at work are found up to p.
InSides == pc \in {"key", "values"} =>
  /\ \E s \in 1..Len(Line(cl)) :
       Separators(Line(cl)) = {s} /\ (s > 1 => key_area = SubSeq(Line(cl), 1, s - 1))
  /\ WordsSoFar(words, Area, p)
  /\ pc = "key" => Len(words) <= 1
  /\ pc = "values" => key \in WordRecords /\ AllWords(<<key>>, key_area, 1)

KeyInv == /\ pc \in {"key", "values"} => KeyFrom(key_area, KeyedTo(cl))
          /\ pc \in {"line", "split"} => KeyFrom(key_area, KeyedTo(cl - 1))

\* The dicts are in the order of their lines, all before the line at work.
EntriesInv ==
  /\ entries \in Seq(EntryRecords)
  /\ \A n \in 1..Len(entries) : /\ EntryOK(entries[n]) /\ n <= entries[n].at
                                /\ pc # "done" => entries[n].at < cl
  /\ \A m, n \in 1..Len(entries) : m < n => entries[m].at < entries[n].at

\* A line with one separator and a word before it, or several words.
Worded(line) ==
  /\ Cardinality(Separators(line)) = 1 /\ line[1] # "#"
  /\ \E i \in Before(line) : line[i] \in Inside

\* Every such line before the one at work has its dict.
Complete == \A i \in LineStarts :
  Worded(Line(i)) /\ (pc = "done" \/ i < cl) => \E n \in 1..Len(entries) : entries[n].at = i

TextInv == Types /\ InLine /\ InSides /\ KeyInv /\ EntriesInv /\ Complete

-----------------------------------------------------------------------------
\* The text does not change, and what depends on it alone does not either.
LEMMA TextSame ==
  ASSUME text' = text
  PROVE  /\ LineStarts' = LineStarts
         /\ \A i : Line(i)' = Line(i) /\ After(i)' = After(i)
         /\ \A c : KeyedTo(c)' = KeyedTo(c)
         /\ \A area, S : KeyFrom(area, S)' = KeyFrom(area, S)
         /\ \A e : EntryOK(e)' = EntryOK(e)
<1>1. LineStarts' = LineStarts
  BY DEF LineStarts
<1>2. ASSUME NEW i PROVE LineEnd(i)' = LineEnd(i)
  BY DEF LineEnd
<1>3. ASSUME NEW i PROVE Line(i)' = Line(i) /\ After(i)' = After(i)
  BY <1>2 DEF Line, After
<1>4. ASSUME NEW i PROVE Keyed(i)' = Keyed(i)
  BY <1>3 DEF Keyed
<1>5. ASSUME NEW c PROVE KeyedTo(c)' = KeyedTo(c)
  BY <1>1, <1>4 DEF KeyedTo
<1>6. ASSUME NEW area, NEW S PROVE KeyFrom(area, S)' = KeyFrom(area, S)
  BY <1>3 DEF KeyFrom
<1>7. ASSUME NEW e PROVE EntryOK(e)' = EntryOK(e)
  BY <1>1, <1>3, <1>5, <1>6 DEF EntryOK
<1> QED
  BY <1>1, <1>3, <1>5, <1>6, <1>7

LEMMA KeyedUpTo ==
  ASSUME text \in Seq(Chars), NEW c \in LineStarts
  PROVE  KeyedTo(c) = KeyedTo(c - 1) \union IF Keyed(c) THEN {c} ELSE {}
<1>1. \A i \in LineStarts : i \in Nat
  BY TextIs DEF LineStarts
<1>2. \A i \in LineStarts : i <= c <=> i <= c - 1 \/ i = c
  BY <1>1
<1> QED
  BY <1>1, <1>2 DEF KeyedTo

\* to_dict is done with a line, and goes to the next: with a dict for it, or
\* without one when it sets nothing.
LEMMA LineDone ==
  ASSUME TextInv, pc # "done", GoNext(After(cl)), nl' = After(cl),
         UNCHANGED <<text, key_area, values_area>>,
         KeyFrom(key_area, KeyedTo(cl)),
         words' \in Seq(WordRecords), Len(words') <= MaxWordNum,
         p' \in 1..Len(values_area) + 1,
         \/ entries' = entries /\ ~Worded(Line(cl))
         \/ \E e \in EntryRecords : entries' = Append(entries, e) /\ EntryOK(e) /\ e.at = cl
  PROVE  TextInv'
<1>1. /\ text \in Seq(Chars) /\ cl \in LineStarts
      /\ cl' = After(cl) /\ pc' = IF cl' = 0 THEN "done" ELSE "line"
  BY DEF TextInv, Types, GoNext
<1>2. /\ cl \in 1..Len(text) + 1 /\ cl' \in 0..Len(text) + 1 /\ Len(text) \in Nat
      /\ cl' # 0 => cl' \in LineStarts /\ cl' > cl
      /\ \A j \in LineStarts : cl' = 0 \/ j < cl' => j <= cl
  BY <1>1, AfterIs, TextIs
<1>3. pc' \in {"done", "line"} /\ (pc' = "done" <=> cl' = 0)
  BY <1>1
<1>4. /\ LineStarts' = LineStarts /\ \A i : Line(i)' = Line(i)
      /\ \A c : KeyedTo(c)' = KeyedTo(c)
      /\ \A area, S : KeyFrom(area, S)' = KeyFrom(area, S)
      /\ \A e : EntryOK(e)' = EntryOK(e)
  BY TextSame
<1>5. \A i \in LineStarts : i \in Nat
  BY <1>2 DEF LineStarts
<1>6. Types'
  <2>1. Area' = values_area
    BY <1>3 DEF Area
  <2> QED
    BY <1>1, <1>2, <1>3, <1>4, <2>1 DEF TextInv, Types
<1>7. InLine' /\ InSides'
  BY <1>3 DEF InLine, InSides
<1>8. KeyInv'
  <2>1. ASSUME pc' = "line" PROVE KeyedTo(cl' - 1) = KeyedTo(cl)
    <3>1. cl' # 0 /\ cl' > cl
      BY <1>2, <1>3, <2>1
    <3>2. \A j \in LineStarts : j <= cl' - 1 <=> j <= cl
      BY <1>2, <1>5, <3>1
    <3> QED
      BY <3>2 DEF KeyedTo
  <2>2. ASSUME pc' = "line" PROVE KeyFrom(key_area, KeyedTo(cl' - 1))
    BY <2>1, <2>2
  <2>3. pc' = "line" => KeyFrom(key_area, KeyedTo(cl - 1))'
    BY <1>4, <2>2
  <2> QED
    BY <1>3, <2>3 DEF KeyInv
<1>9. /\ entries \in Seq(EntryRecords) /\ Len(entries) \in Nat
      /\ \A n \in 1..Len(entries) : /\ EntryOK(entries[n]) /\ n <= entries[n].at
                                    /\ entries[n].at < cl /\ entries[n].at \in Nat
      /\ \A m, n \in 1..Len(entries) : m < n => entries[m].at < entries[n].at
      /\ \A i \in LineStarts : Worded(Line(i)) /\ i < cl =>
           \E n \in 1..Len(entries) : entries[n].at = i
  <2>1. \A n \in 1..Len(entries) : entries[n].at \in Nat
    BY <1>5 DEF TextInv, EntriesInv, EntryOK
  <2> QED
    BY <2>1, LenProperties DEF TextInv, EntriesInv, Complete
<1>10. CASE entries' = entries /\ ~Worded(Line(cl))
  <2>1. EntriesInv'
    BY <1>2, <1>3, <1>4, <1>9, <1>10 DEF EntriesInv
  <2>2. \A i \in LineStarts : Worded(Line(i)) /\ (cl' = 0 \/ i < cl') =>
          \E n \in 1..Len(entries) : entries[n].at = i
    BY <1>2, <1>5, <1>9, <1>10
  <2>3. Complete'
    BY <1>3, <1>4, <1>10, <2>2 DEF Complete
  <2> QED
    BY <1>6, <1>7, <1>8, <2>1, <2>3 DEF TextInv
<1>11. CASE \E e \in EntryRecords : entries' = Append(entries, e) /\ EntryOK(e) /\ e.at = cl
  <2>1. PICK e \in EntryRecords : entries' = Append(entries, e) /\ EntryOK(e) /\ e.at = cl
    BY <1>11
  <2>2. /\ entries' \in Seq(EntryRecords) /\ Len(entries') = Len(entries) + 1
        /\ \A n \in 1..Len(entries) : entries'[n] = entries[n]
        /\ entries'[Len(entries) + 1] = e
    BY <1>9, <2>1, AppendProperties
  <2>3. \A n \in 1..Len(entries') : n \in 1..Len(entries) \/ n = Len(entries) + 1
    BY <1>9, <2>2
  <2>4. Len(entries) + 1 <= cl
    <3>1. CASE Len(entries) = 0
      BY <1>2, <3>1
    <3>2. CASE Len(entries) > 0
      BY <1>2, <1>9, <3>2
    <3> QED
      BY <1>9, <3>1, <3>2
  <2>5. ASSUME NEW n \in 1..Len(entries')
        PROVE  /\ EntryOK(entries'[n]) /\ n <= entries'[n].at /\ entries'[n].at <= cl
    <3>1. CASE n \in 1..Len(entries)
      BY <1>2, <1>9, <2>2, <3>1
    <3>2. CASE n = Len(entries) + 1
      BY <1>2, <2>1, <2>2, <2>4, <3>2
    <3> QED
      BY <2>3, <3>1, <3>2
  <2>6. ASSUME NEW m \in 1..Len(entries'), NEW n \in 1..Len(entries'), m < n
        PROVE  entries'[m].at < entries'[n].at
    <3>1. m \in 1..Len(entries) /\ entries'[m] = entries[m]
      BY <1>9, <2>2, <2>6
    <3>2. CASE n \in 1..Len(entries)
      BY <1>9, <2>2, <2>6, <3>1, <3>2
    <3>3. CASE n = Len(entries) + 1
      BY <1>9, <2>1, <2>2, <3>1, <3>3
    <3> QED
      BY <2>3, <3>2, <3>3
  <2>7. \A n \in 1..Len(entries') : pc' # "done" => entries'[n].at < cl'
    <3> SUFFICES ASSUME NEW n \in 1..Len(entries'), pc' # "done" PROVE entries'[n].at < cl'
      OBVIOUS
    <3>1. entries'[n].at <= cl /\ entries'[n].at \in Nat /\ cl' > cl
      BY <1>2, <1>3, <1>5, <2>5 DEF EntryOK
    <3> QED
      BY <1>2, <3>1
  <2>8. EntriesInv'
    BY <1>4, <2>2, <2>5, <2>6, <2>7 DEF EntriesInv
  <2>9. ASSUME NEW i \in LineStarts, Worded(Line(i)), cl' = 0 \/ i < cl'
        PROVE  \E n \in 1..Len(entries') : entries'[n].at = i
    <3>1. i < cl \/ i = cl
      BY <1>2, <1>5, <2>9
    <3>2. CASE i < cl
      <4>1. PICK n \in 1..Len(entries) : entries[n].at = i
        BY <1>9, <2>9, <3>2
      <4>2. n \in 1..Len(entries') /\ entries'[n] = entries[n]
        BY <1>9, <2>2
      <4> QED
        BY <4>1, <4>2
    <3>3. CASE i = cl
      <4>1. Len(entries) + 1 \in 1..Len(entries')
        BY <1>9, <2>2
      <4> QED
        BY <2>1, <2>2, <3>3, <4>1
    <3> QED
      BY <3>1, <3>2, <3>3
  <2>10. Complete'
    BY <1>3, <1>4, <2>9 DEF Complete
  <2> QED
    BY <1>6, <1>7, <1>8, <2>8, <2>10 DEF TextInv
<1> QED
  BY <1>10, <1>11

-----------------------------------------------------------------------------
(* The steps *)

LEMMA InitOK == Init => TextInv
<1> SUFFICES ASSUME Init PROVE TextInv
  OBVIOUS
<1>1. PICK n \in 0..MaxText : text \in [1..n -> Chars]
  BY DEF Init
<1>2. text \in Seq(Chars) /\ Len(text) = n /\ n \in Nat /\ n <= MaxText
  BY <1>1, SizesAssumption, SeqDef
<1>3. /\ cl = 1 /\ nl = 1 /\ key_area \in Garbage /\ values_area = <<>> /\ p = 1
      /\ words = <<>> /\ entries = <<>> /\ pc = "line"
  BY DEF Init
<1>4. /\ <<>> \in Seq(Chars) /\ <<>> \in Seq(WordRecords) /\ <<>> \in Seq(EntryRecords)
      /\ Len(<<>>) = 0
  BY EmptySeq
<1>5. cl \in LineStarts
  BY <1>3 DEF LineStarts
<1>6. KeyedTo(0) = {}
  <2>1. \A i \in LineStarts : i >= 1
    BY <1>2 DEF LineStarts
  <2> QED
    BY <2>1, <1>2 DEF KeyedTo, LineStarts
<1>7. Types
  <2>1. p \in 1..Len(Area) + 1
    BY <1>3, <1>4 DEF Area
  <2>2. nl \in 0..Len(text) + 1
    BY <1>2, <1>3
  <2>3. key_area \in Seq(Classes)
    BY <1>3, GarbageAssumption
  <2>4. Len(values_area) <= MaxText /\ Len(words) <= MaxWordNum
    BY <1>3, <1>4, SizesAssumption
  <2> QED
    BY <1>2, <1>3, <1>4, <1>5, <2>1, <2>2, <2>3, <2>4 DEF Types
<1>8. InLine /\ InSides
  BY <1>3 DEF InLine, InSides
<1>9. KeyInv
  BY <1>3, <1>6 DEF KeyInv, KeyFrom
<1>10. EntriesInv
  BY <1>3, <1>4 DEF EntriesInv
<1>11. Complete
  <2>1. \A i \in LineStarts : ~(i < cl)
    BY <1>2, <1>3 DEF LineStarts
  <2> QED
    BY <1>3, <2>1 DEF Complete
<1> QED
  BY <1>7, <1>8, <1>9, <1>10, <1>11 DEF TextInv

\* A comment or an empty line sets nothing and leaves nothing in key_area.
LEMMA SkippedLine ==
  ASSUME TextInv, cl \in LineStarts, Line(cl) = <<>> \/ text[cl] = "#"
  PROVE  ~Worded(Line(cl)) /\ ~Keyed(cl)
<1>1. text \in Seq(Chars) /\ cl \in 1..Len(text) + 1
  BY AfterIs DEF TextInv, Types
<1>2. CASE Line(cl) = <<>>
  <2>1. Len(Line(cl)) = 0 /\ Line(cl) \in Seq(Chars)
    BY <1>1, <1>2, LineIs, EmptySeq
  <2>2. ~ \E s \in 1..Len(Line(cl)) : Separators(Line(cl)) = {s}
    BY <2>1
  <2>3. Cardinality(Separators(Line(cl))) # 1
    BY <2>1, <2>2, SeparatorsAre
  <2> QED
    BY <1>2, <2>3 DEF Worded, Keyed
<1>3. CASE Line(cl) # <<>> /\ text[cl] = "#"
  BY <1>1, <1>3, LineIs DEF Worded, Keyed
<1> QED
  BY <1>2, <1>3

LEMMA ReadlineStep ==
  ASSUME TextInv, readline
  PROVE  TextInv'
<1>1. /\ pc = "line" /\ cl \in LineStarts /\ text \in Seq(Chars)
      /\ KeyFrom(key_area, KeyedTo(cl - 1))
  BY DEF readline, TextInv, Types, KeyInv
<1>2. /\ nl' = After(cl)
      /\ UNCHANGED <<text, key_area, values_area, p, words, key, entries>>
  BY DEF readline, After
<1>3. CASE (Line(cl) = <<>> \/ text[cl] = "#") /\ GoNext(nl')
  <2>1. ~Worded(Line(cl)) /\ ~Keyed(cl)
    BY <1>1, <1>3, SkippedLine
  <2>2. KeyFrom(key_area, KeyedTo(cl))
    <3>1. KeyedTo(cl) = KeyedTo(cl - 1)
      BY <1>1, <2>1, KeyedUpTo
    <3> QED
      BY <1>1, <3>1
  <2>3. words \in Seq(WordRecords) /\ Len(words) <= MaxWordNum /\ p \in 1..Len(values_area) + 1
    BY <1>1 DEF TextInv, Types, Area
  <2> QED
    BY <1>1, <1>2, <1>3, <2>1, <2>2, <2>3, LineDone
<1>4. CASE Line(cl) # <<>> /\ text[cl] # "#" /\ pc' = "split" /\ cl' = cl
  <2>1. /\ LineStarts' = LineStarts /\ \A i : Line(i)' = Line(i) /\ After(i)' = After(i)
        /\ \A c : KeyedTo(c)' = KeyedTo(c)
        /\ \A area, S : KeyFrom(area, S)' = KeyFrom(area, S)
        /\ \A e : EntryOK(e)' = EntryOK(e)
    BY <1>2, TextSame
  <2>2. nl' \in 0..Len(text) + 1
    BY <1>1, <1>2, AfterIs
  <2>3. Types'
    <3>1. Area' = Area
      BY <1>1, <1>2, <1>4 DEF Area
    <3> QED
      BY <1>1, <1>2, <1>4, <2>1, <2>2, <3>1 DEF TextInv, Types
  <2>4. InLine' /\ InSides'
    BY <1>2, <1>4, <2>1 DEF InLine, InSides
  <2>5. KeyInv'
    <3>1. KeyFrom(key_area, KeyedTo(cl - 1))'
      BY <1>1, <1>2, <1>4, <2>1
    <3> QED
      BY <1>4, <3>1 DEF KeyInv
  <2>6. EntriesInv' /\ Complete'
    BY <1>1, <1>2, <1>4, <2>1 DEF TextInv, EntriesInv, Complete
  <2> QED
    BY <2>3, <2>4, <2>5, <2>6 DEF TextInv
<1> QED
  BY <1>2, <1>3, <1>4 DEF readline

\* What stands before the one separator of a line.
LEMMA BeforeIs ==
  ASSUME NEW line \in Seq(Chars), NEW s \in 1..Len(line), Separators(line) = {s}
  PROVE  /\ Before(line) = 1..s - 1 /\ line[s] = ":"
         /\ \A i \in 1..Len(line) : line[i] = ":" => i = s
         /\ s > 1 => Max(Before(line)) = s - 1
<1>1. Len(line) \in Nat /\ DOMAIN line = 1..Len(line)
  BY LenProperties
<1>2. Before(line) = 1..s - 1
  BY <1>1 DEF Before
<1>3. line[s] = ":" /\ \A i \in 1..Len(line) : line[i] = ":" => i = s
  BY <1>1 DEF Separators
<1>4. ASSUME s > 1 PROVE Max(Before(line)) = s - 1
  <2>1. (1..s - 1) \in SUBSET Nat /\ s - 1 \in 1..s - 1 /\ \A y \in 1..s - 1 : y <= s - 1
    BY <1>1, <1>4
  <2> QED
    BY <1>2, <2>1, MaxIs
<1> QED
  BY <1>2, <1>3, <1>4

\* str_split2 writes key_area, or a line that begins with its separator leaves it.
LEMMA SplitKey ==
  ASSUME TextInv, pc = "split", NEW s \in 1..Len(Line(cl)), Separators(Line(cl)) = {s}
  PROVE  LET area == IF s > 1 THEN SubSeq(Line(cl), 1, s - 1) ELSE key_area
         IN  /\ area \in Seq(Classes) /\ (Len(area) <= MaxText \/ area \in Garbage)
             /\ KeyFrom(area, KeyedTo(cl))
<1>1. /\ text \in Seq(Chars) /\ cl \in LineStarts /\ cl \in 1..Len(text) + 1
      /\ Line(cl) # <<>> /\ text[cl] # "#" /\ Len(text) \in Nat /\ Len(text) <= MaxText
      /\ key_area \in Seq(Classes) /\ (Len(key_area) <= MaxText \/ key_area \in Garbage)
      /\ KeyFrom(key_area, KeyedTo(cl - 1))
  BY AfterIs, TextIs DEF TextInv, Types, InLine, KeyInv
<1>2. /\ Line(cl) \in Seq(Chars) /\ Len(Line(cl)) = LineEnd(cl) - cl
      /\ Line(cl)[1] = text[cl] /\ cl <= Len(text) /\ LineEnd(cl) \in cl..Len(text) + 1
  BY <1>1, LineIs, LineEndIs
<1>3. /\ Before(Line(cl)) = 1..s - 1 /\ Line(cl)[s] = ":"
      /\ \A i \in 1..Len(Line(cl)) : Line(cl)[i] = ":" => i = s
      /\ s > 1 => Max(Before(Line(cl))) = s - 1
  BY <1>2, BeforeIs
<1>4. Keyed(cl) <=> s > 1
  <2>1. Cardinality(Separators(Line(cl))) = 1
    BY <1>2, SeparatorsAre
  <2>2. text[cl] = ":" <=> s = 1
    BY <1>1, <1>2, <1>3
  <2> QED
    BY <1>1, <1>2, <2>1, <2>2 DEF Keyed
<1>5. CASE s > 1
  <2> DEFINE area == SubSeq(Line(cl), 1, s - 1)
  <2>1. /\ area \in Seq(Chars) /\ Len(area) = s - 1
    <3>1. s - 1 \in Int /\ 1 \in Int /\ \A i \in 1..s - 1 : Line(cl)[i] \in Chars
      BY <1>2, ElementOfSeq
    <3>2. area \in Seq(Chars) /\ Len(area) = IF 1 <= s - 1 THEN s - 1 - 1 + 1 ELSE 0
      BY <3>1, SubSeqProperties
    <3> QED
      BY <1>2, <1>5, <3>2
  <2>2. area \in Seq(Classes)
    BY <2>1, CharsAssumption, SeqMonotonic
  <2>3. Len(area) <= MaxText
    BY <1>1, <1>2, <2>1, SizesAssumption
  <2>4. KeyedTo(cl) # {} /\ Max(KeyedTo(cl)) = cl
    <3>1. cl \in KeyedTo(cl) /\ \A i \in KeyedTo(cl) : i <= cl
      BY <1>1, <1>4, <1>5 DEF KeyedTo
    <3>2. KeyedTo(cl) \in SUBSET Nat
      BY <1>1 DEF KeyedTo, LineStarts
    <3> QED
      BY <3>1, <3>2, MaxIs
  <2>5. area = SubSeq(text, cl, cl + (s - 1) - 1)
    <3>1. LineEnd(cl) - 1 \in 1..Len(text) /\ cl \in 1..Len(text)
      BY <1>1, <1>2
    <3>2. /\ 1 \in 1..(LineEnd(cl) - 1) - cl + 1
          /\ s - 1 \in 1..(LineEnd(cl) - 1) - cl + 1
      BY <1>1, <1>2, <1>5
    <3>3. SubSeq(SubSeq(text, cl, LineEnd(cl) - 1), 1, s - 1)
            = SubSeq(text, cl + 1 - 1, cl + (s - 1) - 1)
      BY <1>1, <3>1, <3>2, SubSeqOfSubSeq
    <3>4. cl + 1 - 1 = cl
      BY <1>1
    <3> QED
      BY <3>3, <3>4 DEF Line
  <2>6. KeyFrom(area, KeyedTo(cl))
    BY <1>3, <1>5, <2>4, <2>5 DEF KeyFrom
  <2> QED
    BY <1>5, <2>2, <2>3, <2>6
<1>6. CASE ~(s > 1)
  <2>1. KeyedTo(cl) = KeyedTo(cl - 1)
    BY <1>1, <1>4, <1>6, KeyedUpTo
  <2> QED
    BY <1>1, <1>6, <2>1
<1> QED
  BY <1>5, <1>6

LEMMA SplitStep ==
  ASSUME TextInv, str_split2
  PROVE  TextInv'
<1>1. /\ pc = "split" /\ cl \in LineStarts /\ cl \in 1..Len(text) + 1 /\ text \in Seq(Chars)
      /\ KeyFrom(key_area, KeyedTo(cl - 1)) /\ Line(cl) # <<>> /\ nl = After(cl)
      /\ Len(text) \in Nat /\ Len(text) <= MaxText
  BY AfterIs, TextIs DEF str_split2, TextInv, Types, KeyInv, InLine
<1>2. /\ Line(cl) \in Seq(Chars) /\ Len(Line(cl)) = LineEnd(cl) - cl
      /\ LineEnd(cl) \in cl..Len(text) + 1
  BY <1>1, LineIs, LineEndIs
<1>3. UNCHANGED <<text, nl, key, entries>>
  BY DEF str_split2
<1>4. CASE Cardinality(Separators(Line(cl))) # 1 /\ GoNext(nl)
           /\ UNCHANGED <<key_area, values_area, p, words>>
  <2>1. ~Worded(Line(cl)) /\ ~Keyed(cl)
    BY <1>4 DEF Worded, Keyed
  <2>2. KeyFrom(key_area, KeyedTo(cl))
    <3>1. KeyedTo(cl) = KeyedTo(cl - 1)
      BY <1>1, <2>1, KeyedUpTo
    <3> QED
      BY <1>1, <3>1
  <2>3. words \in Seq(WordRecords) /\ Len(words) <= MaxWordNum /\ p \in 1..Len(values_area) + 1
    BY <1>1 DEF TextInv, Types, Area
  <2>4. GoNext(After(cl)) /\ nl' = After(cl)
    BY <1>1, <1>3, <1>4
  <2> QED
    BY <1>1, <1>3, <1>4, <2>1, <2>2, <2>3, <2>4, LineDone
<1>5. CASE \E s \in Separators(Line(cl)) :
             /\ Separators(Line(cl)) = {s}
             /\ key_area' = IF s > 1 THEN SubSeq(Line(cl), 1, s - 1) ELSE key_area
             /\ values_area' = SubSeq(Line(cl), s + 1, Len(Line(cl)))
             /\ p' = 1 /\ words' = <<>> /\ pc' = "key" /\ UNCHANGED cl
  <2>1. PICK s \in Separators(Line(cl)) :
             /\ Separators(Line(cl)) = {s}
             /\ key_area' = IF s > 1 THEN SubSeq(Line(cl), 1, s - 1) ELSE key_area
             /\ values_area' = SubSeq(Line(cl), s + 1, Len(Line(cl)))
             /\ p' = 1 /\ words' = <<>> /\ pc' = "key" /\ cl' = cl
    BY <1>5
  <2>2. s \in 1..Len(Line(cl)) /\ Len(Line(cl)) \in Nat
    BY <1>2, <2>1, LenProperties DEF Separators
  <2>3. /\ key_area' \in Seq(Classes) /\ (Len(key_area') <= MaxText \/ key_area' \in Garbage)
        /\ KeyFrom(key_area', KeyedTo(cl))
    BY <1>1, <2>1, <2>2, SplitKey
  <2>4. values_area' \in Seq(Chars) /\ Len(values_area') <= MaxText
    <3>1. s + 1 \in Int /\ Len(Line(cl)) \in Int
          /\ \A i \in s + 1..Len(Line(cl)) : Line(cl)[i] \in Chars
      BY <1>2, <2>2, ElementOfSeq
    <3>2. /\ values_area' \in Seq(Chars)
          /\ Len(values_area') = IF s + 1 <= Len(Line(cl)) THEN Len(Line(cl)) - (s + 1) + 1 ELSE 0
      BY <2>1, <3>1, SubSeqProperties
    <3>3. Len(Line(cl)) <= MaxText
      BY <1>1, <1>2, SizesAssumption
    <3> QED
      BY <2>2, <3>2, <3>3, SizesAssumption
  <2>5. /\ LineStarts' = LineStarts /\ \A i : Line(i)' = Line(i) /\ After(i)' = After(i)
        /\ \A c : KeyedTo(c)' = KeyedTo(c)
        /\ \A area, S : KeyFrom(area, S)' = KeyFrom(area, S)
        /\ \A e : EntryOK(e)' = EntryOK(e)
    BY <1>3, TextSame
  <2>6. Area' = key_area'
    BY <2>1 DEF Area
  <2>7. WordsSoFar(words', Area', p') /\ words' \in Seq(WordRecords) /\ Len(words') = 0
    BY <2>1, <2>3, <2>6, NoWordsYet, EmptySeq
  <2>8. Types'
    <3>1. p' \in 1..Len(key_area') + 1
      BY <2>1, <2>3, LenProperties
    <3>2. /\ text' \in Seq(Chars) /\ Len(text') <= MaxText
          /\ pc' \in {"line", "split", "key", "values", "done"}
          /\ (pc' = "done" <=> cl' = 0) /\ (pc' # "done" => cl' \in LineStarts')
          /\ nl' \in 0..Len(text') + 1
      BY <1>1, <1>3, <2>1, <2>5 DEF TextInv, Types
    <3>3. Len(words') <= MaxWordNum
      BY <2>7, SizesAssumption
    <3> QED
      BY <2>3, <2>4, <2>6, <2>7, <3>1, <3>2, <3>3 DEF Types
  <2>9. InLine'
    <3>1. Line(cl) # <<>> /\ text[cl] # "#" /\ nl = After(cl)
      BY <1>1 DEF TextInv, InLine
    <3> QED
      BY <1>3, <2>1, <2>5, <3>1 DEF InLine
  <2>10. InSides'
    <3>1. \E t \in 1..Len(Line(cl)) : Separators(Line(cl)) = {t}
                                 /\ (t > 1 => key_area' = SubSeq(Line(cl), 1, t - 1))
      BY <2>1, <2>2
    <3>2. Separators(Line(cl))' = Separators(Line(cl))
      BY <2>1, <2>5 DEF Separators
    <3>3. Line(cl)' = Line(cl)
      BY <2>1, <2>5
    <3>4. (\E t \in 1..Len(Line(cl)) : Separators(Line(cl)) = {t}
                 /\ (t > 1 => key_area = SubSeq(Line(cl), 1, t - 1)))'
      BY <3>1, <3>2, <3>3
    <3>5. WordsSoFar(words, Area, p)'
      BY <2>7
    <3>6. Len(words') <= 1 /\ pc' = "key"
      BY <2>1, <2>7
    <3> QED
      BY <3>4, <3>5, <3>6 DEF InSides
  <2>11. KeyInv'
    BY <2>1, <2>3, <2>5 DEF KeyInv
  <2>12. EntriesInv' /\ Complete'
    BY <1>1, <1>3, <2>1, <2>5 DEF TextInv, EntriesInv, Complete
  <2> QED
    BY <2>8, <2>9, <2>10, <2>11, <2>12 DEF TextInv
<1> QED
  BY <1>4, <1>5 DEF str_split2

\* A word more of the side at work.
LEMMA WordStep ==
  ASSUME TextInv, NEW max \in Nat, max <= MaxWordNum, pc \in {"key", "values"},
         pc = "key" => max = 1, NextWord(max)
  PROVE  TextInv'
<1>1. /\ UNCHANGED <<text, cl, nl, key_area, values_area, key, entries, pc>> /\ Area' = Area
  BY DEF NextWord, Area
<1>2. Area \in Seq(Classes)
  <2>1. Seq(Chars) \subseteq Seq(Classes)
    BY CharsAssumption, SeqMonotonic
  <2> QED
    BY <2>1 DEF TextInv, Types, Area
<1>3. WordsSoFar(words', Area, p') /\ Len(words') <= max
  BY <1>2, NextWordStep DEF TextInv, InSides
<1>4. /\ words' \in Seq(WordRecords) /\ Len(words') \in Nat /\ p' \in 1..Len(Area) + 1
  BY <1>3, LenProperties DEF WordsSoFar
<1>5. /\ LineStarts' = LineStarts /\ \A i : Line(i)' = Line(i) /\ After(i)' = After(i)
      /\ \A c : KeyedTo(c)' = KeyedTo(c)
      /\ \A area, S : KeyFrom(area, S)' = KeyFrom(area, S)
      /\ \A e : EntryOK(e)' = EntryOK(e)
  BY <1>1, TextSame
<1>6. Types'
  <2>1. Len(words') <= MaxWordNum
    BY <1>3, <1>4, SizesAssumption
  <2> QED
    BY <1>1, <1>4, <1>5, <2>1 DEF TextInv, Types
<1>7. InLine' /\ KeyInv' /\ EntriesInv' /\ Complete'
  BY <1>1, <1>5 DEF TextInv, InLine, KeyInv, EntriesInv, Complete
<1>8. InSides'
  <2>1. Line(cl)' = Line(cl) /\ Separators(Line(cl))' = Separators(Line(cl))
    BY <1>1, <1>5 DEF Separators
  <2>2. pc' = "key" => Len(words') <= 1
    BY <1>1, <1>3
  <2> QED
    BY <1>1, <1>3, <2>1, <2>2 DEF TextInv, InSides
<1> QED
  BY <1>6, <1>7, <1>8 DEF TextInv

\* When to_words has found no key, there is none.
LEMMA KeyStep ==
  ASSUME TextInv, Key
  PROVE  TextInv'
<1>1. /\ pc = "key" /\ cl \in LineStarts /\ cl \in 1..Len(text) + 1 /\ text \in Seq(Chars)
      /\ KeyFrom(key_area, KeyedTo(cl)) /\ nl = After(cl) /\ Area = key_area
      /\ key_area \in Seq(Classes) /\ values_area \in Seq(Chars)
      /\ words \in Seq(WordRecords) /\ Len(words) \in Nat /\ Len(words) <= 1
      /\ WordsSoFar(words, key_area, p)
  BY AfterIs, LenProperties DEF Key, TextInv, Types, KeyInv, InLine, InSides, Area
<1>2. UNCHANGED <<text, nl, key_area, values_area, entries>> /\ NoMore(1)
  BY DEF Key
<1>3. AllWords(words, key_area, 1)
  BY <1>1, <1>2, NoMoreIs
<1>4. CASE Len(words) # 1 /\ GoNext(nl) /\ UNCHANGED <<key, p, words>>
  <2>1. Len(words) = 0 /\ p = 1
    <3>1. Len(words) \in Nat /\ Len(words) <= 1
      BY <1>1
    <3>2. Len(words) # 1
      BY <1>4
    <3>3. \A n \in Nat : n <= 1 /\ n # 1 => n = 0
      OBVIOUS
    <3>4. Len(words) = 0
      BY <3>1, <3>2, <3>3, Zenon
    <3> QED
      BY <1>1, <3>4 DEF WordsSoFar
  <2>2. \A j \in DOMAIN key_area : key_area[j] \notin Inside
    <3>1. DOMAIN words = 1..Len(words)
      BY <1>1, LenProperties
    <3> QED
      BY <1>3, <2>1, <3>1 DEF AllWords
  <2>3. PICK s \in 1..Len(Line(cl)) :
          Separators(Line(cl)) = {s} /\ (s > 1 => key_area = SubSeq(Line(cl), 1, s - 1))
    BY <1>1 DEF TextInv, InSides
  <2>4. Line(cl) \in Seq(Chars) /\ Len(Line(cl)) \in Nat
    BY <1>1, LineIs, LenProperties
  <2>5. Before(Line(cl)) = 1..s - 1
    BY <2>3, <2>4, BeforeIs
  <2>6. ASSUME NEW i \in 1..s - 1 PROVE Line(cl)[i] \notin Inside
    <3>1. s > 1 /\ key_area = SubSeq(Line(cl), 1, s - 1)
      BY <2>3, <2>4, <2>6
    <3>2. /\ 1 \in Int /\ s - 1 \in Int /\ 1 <= s - 1
          /\ \A k \in 1..s - 1 : Line(cl)[k] \in Chars
      BY <2>3, <2>4, <3>1, ElementOfSeq
    <3>3. /\ Len(key_area) = IF 1 <= s - 1 THEN s - 1 - 1 + 1 ELSE 0
          /\ \A k \in 1..s - 1 - 1 + 1 : key_area[k] = Line(cl)[1 + k - 1]
      BY <3>1, <3>2, SubSeqProperties
    <3>4. Len(key_area) = s - 1 /\ key_area[i] = Line(cl)[i]
      BY <2>3, <2>4, <2>6, <3>1, <3>3
    <3>5. i \in DOMAIN key_area
      BY <1>1, <2>6, <3>4, LenProperties
    <3> QED
      BY <2>2, <3>4, <3>5
  <2>7. ~Worded(Line(cl))
    BY <2>5, <2>6 DEF Worded
  <2>8. p' \in 1..Len(values_area) + 1
    BY <1>1, <1>4, <2>1, LenProperties
  <2>9. GoNext(After(cl)) /\ nl' = After(cl)
    BY <1>1, <1>2, <1>4
  <2>10. words' \in Seq(WordRecords) /\ Len(words') <= MaxWordNum
    BY <1>4 DEF TextInv, Types
  <2> QED
    BY <1>1, <1>2, <2>7, <2>8, <2>9, <2>10, LineDone
<1>5. CASE /\ Len(words) = 1 /\ key' = words[1]
           /\ p' = 1 /\ words' = <<>> /\ pc' = "values" /\ UNCHANGED cl
  <2>1. key' \in WordRecords
    <3>1. 1 \in 1..Len(words) /\ words \in Seq(WordRecords)
      BY <1>1, <1>5
    <3>2. words[1] \in WordRecords
      BY <3>1, ElementOfSeq
    <3> QED
      BY <1>5, <3>2
  <2>2. AllWords(<<key'>>, key_area, 1)
    <3>1. <<key'>> \in Seq(WordRecords) /\ Len(<<key'>>) = 1 /\ <<key'>>[1] = key'
      BY <2>1
    <3>2. <<key'>> = words
      BY <1>1, <1>5, <3>1, SeqEqual
    <3> QED
      BY <1>3, <3>2
  <2>3. /\ LineStarts' = LineStarts /\ \A i : Line(i)' = Line(i) /\ After(i)' = After(i)
        /\ \A c : KeyedTo(c)' = KeyedTo(c)
        /\ \A area, S : KeyFrom(area, S)' = KeyFrom(area, S)
        /\ \A e : EntryOK(e)' = EntryOK(e)
    BY <1>2, TextSame
  <2>4. values_area \in Seq(Classes)
    BY <1>1, CharsAssumption, SeqMonotonic
  <2>5. Area' = values_area
    BY <1>2, <1>5 DEF Area
  <2>6. WordsSoFar(words', Area', p') /\ words' \in Seq(WordRecords) /\ Len(words') = 0
    BY <1>5, <2>4, <2>5, NoWordsYet, EmptySeq
  <2>7. Types'
    <3>1. p' \in 1..Len(values_area) + 1
      BY <1>1, <1>5, LenProperties
    <3>2. Len(words') <= MaxWordNum
      BY <2>6, SizesAssumption
    <3> QED
      BY <1>1, <1>2, <1>5, <2>3, <2>5, <2>6, <3>1, <3>2 DEF TextInv, Types
  <2>8. InLine' /\ KeyInv'
    BY <1>1, <1>2, <1>5, <2>3 DEF TextInv, InLine, KeyInv
  <2>9. InSides'
    <3>1. Line(cl)' = Line(cl) /\ Separators(Line(cl))' = Separators(Line(cl))
      BY <1>5, <2>3 DEF Separators
    <3>2. (\E t \in 1..Len(Line(cl)) : Separators(Line(cl)) = {t}
                 /\ (t > 1 => key_area = SubSeq(Line(cl), 1, t - 1)))'
      BY <1>1, <1>2, <3>1 DEF TextInv, InSides
    <3>3. WordsSoFar(words, Area, p)'
      BY <2>6
    <3>4. (key \in WordRecords /\ AllWords(<<key>>, key_area, 1))' /\ pc' = "values"
      BY <1>2, <1>5, <2>1, <2>2
    <3> QED
      BY <3>2, <3>3, <3>4 DEF InSides
  <2>10. EntriesInv' /\ Complete'
    BY <1>1, <1>2, <1>5, <2>3 DEF TextInv, EntriesInv, Complete
  <2> QED
    BY <2>7, <2>8, <2>9, <2>10 DEF TextInv
<1> QED
  BY <1>4, <1>5 DEF Key

LEMMA ValuesStep ==
  ASSUME TextInv, Values
  PROVE  TextInv'
<1> DEFINE e == [at |-> cl, key |-> key, key_area |-> key_area,
                 values |-> words, values_area |-> values_area]
<1>1. /\ pc = "values" /\ cl \in LineStarts /\ cl \in 1..Len(text) + 1 /\ text \in Seq(Chars)
      /\ KeyFrom(key_area, KeyedTo(cl)) /\ nl = After(cl) /\ Area = values_area
      /\ key_area \in Seq(Classes) /\ values_area \in Seq(Chars) /\ p \in 1..Len(values_area) + 1
      /\ words \in Seq(WordRecords) /\ Len(words) <= MaxWordNum
      /\ WordsSoFar(words, values_area, p)
      /\ key \in WordRecords /\ AllWords(<<key>>, key_area, 1)
      /\ Line(cl) # <<>> /\ text[cl] # "#"
      /\ \E s \in 1..Len(Line(cl)) : Separators(Line(cl)) = {s}
  BY AfterIs DEF Values, TextInv, Types, KeyInv, InLine, InSides, Area
<1>2. /\ UNCHANGED <<text, nl, key_area, values_area, p, words, key>>
      /\ NoMore(MaxWordNum) /\ GoNext(nl) /\ entries' = Append(entries, e)
  BY DEF Values
<1>3. AllWords(words, values_area, MaxWordNum)
  <2>1. values_area \in Seq(Classes)
    BY <1>1, CharsAssumption, SeqMonotonic
  <2> QED
    BY <1>1, <1>2, <2>1, SizesAssumption, NoMoreIs
<1>4. e \in EntryRecords
  BY <1>1, TextIs DEF EntryRecords
<1>5. /\ e.at = cl /\ e.key = key /\ e.key_area = key_area
      /\ e.values = words /\ e.values_area = values_area
  OBVIOUS
<1> HIDE DEF e
<1>6. EntryOK(e)
  BY <1>1, <1>3, <1>5 DEF EntryOK
<1>7. GoNext(After(cl)) /\ nl' = After(cl)
  BY <1>1, <1>2
<1> QED
  BY <1>1, <1>2, <1>4, <1>5, <1>6, <1>7, LineDone

LEMMA NextOK == TextInv /\ [Next]_vars => TextInv'
<1> SUFFICES ASSUME TextInv, [Next]_vars PROVE TextInv'
  OBVIOUS
<1>1. CASE readline
  BY <1>1, ReadlineStep
<1>2. CASE str_split2
  BY <1>2, SplitStep
<1>3. CASE KeyWord
  <2>1. pc = "key" /\ NextWord(1) /\ 1 <= MaxWordNum
    BY <1>3, SizesAssumption DEF KeyWord
  <2> QED
    BY <2>1, WordStep
<1>4. CASE Key
  BY <1>4, KeyStep
<1>5. CASE ValuesWord
  <2>1. pc = "values" /\ NextWord(MaxWordNum) /\ MaxWordNum \in Nat /\ MaxWordNum <= MaxWordNum
    BY <1>5, SizesAssumption DEF ValuesWord
  <2> QED
    BY <2>1, WordStep
<1>6. CASE Values
  BY <1>6, ValuesStep
<1>7. CASE UNCHANGED vars
  <2>1. UNCHANGED <<text, cl, nl, key_area, values_area, p, words, key, entries, pc>>
    BY <1>7 DEF vars
  <2>2. /\ LineStarts' = LineStarts /\ \A i : Line(i)' = Line(i) /\ After(i)' = After(i)
        /\ \A c : KeyedTo(c)' = KeyedTo(c)
        /\ \A area, S : KeyFrom(area, S)' = KeyFrom(area, S)
        /\ \A e : EntryOK(e)' = EntryOK(e)
    BY <2>1, TextSame
  <2>3. Area' = Area /\ Line(cl)' = Line(cl) /\ Separators(Line(cl))' = Separators(Line(cl))
    BY <2>1, <2>2 DEF Area, Separators
  <2>4. Types' /\ InLine' /\ KeyInv' /\ EntriesInv' /\ Complete'
    BY <2>1, <2>2, <2>3 DEF TextInv, Types, InLine, KeyInv, EntriesInv, Complete
  <2>5. InSides'
    BY <2>1, <2>3 DEF TextInv, InSides
  <2> QED
    BY <2>4, <2>5 DEF TextInv
<1> QED
  BY <1>1, <1>2, <1>3, <1>4, <1>5, <1>6, <1>7 DEF Next

-----------------------------------------------------------------------------
(* The theorems *)

\* to_dict keeps the invariant at every step, on every text.
THEOREM TextCorrect == Spec => []TextInv
<1>1. Init => TextInv
  BY InitOK
<1>2. TextInv /\ [Next]_vars => TextInv'
  BY NextOK
<1> QED
  BY <1>1, <1>2, PTL DEF Spec

LEMMA EntryIs ==
  ASSUME TextInv, NEW n \in DOMAIN entries
  PROVE  /\ n \in 1..Len(entries) /\ EntryOK(entries[n])
         /\ DOMAIN entries = 1..Len(entries)
BY LenProperties DEF TextInv, EntriesInv

\* The words a dict holds are those of the two sides of its line: none of
\* them is cut by a stop inside it, merged with the next or passed over,
\* whatever the text and however long (to_words).
THEOREM WordsFound == Spec => []WordsExact
<1>1. TextInv => WordsExact
  BY EntryIs DEF WordsExact, EntryOK
<1> QED
  BY <1>1, TextCorrect, PTL

\* Both pointers stay in the text, and every line that sets something gets
\* exactly one dict, in the order of the lines (readline, to_dict).
THEOREM LinesKept == Spec => []NoLineLost
<1>1. ASSUME TextInv PROVE TypeOK
  <2>1. /\ text \in Seq(Chars) /\ Len(text) \in Nat
        /\ entries \in Seq(EntryRecords) /\ Len(entries) \in Nat
    BY <1>1, TextIs, LenProperties DEF TextInv, Types, EntriesInv
  <2>2. cl \in 0..Len(text) + 1
    <3>1. cl = 0 \/ cl \in LineStarts
      BY <1>1 DEF TextInv, Types
    <3> QED
      BY <2>1, <3>1 DEF LineStarts
  <2>3. Len(entries) <= Len(text)
    <3>1. CASE Len(entries) = 0
      BY <2>1, <3>1
    <3>2. CASE Len(entries) > 0
      <4>1. Len(entries) \in 1..Len(entries)
        BY <2>1, <3>2
      <4>2. Len(entries) <= entries[Len(entries)].at /\ EntryOK(entries[Len(entries)])
        BY <1>1, <4>1 DEF TextInv, EntriesInv
      <4>3. /\ entries[Len(entries)].at \in LineStarts
            /\ Line(entries[Len(entries)].at) # <<>>
        BY <4>2 DEF EntryOK
      <4>4. entries[Len(entries)].at \in 1..Len(text) + 1
        BY <2>1, <4>3 DEF LineStarts
      <4>5. entries[Len(entries)].at <= Len(text)
        BY <2>1, <4>3, <4>4, LineIs
      <4> QED
        BY <2>1, <4>2, <4>4, <4>5
    <3> QED
      BY <2>1, <3>1, <3>2
  <2> QED
    BY <1>1, <2>2, <2>3 DEF TextInv, Types, TypeOK
<1>2. ASSUME TextInv, NEW n \in DOMAIN entries
      PROVE  LET line == Line(entries[n].at) IN
               line[1] # "#" /\ Cardinality(Separators(line)) = 1
  <2> DEFINE at == entries[n].at
  <2>1. /\ text \in Seq(Chars) /\ at \in LineStarts /\ Line(at) # <<>> /\ text[at] # "#"
        /\ \E s \in 1..Len(Line(at)) : Separators(Line(at)) = {s}
    BY <1>2, EntryIs DEF TextInv, Types, EntryOK
  <2> HIDE DEF at
  <2>2. at \in 1..Len(text) + 1
    BY <2>1, AfterIs
  <2>3. Line(at) \in Seq(Chars) /\ Line(at)[1] = text[at]
    BY <2>1, <2>2, LineIs
  <2>4. Cardinality(Separators(Line(at))) = 1
    BY <2>1, <2>3, SeparatorsAre
  <2>5. Line(at)[1] # "#"
    BY <2>1, <2>3
  <2> QED
    BY <2>4, <2>5 DEF at
<1>3. ASSUME TextInv
      PROVE  /\ \A m, n \in DOMAIN entries : m < n => entries[m].at < entries[n].at
             /\ pc = "done" => \A i \in LineStarts :
                  Setting(Line(i)) => \E n \in DOMAIN entries : entries[n].at = i
  <2>1. DOMAIN entries = 1..Len(entries)
    BY <1>3, LenProperties DEF TextInv, EntriesInv
  <2>2. \A line : Setting(line) => Worded(line)
    BY DEF Setting, Worded
  <2> QED
    BY <1>3, <2>1, <2>2 DEF TextInv, EntriesInv, Complete
<1>4. TextInv => NoLineLost
  BY <1>1, <1>2, <1>3 DEF NoLineLost
<1> QED
  BY <1>4, TextCorrect, PTL

\* The key of a dict is what stands before the separator of its own line, unless
\* nothing stands there: what earlier lines left in key_area is overwritten
\* (str_split2).
THEOREM KeysTraced == Spec => []OwnKey
<1>1. ASSUME TextInv, NEW n \in DOMAIN entries,
             NEW at, at = entries[n].at, text[at] # ":"
      PROVE  entries[n].key_area = SubSeq(text, at, at + Max(Before(Line(at))) - 1)
  <2>1. /\ text \in Seq(Chars) /\ at \in LineStarts /\ Line(at) # <<>> /\ text[at] # "#"
        /\ \E s \in 1..Len(Line(at)) : Separators(Line(at)) = {s}
        /\ KeyFrom(entries[n].key_area, KeyedTo(at))
    BY <1>1, EntryIs DEF TextInv, Types, EntryOK
  <2>2. at \in 1..Len(text) + 1
    BY <2>1, AfterIs
  <2>3. Line(at) \in Seq(Chars)
    BY <2>1, <2>2, LineIs
  <2>4. Keyed(at)
    <3>1. Cardinality(Separators(Line(at))) = 1
      BY <2>1, <2>3, SeparatorsAre
    <3> QED
      BY <1>1, <2>1, <3>1 DEF Keyed
  <2>5. KeyedTo(at) # {} /\ Max(KeyedTo(at)) = at
    <3>1. Len(text) \in Nat
      BY <2>1, LenProperties
    <3>2. KeyedTo(at) \in SUBSET Nat
      BY <3>1 DEF KeyedTo, LineStarts
    <3>3. at \in KeyedTo(at) /\ \A i \in KeyedTo(at) : i <= at
      BY <2>1, <2>2, <2>4, <3>1 DEF KeyedTo
    <3> QED
      BY <3>2, <3>3, MaxIs
  <2> QED
    BY <2>1, <2>5 DEF KeyFrom
<1>2. TextInv => OwnKey
  BY <1>1 DEF OwnKey
<1> QED
  BY <1>2, TextCorrect, PTL
=============================================================================
