---------------------------- MODULE McrStartProofs ----------------------------
(***************************************************************************)
(* Theorems about McrStart and the configuration reader of McrConfig, for  *)
(* every set of options and values, any number of lines, words, arguments  *)
(* and addresses, and whether or not socket() and listen() may fail.       *)
(***************************************************************************)
EXTENDS McrStart, FiniteSetTheorems, SequenceTheorems, TLAPS

-----------------------------------------------------------------------------
(* The inductive invariant of the reader *)

\* Who holds the descriptor, the list and the iterator follows from where
\* read_server_config is.
Holds ==
  /\ fd = IF pc \in {"open", "done"} THEN "closed" ELSE "open"
  /\ \/ pc \in {"open", "create"} /\ list = "none"
     \/ pc = "done" /\ list # "held"
     \/ pc \notin {"open", "create", "done"} /\ list = "held"
  /\ \/ pc = "assign" /\ iter = "held"
     \/ pc = "done" /\ iter # "held"
     \/ pc \notin {"assign", "done"} /\ iter = "none"
  /\ ret = "none" <=> pc # "done"

\* Before to_dict, and after a return with -1, nothing was made of a line.
Untouched ==
  pc \in {"open", "create", "read"} \/ ret = "-1" => at = 1 /\ dlist = <<>> /\ node = 0

\* The blocks there are: all of each line that came to a dict, and those
\* dict_init has so far.
Heap ==
  /\ \A i \in 1..MaxLines : i < at =>
       heap[i] = IF lines[i].sort = "skipped" THEN {} ELSE Blocks
  /\ \A i \in 1..MaxLines : i > at => heap[i] = {}
  /\ at \in 1..MaxLines =>
       \/ pc = "init" /\ \E k \in 0..2 + MaxWordNum : heap[at] = 1..k
       \/ pc = "words" /\ heap[at] = Blocks
       \/ pc \notin {"init", "words"} /\ heap[at] = {}

\* to_dict is in a line while it makes a dict of it, and leaves the lines
\* early only at one that needs a dict.  The buffer bounds them.
InLine ==
  /\ Len(lines) <= MaxLines
  /\ pc \in {"init", "words"} => at <= Len(lines) /\ lines[at].sort # "skipped"
  /\ /\ pc \in {"iterator", "assign", "crashed"} \/ ret = "0"
     /\ at <= Len(lines)
     => lines[at].sort # "skipped"

\* The list holds the settings that were read, in the order of the file.
Listed ==
  /\ Len(dlist) <= at - 1
  /\ \A n \in 1..Len(dlist) : lines[dlist[n]].sort = "setting"
  /\ \A m, n \in 1..Len(dlist) : m < n => dlist[m] < dlist[n]
  /\ pc # "done" => \A i \in 1..at - 1 : lines[i].sort = "setting" =>
                      \E n \in 1..Len(dlist) : dlist[n] = i
  /\ pc = "done" => dlist = <<>>

\* The first node dicts of the list whose key is o.
Applied(o) == {n \in 1..node : lines[dlist[n]].key = o}

\* In the loop over the list the last dict that was applied to an option decides.
Assigning ==
  pc = "assign" =>
    /\ node <= Len(dlist)
    /\ \A o \in Options :
         \/ Applied(o) = {} /\ sc[o] = Unset
         \/ \E n \in Applied(o) : /\ \A m \in Applied(o) : m <= n
                                  /\ sc[o] = lines[dlist[n]].value

\* The same after the list is gone, said of lines.
Assigned ==
  ret = "0" => \A o \in Options :
    LET counted == {i \in Settings(o) : i < at} IN
      \/ counted = {} /\ sc[o] = Unset
      \/ \E i \in counted : /\ \A j \in counted : j <= i
                            /\ sc[o] = lines[i].value

\* Until the loop over the list, and after -1, no option was set.
NoneSet ==
  pc # "assign" /\ ret # "0" => node = 0 /\ \A o \in Options : sc[o] = Unset

ReaderInv == /\ TypeOK /\ Holds /\ Untouched /\ Heap /\ InLine /\ Listed
             /\ Assigning /\ Assigned /\ NoneSet

\* The search for an address, and what main may rely on from then on.
SearchInv ==
  /\ step \in {"socket", "bind", "listen", "next"} => ai \in 1..addrs
  /\ step = "listen" => ai \in bindable
  /\ step \in {"daemon", "serving"} =>
       listening \in bindable /\ server_sock = "ok" /\ ai = 0 /\ addrs = 0
  /\ step \in {"resolve", "socket", "bind", "listen", "next", "daemon", "serving"} =>
       pc = "done"

StartInv == ReaderInv /\ StartTypeOK /\ OneServerSocket /\ SearchInv
-----------------------------------------------------------------------------
(* The reader *)

\* The dict of a line has blocks, and the last of them is the last word.
LEMMA BlockFacts ==
  /\ MaxLines \in Nat /\ MaxWordNum \in Nat /\ MaxWordNum >= 1
  /\ Blocks # {} /\ Max(Blocks) = 3 + MaxWordNum
<1>1. MaxLines \in Nat /\ MaxWordNum \in Nat /\ MaxWordNum >= 1
  BY LimitsAssumption
<1>2. 3 + MaxWordNum \in Blocks /\ \A y \in Blocks : 3 + MaxWordNum >= y
  BY <1>1 DEF Blocks
<1>3. \A x \in Blocks : (\A y \in Blocks : x >= y) => x = 3 + MaxWordNum
  BY <1>1, <1>2 DEF Blocks
<1> QED
  BY <1>1, <1>2, <1>3 DEF Max

\* dict_init takes its blocks in order: with k of them the next one is k + 1.
LEMMA NextBlock ==
  ASSUME NEW k \in Nat, heap[at] = 1..k
  PROVE  Block = k + 1
<1>1. Cardinality(1..k) = k
  BY FS_Interval
<1> QED
  BY <1>1 DEF Block

LEMMA InitReaderInv == Init => ReaderInv
<1> SUFFICES ASSUME Init PROVE ReaderInv
  OBVIOUS
<1>1. PICK n \in 0..MaxLines : lines \in [1..n -> Lines]
  BY DEF Init
<1>2. lines \in Seq(Lines) /\ Len(lines) = n
  BY <1>1, LimitsAssumption, SeqDef
<1>3. TypeOK
  BY <1>2, BlockFacts, EmptySeq DEF Init, TypeOK
<1> QED
  BY <1>2, <1>3, BlockFacts
     DEF Init, ReaderInv, Holds, Untouched, Heap, InLine, Listed, Assigning,
         Assigned, NoneSet

\* Opening, allocating the list and reading touch no line.
LEMMA OpenFileInv ==
  ASSUME ReaderInv, OpenFile \/ Create \/ ReadFile
  PROVE  ReaderInv'
<1> USE DEF OpenFile, Create, ReadFile, Return, dictVars
<1>1. TypeOK'
  BY DEF ReaderInv, TypeOK
<1>2. Holds'
  BY DEF ReaderInv, TypeOK, Holds
<1>3. /\ pc \in {"open", "create", "read"} /\ pc' \in {"create", "read", "line", "done"}
      /\ UNCHANGED <<lines, at, heap, dlist, node, sc>>
      /\ ret' # "0" /\ at = 1 /\ dlist = <<>> /\ node = 0 /\ ret = "none"
  BY DEF ReaderInv, Untouched, Holds
<1>4. Untouched' /\ NoneSet'
  BY <1>3 DEF ReaderInv, Untouched, NoneSet
<1>5. Heap'
  BY <1>3 DEF ReaderInv, Heap
<1>6. InLine' /\ Listed'
  BY <1>3 DEF ReaderInv, InLine, Listed
<1>7. Assigning' /\ Assigned'
  BY <1>3 DEF Assigning, Assigned
<1> QED
  BY <1>1, <1>2, <1>4, <1>5, <1>6, <1>7 DEF ReaderInv

\* One more line at the end of a list of lines before it.
LEMMA AppendLine ==
  ASSUME NEW k \in Nat \ {0}, NEW s \in Seq(1..k - 1),
         \A m, n \in 1..Len(s) : m < n => s[m] < s[n]
  PROVE  /\ Append(s, k) \in Seq(1..k) /\ Len(s) \in Nat /\ s \in Seq(1..k)
         /\ Len(Append(s, k)) = Len(s) + 1
         /\ \A n \in 1..Len(s) : Append(s, k)[n] = s[n]
         /\ Append(s, k)[Len(s) + 1] = k
         /\ \A m, n \in 1..Len(s) + 1 : m < n => Append(s, k)[m] < Append(s, k)[n]
<1>1. s \in Seq(1..k)
  <2>1. 1..k - 1 \subseteq 1..k
    OBVIOUS
  <2> QED
    BY <2>1, SeqMonotonic, Zenon
<1>2. Len(s) \in Nat /\ \A n \in 1..Len(s) : s[n] \in 1..k - 1
  BY LenProperties, ElementOfSeq
<1>3. k \in 1..k
  OBVIOUS
<1> DEFINE t == Append(s, k)
<1>4. /\ t \in Seq(1..k) /\ Len(t) = Len(s) + 1 /\ t[Len(s) + 1] = k
      /\ \A n \in 1..Len(s) : t[n] = s[n]
  BY <1>1, <1>3, AppendProperties
<1> HIDE DEF t
<1>5. \A m, n \in 1..Len(s) + 1 : m < n => t[m] < t[n]
  <2> SUFFICES ASSUME NEW m \in 1..Len(s) + 1, NEW n \in 1..Len(s) + 1, m < n
               PROVE  t[m] < t[n]
    OBVIOUS
  <2>1. m \in 1..Len(s)
    BY <1>2
  <2>0. t[m] = s[m] /\ s[m] \in 1..k - 1
    BY <1>2, <1>4, <2>1
  <2>2. CASE n = Len(s) + 1
    BY <1>2, <1>4, <2>0, <2>2
  <2>3. CASE n \in 1..Len(s)
    BY <1>2, <1>4, <2>1, <2>3
  <2> QED
    BY <1>2, <2>2, <2>3
<1> QED
  BY <1>1, <1>2, <1>4, <1>5 DEF t

\* A step to the next line leaves what was made of the lines before it.
LEMMA LineEnds ==
  ASSUME ReaderInv, at <= Len(lines), UNCHANGED <<lines, heap, list, iter, node, fd, sc, ret>>,
         pc \in {"line", "words"}, pc' = "line", at' = at + 1,
         heap[at] = IF lines[at].sort = "skipped" THEN {} ELSE Blocks,
         IF lines[at].sort = "setting" THEN dlist' = Append(dlist, at)
                                       ELSE dlist' = dlist
  PROVE  ReaderInv'
<1>1. /\ at \in Nat /\ at' \in 1..Len(lines) + 1 /\ lines \in Seq(Lines) /\ Len(lines) \in Nat
      /\ at \in 1..MaxLines /\ Len(lines) <= MaxLines /\ MaxLines \in Nat
  BY BlockFacts, LenProperties DEF ReaderInv, TypeOK, InLine
<1>2. /\ dlist \in Seq(1..at) /\ Len(dlist) \in Nat /\ Len(dlist') \in Nat /\ dlist' \in Seq(1..at)
      /\ \/ lines[at].sort # "setting" /\ dlist' = dlist
         \/ /\ lines[at].sort = "setting" /\ Len(dlist') = Len(dlist) + 1
            /\ \A n \in 1..Len(dlist) : dlist'[n] = dlist[n]
            /\ dlist'[Len(dlist) + 1] = at
            /\ \A m, n \in 1..Len(dlist') : m < n => dlist'[m] < dlist'[n]
  <2>1. /\ at \in Nat \ {0} /\ dlist \in Seq(1..at - 1)
        /\ \A m, n \in 1..Len(dlist) : m < n => dlist[m] < dlist[n]
    BY <1>1 DEF ReaderInv, TypeOK, Listed
  <2> DEFINE t == Append(dlist, at)
  <2>2. /\ t \in Seq(1..at) /\ Len(dlist) \in Nat /\ dlist \in Seq(1..at)
        /\ Len(t) = Len(dlist) + 1
        /\ \A n \in 1..Len(dlist) : t[n] = dlist[n]
        /\ t[Len(dlist) + 1] = at
        /\ \A m, n \in 1..Len(dlist) + 1 : m < n => t[m] < t[n]
    BY <2>1, AppendLine
  <2>3. IF lines[at].sort = "setting" THEN dlist' = t ELSE dlist' = dlist
    OBVIOUS
  <2> HIDE DEF t
  <2>4. CASE lines[at].sort = "setting"
    <3>1. dlist' = t /\ Len(t) \in Nat
      BY <2>2, <2>3, <2>4
    <3> QED
      BY <2>2, <2>4, <3>1
  <2> QED
    BY <2>2, <2>3, <2>4
<1>3. at' - 1 = at
  BY <1>1
<1>4. TypeOK'
  BY <1>1, <1>2, <1>3 DEF ReaderInv, TypeOK
<1>5. Holds' /\ Untouched' /\ NoneSet' /\ Assigning' /\ Assigned' /\ InLine'
  BY DEF ReaderInv, Holds, Untouched, NoneSet, Assigning, Assigned, InLine
<1>6. Heap'
  <2>1. \A i \in 1..MaxLines : i < at' =>
          heap[i] = IF lines[i].sort = "skipped" THEN {} ELSE Blocks
    BY <1>1 DEF ReaderInv, Heap
  <2>2. \A i \in 1..MaxLines : i >= at' => heap[i] = {}
    BY <1>1 DEF ReaderInv, Heap
  <2> QED
    BY <1>1, <2>1, <2>2 DEF Heap
<1>7. Listed'
  <2>1. /\ Len(dlist) <= at - 1 /\ pc' # "done"
        /\ \A n \in 1..Len(dlist) : lines[dlist[n]].sort = "setting"
        /\ \A m, n \in 1..Len(dlist) : m < n => dlist[m] < dlist[n]
        /\ \A i \in 1..at - 1 : lines[i].sort = "setting" =>
             \E n \in 1..Len(dlist) : dlist[n] = i
    BY DEF ReaderInv, Listed
  <2>2. CASE lines[at].sort = "setting"
    <3>1. /\ \A n \in 1..Len(dlist') : n \in 1..Len(dlist) \/ n = Len(dlist) + 1
          /\ Len(dlist') = Len(dlist) + 1
      BY <1>2, <2>2
    <3>2. \A m, n \in 1..Len(dlist') : m < n => dlist'[m] < dlist'[n]
      BY <1>2, <2>2
    <3>3. \A i \in 1..at' - 1 : lines[i].sort = "setting" =>
            \E n \in 1..Len(dlist') : dlist'[n] = i
      <4> SUFFICES ASSUME NEW i \in 1..at' - 1, lines[i].sort = "setting"
                   PROVE  \E n \in 1..Len(dlist') : dlist'[n] = i
        OBVIOUS
      <4>1. CASE i = at
        <5>1. Len(dlist) + 1 \in 1..Len(dlist')
          BY <2>1, <3>1
        <5> QED
          BY <1>2, <2>2, <4>1, <5>1
      <4>2. CASE i \in 1..at - 1
        <5>1. PICK n \in 1..Len(dlist) : dlist[n] = i
          BY <2>1, <4>2
        <5>2. n \in 1..Len(dlist')
          BY <2>1, <3>1
        <5>3. dlist'[n] = i
          <6>1. \A m \in 1..Len(dlist) : dlist'[m] = dlist[m]
            BY <1>2, <2>2
          <6> QED
            BY <5>1, <6>1
        <5> QED
          BY <5>2, <5>3
      <4> QED
        BY <1>1, <1>3, <4>1, <4>2
    <3> QED
      <4>1. \A n \in 1..Len(dlist') : lines[dlist'[n]].sort = "setting"
        BY <1>2, <2>1, <2>2, <3>1
      <4>2. Len(dlist') <= at' - 1
        BY <1>1, <1>2, <2>1, <3>1
      <4> QED
        BY <2>1, <3>2, <3>3, <4>1, <4>2 DEF Listed
  <2>3. CASE lines[at].sort # "setting"
    BY <1>1, <1>2, <2>1, <2>3 DEF Listed
  <2> QED
    BY <2>2, <2>3
<1> QED
  BY <1>4, <1>5, <1>6, <1>7 DEF ReaderInv

LEMMA ToDictInv ==
  ASSUME ReaderInv, ToDict
  PROVE  ReaderInv'
<1> USE DEF rest
<1>1. ASSUME Skip PROVE ReaderInv'
  <2>1. at \in 1..MaxLines
    BY <1>1, BlockFacts, LenProperties DEF ReaderInv, TypeOK, InLine, Skip
  <2>2. heap[at] = {}
    BY <1>1, <2>1 DEF ReaderInv, Heap, Skip
  <2> QED
    BY <1>1, <2>2, LineEnds DEF Skip
<1>2. ASSUME NoKey \/ AddNode PROVE ReaderInv'
  <2>1. at \in 1..MaxLines /\ at <= Len(lines)
    BY <1>2, BlockFacts, LenProperties DEF ReaderInv, TypeOK, InLine, NoKey, AddNode
  <2>2. heap[at] = Blocks
    BY <1>2, <2>1 DEF ReaderInv, Heap, NoKey, AddNode
  <2> QED
    BY <1>2, <2>1, <2>2, LineEnds DEF NoKey, AddNode
<1>3. ASSUME Split \/ NoLines PROVE ReaderInv'
  <2> USE <1>3 DEF Split, NoLines
  <2>1. TypeOK' /\ Holds' /\ Untouched' /\ NoneSet' /\ Assigning' /\ Assigned'
    BY DEF ReaderInv, TypeOK, Holds, Untouched, NoneSet, Assigning, Assigned
  <2>2. InLine'
    <3>1. at \in Nat /\ Len(lines) \in Nat
      BY LenProperties DEF ReaderInv, TypeOK
    <3>2. pc \in {"line", "init", "iterator"} /\ ret # "0" /\ ret' # "0"
      BY DEF ReaderInv, Holds
    <3> QED
      BY <3>1, <3>2 DEF ReaderInv, InLine
  <2>4. Listed'
    BY DEF ReaderInv, Listed
  <2>3. Heap'
    <3>1. at \in 1..MaxLines => heap[at] = {}
      BY DEF ReaderInv, Heap
    <3>2. 0 \in 0..2 + MaxWordNum /\ {} = 1..0
      BY BlockFacts
    <3> QED
      BY <3>1, <3>2 DEF ReaderInv, Heap
  <2> QED
    BY <2>1, <2>2, <2>3, <2>4 DEF ReaderInv
<1>4. ASSUME Allocate PROVE ReaderInv'
  <2> USE <1>4 DEF Allocate
  <2>1. at \in 1..MaxLines
    BY BlockFacts, LenProperties DEF ReaderInv, TypeOK, InLine
  <2>2. PICK k \in 0..2 + MaxWordNum : heap[at] = 1..k
    BY <2>1 DEF ReaderInv, Heap
  <2>3. Block = k + 1 /\ Max(Blocks) = 3 + MaxWordNum
    BY <2>2, NextBlock, BlockFacts
  <2>4. heap' = [heap EXCEPT ![at] = 1..k + 1]
    <3>1. (1..k) \cup {k + 1} = 1..k + 1
      BY BlockFacts
    <3> QED
      BY <2>2, <2>3, <3>1
  <2>5. 1..k + 1 \subseteq Blocks /\ (k + 1 = 3 + MaxWordNum => 1..k + 1 = Blocks)
    BY BlockFacts DEF Blocks
  <2>6. TypeOK'
    BY <2>3, <2>4, <2>5 DEF ReaderInv, TypeOK
  <2>7. Holds' /\ Untouched' /\ NoneSet' /\ Assigning' /\ Assigned' /\ InLine' /\ Listed'
    BY DEF ReaderInv, Holds, Untouched, NoneSet, Assigning, Assigned, InLine, Listed
  <2>8. Heap'
    <3>1. heap'[at] = 1..k + 1 /\ \A i \in 1..MaxLines : i # at => heap'[i] = heap[i]
      BY <2>1, <2>4 DEF ReaderInv, TypeOK
    <3>2. IF k + 1 = 3 + MaxWordNum THEN pc' = "words" ELSE pc' = "init" /\ k + 1 \in 0..2 + MaxWordNum
      BY <2>3, BlockFacts
    <3> QED
      BY <2>1, <2>5, <3>1, <3>2 DEF ReaderInv, Heap
  <2> QED
    BY <2>6, <2>7, <2>8 DEF ReaderInv
<1>5. ASSUME DictInitFails \/ AddNodeFails PROVE ReaderInv'
  <2> USE <1>5 DEF DictInitFails, AddNodeFails
  <2>1. at \in 1..MaxLines
    BY BlockFacts, LenProperties DEF ReaderInv, TypeOK, InLine
  <2>2. heap' = [heap EXCEPT ![at] = {}]
    <3>1. CASE DictInitFails
      <4>1. PICK k \in 0..2 + MaxWordNum : heap[at] = 1..k
        BY <2>1, <3>1 DEF ReaderInv, Heap
      <4>2. Block = k + 1
        BY <4>1, NextBlock, BlockFacts
      <4>3. heap[at] \ ((4..Block - 1) \cup (1..3)) = {}
        BY <4>1, <4>2, BlockFacts
      <4> QED
        BY <3>1, <4>3
    <3>2. CASE AddNodeFails
      BY <3>2
    <3> QED
      BY <3>1, <3>2
  <2>3. pc' = "iterator" /\ UNCHANGED <<rest, at, dlist>> /\ pc \in {"init", "words"}
    OBVIOUS
  <2>4. TypeOK'
    BY <2>2, <2>3 DEF ReaderInv, TypeOK
  <2>5. Holds' /\ Untouched' /\ NoneSet' /\ Assigning' /\ Assigned' /\ InLine' /\ Listed'
    BY <2>3 DEF ReaderInv, Holds, Untouched, NoneSet, Assigning, Assigned, InLine, Listed
  <2>6. Heap'
    <3>1. heap'[at] = {} /\ \A i \in 1..MaxLines : i # at => heap'[i] = heap[i]
      BY <2>1, <2>2 DEF ReaderInv, TypeOK
    <3> QED
      BY <2>1, <2>3, <3>1 DEF ReaderInv, TypeOK, Heap
  <2> QED
    BY <2>4, <2>5, <2>6 DEF ReaderInv
<1> QED
  BY <1>1, <1>2, <1>3, <1>4, <1>5 DEF ToDict

LEMMA GetIteratorInv ==
  ASSUME ReaderInv, GetIterator
  PROVE  ReaderInv'
<1> USE DEF GetIterator, dictVars
<1>1. TypeOK' /\ Holds' /\ Untouched' /\ NoneSet' /\ Assigned' /\ InLine' /\ Listed'
  BY DEF ReaderInv, TypeOK, Holds, Untouched, NoneSet, Assigned, InLine, Listed
<1>2. Heap'
  BY DEF ReaderInv, Heap
<1>3. Assigning'
  <2>1. node' = 0 /\ Len(dlist') \in Nat /\ \A o \in Options : sc'[o] = Unset
    BY LenProperties DEF ReaderInv, Holds, NoneSet, TypeOK
  <2> QED
    BY <2>1 DEF Assigning, Applied
<1> QED
  BY <1>1, <1>2, <1>3 DEF ReaderInv

LEMMA AssignInv ==
  ASSUME ReaderInv, Assign
  PROVE  ReaderInv'
<1> USE DEF dictVars
<1>1. /\ pc = "assign" /\ node < Len(dlist) /\ node' = node + 1
      /\ UNCHANGED <<lines, at, heap, dlist, list, iter, fd, ret, pc>>
  BY DEF Assign
<1>2. /\ node \in Nat /\ at \in Nat /\ Len(dlist) \in Nat /\ Len(lines) \in Nat
      /\ MaxLines \in Nat /\ node' \in 0..MaxLines
  <2>1. /\ node \in Nat /\ at \in 1..Len(lines) + 1 /\ Len(dlist) \in Nat /\ Len(lines) \in Nat
        /\ MaxLines \in Nat
    BY BlockFacts, LenProperties DEF ReaderInv, TypeOK
  <2>2. Len(dlist) <= at - 1 /\ Len(lines) <= MaxLines
    BY DEF ReaderInv, Listed, InLine
  <2> QED
    BY <1>1, <2>1, <2>2
<1> DEFINE d == lines[dlist[node + 1]]
<1>3. d.sort = "setting" /\ d \in Lines
  <2>1. node + 1 \in 1..Len(dlist)
    BY <1>1, <1>2
  <2>2. dlist[node + 1] \in 1..at - 1 /\ d.sort = "setting"
    BY <2>1, ElementOfSeq DEF ReaderInv, TypeOK, Listed
  <2>3. dlist[node + 1] \in 1..Len(lines)
    BY <1>2, <2>2 DEF ReaderInv, TypeOK
  <2> QED
    BY <2>2, <2>3, ElementOfSeq DEF ReaderInv, TypeOK
<1>4. d.value \in Values \cup {Unset}
  BY <1>3 DEF Lines
<1>5. sc' = [o \in Options |-> IF o = d.key THEN d.value ELSE sc[o]]
  BY DEF Assign
<1>6. TypeOK'
  <2>1. sc' \in [Options -> Values \cup {Unset}]
    BY <1>4, <1>5 DEF ReaderInv, TypeOK
  <2> QED
    BY <1>1, <1>2, <2>1 DEF ReaderInv, TypeOK
<1>7. Assigning'
  <2> SUFFICES ASSUME NEW o \in Options
               PROVE  \/ Applied(o)' = {} /\ sc'[o] = Unset
                      \/ \E n \in Applied(o)' : /\ \A m \in Applied(o)' : m <= n
                                                /\ sc'[o] = lines[dlist[n]].value
    BY <1>1, <1>2 DEF Assigning
  <2>1. Applied(o)' = IF d.key = o THEN Applied(o) \cup {node + 1} ELSE Applied(o)
    <3>1. 1..node + 1 = (1..node) \cup {node + 1}
      BY <1>2
    <3>2. Applied(o)' = {n \in 1..node + 1 : lines[dlist[n]].key = o}
      BY <1>1 DEF Applied
    <3> QED
      BY <3>1, <3>2 DEF Applied
  <2>4. \A n \in Applied(o) : n \in Nat /\ n <= node
    BY <1>2 DEF Applied
  <2>2. CASE d.key = o
    <3>1. node + 1 \in Applied(o)' /\ sc'[o] = d.value
      BY <1>5, <2>1, <2>2
    <3>2. \A m \in Applied(o)' : m <= node + 1
      BY <1>2, <2>1, <2>4
    <3> QED
      BY <1>1, <3>1, <3>2
  <2>3. CASE d.key # o
    <3>1. Applied(o)' = Applied(o) /\ sc'[o] = sc[o]
      BY <1>5, <2>1, <2>3
    <3> QED
      BY <1>1, <3>1 DEF ReaderInv, Assigning
  <2> QED
    BY <2>2, <2>3
<1>8. Holds' /\ NoneSet' /\ Assigned' /\ InLine' /\ Listed' /\ Untouched'
  BY <1>1 DEF ReaderInv, Holds, NoneSet, Assigned, InLine, Listed, Untouched
<1>9. Heap'
  BY <1>1 DEF ReaderInv, Heap
<1> QED
  BY <1>6, <1>7, <1>8, <1>9 DEF ReaderInv

\* What the list said of an option holds of the lines when it is released.
LEMMA ReleaseInv ==
  ASSUME ReaderInv, Release
  PROVE  ReaderInv'
<1> USE DEF Release, Return
<1>1. /\ pc = "assign" /\ node = Len(dlist) /\ dlist' = <<>> /\ pc' = "done" /\ ret' = "0"
      /\ UNCHANGED <<lines, at, heap, node, sc>>
  OBVIOUS
<1>2. /\ at \in 1..Len(lines) + 1 /\ Len(lines) \in Nat /\ Len(dlist) \in Nat
      /\ \A n \in 1..Len(dlist) : dlist[n] \in 1..at - 1
  BY LenProperties, ElementOfSeq DEF ReaderInv, TypeOK
<1>3. TypeOK'
  BY <1>1, EmptySeq DEF ReaderInv, TypeOK
<1>4. Assigned'
  <2> SUFFICES ASSUME NEW o \in Options
               PROVE  LET counted == {i \in Settings(o) : i < at} IN
                        \/ counted = {} /\ sc[o] = Unset
                        \/ \E i \in counted : /\ \A j \in counted : j <= i
                                              /\ sc[o] = lines[i].value
    BY <1>1 DEF Assigned, Settings
  <2> DEFINE counted == {i \in Settings(o) : i < at}
  <2>1. ASSUME NEW i \in counted PROVE \E n \in Applied(o) : dlist[n] = i
    <3>1. i \in 1..at - 1 /\ lines[i].sort = "setting" /\ lines[i].key = o
      BY <1>2, <2>1 DEF Settings
    <3>2. PICK n \in 1..Len(dlist) : dlist[n] = i
      BY <1>1, <3>1 DEF ReaderInv, Listed
    <3> QED
      BY <1>1, <3>1, <3>2 DEF Applied
  <2>2. ASSUME NEW n \in Applied(o) PROVE dlist[n] \in counted /\ n \in 1..Len(dlist)
    BY <1>1, <1>2, <2>2 DEF Applied, Settings, ReaderInv, Listed
  <2>3. CASE Applied(o) = {} /\ sc[o] = Unset
    BY <2>1, <2>3
  <2>4. CASE \E n \in Applied(o) : /\ \A m \in Applied(o) : m <= n
                                   /\ sc[o] = lines[dlist[n]].value
    <3>1. PICK n \in Applied(o) : /\ \A m \in Applied(o) : m <= n
                                  /\ sc[o] = lines[dlist[n]].value
      BY <2>4
    <3>2. ASSUME NEW j \in counted PROVE j <= dlist[n]
      <4>1. PICK m \in Applied(o) : dlist[m] = j
        BY <2>1, <3>2
      <4>2. m \in 1..Len(dlist) /\ n \in 1..Len(dlist) /\ (m < n \/ m = n)
        BY <1>2, <2>2, <3>1
      <4> QED
        BY <1>2, <4>1, <4>2 DEF ReaderInv, Listed
    <3> QED
      BY <2>2, <3>1, <3>2
  <2> QED
    BY <1>1, <2>3, <2>4 DEF ReaderInv, Assigning
<1>5. Holds' /\ NoneSet' /\ Assigning' /\ Untouched'
  BY <1>1 DEF ReaderInv, Holds, NoneSet, Assigning, Untouched
<1>6. InLine' /\ Heap'
  BY <1>1 DEF ReaderInv, InLine, Heap
<1>7. Listed'
  BY <1>1, <1>2, EmptySeq DEF Listed
<1> QED
  BY <1>3, <1>4, <1>5, <1>6, <1>7 DEF ReaderInv

\* The reader keeps its invariant, and a step that is not its own keeps it too.
LEMMA NextReaderInv == ReaderInv /\ [Next]_cfgVars => ReaderInv'
<1>1. ASSUME ReaderInv, UNCHANGED cfgVars PROVE ReaderInv'
  <2> USE <1>1 DEF cfgVars, ReaderInv
  <2>1. TypeOK' /\ Holds' /\ Untouched'
    BY DEF TypeOK, Holds, Untouched
  <2>2. Heap' /\ InLine'
    BY DEF Heap, InLine
  <2>3. Listed' /\ Assigning' /\ Assigned' /\ NoneSet'
    BY DEF Listed, Assigning, Applied, Assigned, Settings, NoneSet
  <2> QED
    BY <2>1, <2>2, <2>3
<1> QED
  BY <1>1, OpenFileInv, ToDictInv, GetIteratorInv, AssignInv, ReleaseInv DEF Next

\* The invariant tells which dicts there are.
LEMMA ReaderDictsWhole == ReaderInv => DictsWhole
<1> SUFFICES ASSUME ReaderInv PROVE DictsWhole
  OBVIOUS
<1>1. /\ at \in 1..Len(lines) + 1 /\ Len(lines) \in Nat /\ Len(lines) <= MaxLines
      /\ MaxLines \in Nat
      /\ \A n \in 1..Len(dlist) : dlist[n] \in 1..at - 1 /\ lines[dlist[n]].sort = "setting"
      /\ DOMAIN dlist = 1..Len(dlist)
  BY BlockFacts, LenProperties, ElementOfSeq DEF ReaderInv, TypeOK, InLine, Listed
<1>2. \A i \in 1..MaxLines : i < at => heap[i] = IF lines[i].sort = "skipped" THEN {} ELSE Blocks
  BY DEF ReaderInv, Heap
<1>3. \A i \in 1..MaxLines : i >= at =>
        \/ heap[i] = {}
        \/ i = at /\ (pc = "init" \/ (pc = "words" /\ heap[i] = Blocks))
  <2>1. \A i \in 1..MaxLines : i > at => heap[i] = {}
    BY DEF ReaderInv, Heap
  <2>2. at \in 1..MaxLines =>
          heap[at] = {} \/ pc = "init" \/ (pc = "words" /\ heap[at] = Blocks)
    BY DEF ReaderInv, Heap
  <2> QED
    BY <1>1, <2>1, <2>2
<1>4. \A n \in DOMAIN dlist : heap[dlist[n]] = Blocks
  BY <1>1, <1>2
<1>5. \A i \in 1..MaxLines : heap[i] \in {{}, Blocks} \/ (pc = "init" /\ i = at)
  <2> SUFFICES ASSUME NEW i \in 1..MaxLines
               PROVE  heap[i] \in {{}, Blocks} \/ (pc = "init" /\ i = at)
    OBVIOUS
  <2>1. i < at \/ i >= at
    BY <1>1
  <2> QED
    BY <1>2, <1>3, <2>1
<1> QED
  BY <1>4, <1>5 DEF DictsWhole

LEMMA ReaderReleased == ReaderInv => Released
BY DEF ReaderInv, Holds, Listed, Released

\* The greatest element of a set of numbers, where there is one.
LEMMA MaxIs ==
  ASSUME NEW S, NEW x \in S, S \subseteq Nat, \A y \in S : y <= x
  PROVE  Max(S) = x
<1>1. \A y \in S : x >= y
  OBVIOUS
<1>2. \A z \in S : (\A y \in S : z >= y) => z = x
  OBVIOUS
<1> QED
  BY <1>1, <1>2 DEF Max

LEMMA ReaderLastLineWins == ReaderInv => LastLineWins
<1> SUFFICES ASSUME ReaderInv PROVE LastLineWins
  OBVIOUS
<1>1. /\ at \in 1..Len(lines) + 1 /\ Len(lines) \in Nat /\ Len(lines) <= MaxLines
      /\ MaxLines \in Nat
  BY BlockFacts, LenProperties DEF ReaderInv, TypeOK, InLine
<1>2. AllLinesRead
  <2> SUFFICES ASSUME ret = "0", at <= Len(lines)
               PROVE  lines[at].sort # "skipped" /\ heap[at] = {}
    BY DEF AllLinesRead
  <2>1. pc = "done" /\ at \in 1..MaxLines
    BY <1>1 DEF ReaderInv, Holds
  <2> QED
    BY <2>1 DEF ReaderInv, InLine, Heap
<1>3. ASSUME pc = "done", NEW o \in Options
      PROVE  LET counted == {i \in Settings(o) : i < at} IN
             sc[o] = IF ret = "-1" \/ counted = {} THEN Unset ELSE lines[Max(counted)].value
  <2> DEFINE counted == {i \in Settings(o) : i < at}
  <2>1. ret \in {"0", "-1"}
    BY <1>3 DEF ReaderInv, TypeOK, Holds
  <2>2. CASE ret = "-1"
    BY <1>3, <2>2 DEF ReaderInv, NoneSet
  <2>3. CASE ret = "0"
    <3>1. CASE counted = {} /\ sc[o] = Unset
      BY <2>3, <3>1
    <3>2. CASE \E i \in counted : /\ \A j \in counted : j <= i
                                  /\ sc[o] = lines[i].value
      <4>1. PICK i \in counted : /\ \A j \in counted : j <= i
                                 /\ sc[o] = lines[i].value
        BY <3>2
      <4>2. Max(counted) = i
        <5>1. counted \subseteq Nat
          BY <1>1 DEF Settings
        <5> HIDE DEF counted
        <5> QED
          BY <4>1, <5>1, MaxIs
      <4> QED
        BY <2>3, <4>1, <4>2
    <3> QED
      BY <2>3, <3>1, <3>2 DEF ReaderInv, Assigned
  <2> QED
    BY <2>1, <2>2, <2>3
<1> QED
  BY <1>2, <1>3 DEF LastLineWins

-----------------------------------------------------------------------------
(* The start of the process *)

LEMMA InitStartInv == StartInit => StartInv
<1> SUFFICES ASSUME StartInit PROVE StartInv
  OBVIOUS
<1>1. ReaderInv
  BY InitReaderInv DEF StartInit
<1>2. args \in Seq({"c", "d", "h", "?"})
  BY StartAssumption, SeqDef DEF StartInit
<1>3. StartTypeOK
  <2>1. addrs = 0 /\ ai = 0 /\ listening = 0 /\ bindable \subseteq 1..MaxAddrs /\ MaxAddrs \in Nat
    BY StartAssumption DEF StartInit
  <2>2. ai \in 0..addrs /\ addrs \in 0..MaxAddrs /\ listening \in 0..MaxAddrs
    BY <2>1
  <2> QED
    BY <1>1, <1>2, <2>1, <2>2 DEF StartInit, StartTypeOK, ReaderInv
<1>4. OneServerSocket /\ SearchInv
  BY DEF StartInit, OneServerSocket, SearchInv
<1> QED
  BY <1>1, <1>3, <1>4 DEF StartInv

\* The steps of main and of open_serversock leave the reader alone.
LEMMA ReaderStays ==
  ASSUME StartInv, UNCHANGED cfgVars
  PROVE  ReaderInv' /\ TypeOK'
BY NextReaderInv DEF StartInv, ReaderInv

\* One server socket from socket() to close(), whatever fails in between.
LEMMA NextStartInv == StartInv /\ [StartNext]_<<cfgVars, startVars>> => StartInv'
<1> SUFFICES ASSUME StartInv, [StartNext]_<<cfgVars, startVars>> PROVE StartInv'
  OBVIOUS
<1> USE DEF Exit, mainVars, sockVars
<1>1. ASSUME Option PROVE StartInv'
  <2>1. args' \in Seq({"c", "d", "h", "?"})
    BY <1>1, HeadTailProperties DEF Option, StartInv, StartTypeOK
  <2>2. UNCHANGED <<cfgVars, sockVars, server_sock, detached>>
    BY <1>1 DEF Option
  <2>3. /\ daemonize' \in BOOLEAN /\ exit' \in {"none", "0", "-1"}
        /\ step = "options" /\ step' \in {"options", "exited"}
    BY <1>1 DEF Option, StartInv, StartTypeOK
  <2> QED
    BY <2>1, <2>2, <2>3, ReaderStays
       DEF StartInv, StartTypeOK, OneServerSocket, SearchInv
<1>2. ASSUME OptionsDone PROVE StartInv'
  BY <1>2, ReaderStays DEF OptionsDone, StartInv, StartTypeOK, OneServerSocket, SearchInv
<1>3. ASSUME ReadConfig PROVE StartInv'
  <2>1. ReaderInv' /\ TypeOK'
    BY <1>3, NextReaderInv DEF ReadConfig, StartInv, ReaderInv
  <2> QED
    BY <1>3, <2>1 DEF ReadConfig, startVars, StartInv, StartTypeOK, OneServerSocket, SearchInv
<1>4. ASSUME ConfigRead PROVE StartInv'
  BY <1>4, ReaderStays, StartAssumption
     DEF ConfigRead, cfgVars, StartInv, StartTypeOK, OneServerSocket, SearchInv
<1>5. ASSUME Resolve PROVE StartInv'
  BY <1>5, ReaderStays, StartAssumption
     DEF Resolve, cfgVars, StartInv, StartTypeOK, OneServerSocket, SearchInv
<1>6. ASSUME Socket PROVE StartInv'
  BY <1>6, ReaderStays, StartAssumption
     DEF Socket, cfgVars, StartInv, StartTypeOK, OneServerSocket, SearchInv
<1>7. ASSUME SocketFails \/ Bind PROVE StartInv'
  <2>1. CASE SocketFails
    BY <2>1, ReaderStays, StartAssumption
       DEF SocketFails, cfgVars, StartInv, StartTypeOK, OneServerSocket, SearchInv
  <2>2. CASE Bind
    BY <2>2, ReaderStays, StartAssumption
       DEF Bind, cfgVars, StartInv, StartTypeOK, OneServerSocket, SearchInv
  <2> QED
    BY <1>7, <2>1, <2>2
<1>8. ASSUME BindFails \/ ListenFails PROVE StartInv'
  <2>1. /\ step \in {"bind", "listen"} /\ step' = "next" /\ held' = held - 1
        /\ UNCHANGED <<mainVars, addrs, bindable, ai, listening, server_sock, exit>>
    BY <1>8 DEF BindFails, ListenFails, Err2
  <2>2. held' = 0
    BY <2>1 DEF StartInv, OneServerSocket
  <2>3. ReaderInv' /\ TypeOK'
    BY <2>1, ReaderStays
  <2>4. StartTypeOK'
    BY <2>1, <2>2, <2>3 DEF StartInv, StartTypeOK
  <2>5. SearchInv'
    BY <2>1 DEF cfgVars, StartInv, SearchInv
  <2> QED
    BY <2>1, <2>2, <2>3, <2>4, <2>5 DEF StartInv, OneServerSocket
<1>9. ASSUME Listen PROVE StartInv'
  BY <1>9, ReaderStays, StartAssumption
     DEF Listen, cfgVars, StartInv, StartTypeOK, OneServerSocket, SearchInv
<1>10. ASSUME NextAddress PROVE StartInv'
  BY <1>10, ReaderStays, StartAssumption
     DEF NextAddress, cfgVars, StartInv, StartTypeOK, OneServerSocket, SearchInv
<1>11. ASSUME Daemon PROVE StartInv'
  BY <1>11, ReaderStays, StartAssumption
     DEF Daemon, cfgVars, StartInv, StartTypeOK, OneServerSocket, SearchInv
<1>12. ASSUME LoopEnds PROVE StartInv'
  BY <1>12, ReaderStays, StartAssumption
     DEF LoopEnds, cfgVars, StartInv, StartTypeOK, OneServerSocket, SearchInv
<1>13. ASSUME UNCHANGED <<cfgVars, startVars>> PROVE StartInv'
  BY <1>13, ReaderStays
     DEF startVars, cfgVars, StartInv, StartTypeOK, OneServerSocket, SearchInv
<1> QED
  BY <1>1, <1>2, <1>3, <1>4, <1>5, <1>6, <1>7, <1>8, <1>9, <1>10, <1>11, <1>12, <1>13
     DEF StartNext, OpenServersock

\* Everything above holds in every state the start of the process reaches.
THEOREM StartCorrect == StartSpec => []StartInv
BY InitStartInv, NextStartInv, PTL DEF StartSpec

-----------------------------------------------------------------------------
(* The properties the run start checks *)

\* main, open_serversock and read_server_config keep their types: the address
\* tried is one of the list, the dicts in the list are of lines that were read.
THEOREM StartTypes == StartSpec => []StartTypeOK
<1>1. StartInv => StartTypeOK
  BY DEF StartInv
<1> QED
  BY <1>1, StartCorrect, PTL

\* Whichever malloc() fails in to_dict, a dict is whole or not there, and those in
\* the list are whole.
THEOREM DictsAreWhole == StartSpec => []DictsWhole
<1>1. StartInv => DictsWhole
  BY ReaderDictsWhole DEF StartInv
<1> QED
  BY <1>1, StartCorrect, PTL

\* Every return of read_server_config has released the descriptor, the list and
\* the iterator.
THEOREM ReaderReleases == StartSpec => []Released
<1>1. StartInv => Released
  BY ReaderReleased DEF StartInv
<1> QED
  BY <1>1, StartCorrect, PTL

\* read_server_config gives each option the value of the last line that sets it,
\* for files of any length.
THEOREM LastLineDecides == StartSpec => []LastLineWins
<1>1. StartInv => LastLineWins
  BY ReaderLastLineWins DEF StartInv
<1> QED
  BY <1>1, StartCorrect, PTL

\* main hands to run_serverloop one socket that listens, on an address that could
\* be bound, and nothing else of the start is still held.
THEOREM ServesOnBound == StartSpec => []ServesBound
<1>1. StartInv => ServesBound
  BY DEF StartInv, ReaderInv, Holds, SearchInv, ServesBound
<1> QED
  BY <1>1, StartCorrect, PTL
=============================================================================
