------------------------------ MODULE McrConfig ------------------------------
(***************************************************************************)
(* read_server_config: the file, the list of dicts that to_dict makes of   *)
(* its lines, and the options that are taken over from them.  What is      *)
(* followed here is who holds what (the descriptor, the list, its          *)
(* iterator, each block of each dict) when any malloc() may fail, and      *)
(* which line decides an option.  How a line becomes a key and values is   *)
(* in McrText.                                                             *)
(***************************************************************************)
EXTENDS Naturals, Sequences, FiniteSetsExt

CONSTANTS Options,    \* server_opt_array
          Other,      \* a key that is none of them
          Values,     \* the words a line may set an option to
          Unset,      \* memory nothing was written to
          MaxLines,   \* bound on the lines of the buffer
          MaxWordNum  \* MAX_WORD_NUM

ASSUME NamesAssumption == Other \notin Options /\ Unset \notin Values
ASSUME LimitsAssumption == MaxLines \in Nat /\ MaxWordNum \in Nat \ {0}

(***************************************************************************)
(* A line, as to_dict sees it.  skipped: a comment, an empty line, no      *)
(* separator or several; nokey: no word for a key; setting: a key and its  *)
(* first value, Unset when there is none and dict->values[0] is used as    *)
(* malloc() returned it.                                                   *)
(***************************************************************************)
Lines ==
  [sort : {"skipped", "nokey"}, key : {Other}, value : {Unset}]
    \cup [sort : {"setting"}, key : Options \cup {Other}, value : Values \cup {Unset}]

\* The blocks of a dict in the order dict_init allocates them: the struct, key,
\* values, and the words of values.
Blocks == 1..3 + MaxWordNum

VARIABLES lines,  \* buf: the file and, as nothing ends it with a '\0', what
                  \* the stack holds behind it
          at,     \* to_dict: the line it works on
          heap,   \* heap[i]: the blocks of the dict of line i
          dlist,  \* the list: lines whose dicts it holds
          list,   \* its header: none, held, freed
          iter,   \* the same for the iterator
          node,   \* how many nodes listNext has returned
          fd,     \* closed, open
          sc,     \* the options
          ret,    \* of read_server_config
          pc

cfgVars == <<lines, at, heap, dlist, list, iter, node, fd, sc, ret, pc>>

Init ==
  /\ lines \in UNION {[1..n -> Lines] : n \in 0..MaxLines}
  /\ at = 1 /\ heap = [i \in 1..MaxLines |-> {}] /\ dlist = <<>>
  /\ list = "none" /\ iter = "none" /\ node = 0 /\ fd = "closed"
  /\ sc = [o \in Options |-> Unset] /\ ret = "none" /\ pc = "open"

dictVars == <<lines, at, heap, dlist>>

Return(r) == ret' = r /\ pc' = "done"

OpenFile ==
  /\ pc = "open"
  /\ \/ fd' = "open" /\ pc' = "create" /\ UNCHANGED ret
     \/ Return("-1") /\ UNCHANGED fd
  /\ UNCHANGED <<dictVars, list, iter, node, sc>>

Create ==
  /\ pc = "create"
  /\ \/ list' = "held" /\ pc' = "read" /\ UNCHANGED <<fd, ret>>
     \/ fd' = "closed" /\ Return("-1") /\ UNCHANGED list
  /\ UNCHANGED <<dictVars, iter, node, sc>>

\* Mutant: the descriptor stays open when nothing was read.
ReadFileLeaks ==
  /\ pc = "read"
  /\ \/ lines # <<>> /\ pc' = "line" /\ UNCHANGED <<list, ret>>
     \/ list' = "freed" /\ Return("-1")
  /\ UNCHANGED <<dictVars, iter, node, sc, fd>>

\* read(); it may fail, and an empty file counts as a failure.
ReadFile ==
  /\ pc = "read"
  /\ \/ lines # <<>> /\ pc' = "line" /\ UNCHANGED <<list, fd, ret>>
     \/ list' = "freed" /\ fd' = "closed" /\ Return("-1")
  /\ UNCHANGED <<dictVars, iter, node, sc>>

-----------------------------------------------------------------------------
(* to_dict *)

rest == <<lines, list, iter, node, fd, sc, ret>>

Skip == /\ pc = "line" /\ at <= Len(lines) /\ lines[at].sort = "skipped"
        /\ at' = at + 1 /\ UNCHANGED <<rest, heap, dlist, pc>>

\* The line has one separator: dict_init begins.
Split == /\ pc = "line" /\ at <= Len(lines) /\ lines[at].sort # "skipped"
         /\ pc' = "init" /\ UNCHANGED <<rest, at, heap, dlist>>

NoLines == /\ pc = "line" /\ at > Len(lines)
           /\ pc' = "iterator" /\ UNCHANGED <<rest, at, heap, dlist>>

Block == Cardinality(heap[at]) + 1   \* the block dict_init allocates next

Allocate ==
  /\ pc = "init" /\ heap' = [heap EXCEPT ![at] = @ \cup {Block}]
  /\ pc' = IF Block = Max(Blocks) THEN "words" ELSE pc
  /\ UNCHANGED <<rest, at, dlist>>

\* Mutant: j > 0 for j >= 0.
DictInitFailsLeaks ==
  /\ pc = "init" /\ heap' = [heap EXCEPT ![at] = @ \ ((5..Block - 1) \cup (1..3))]
  /\ pc' = "iterator" /\ UNCHANGED <<rest, at, dlist>>

\* A malloc() fails: dict_init frees the words it has, then values, key and
\* the struct, as far as it has them; to_dict does no more lines.
DictInitFails ==
  /\ pc = "init" /\ heap' = [heap EXCEPT ![at] = @ \ ((4..Block - 1) \cup (1..3))]
  /\ pc' = "iterator" /\ UNCHANGED <<rest, at, dlist>>

\* The next line, without a dict_deinit().
NoKey ==
  /\ pc = "words" /\ lines[at].sort = "nokey"
  /\ at' = at + 1 /\ pc' = "line" /\ UNCHANGED <<rest, heap, dlist>>

AddNode ==
  /\ pc = "words" /\ lines[at].sort = "setting"
  /\ dlist' = Append(dlist, at) /\ at' = at + 1 /\ pc' = "line"
  /\ UNCHANGED <<rest, heap>>

\* listAddNodeTail returns NULL: dict_deinit, and no more lines.
AddNodeFails ==
  /\ pc = "words" /\ lines[at].sort = "setting"
  /\ heap' = [heap EXCEPT ![at] = {}] /\ pc' = "iterator"
  /\ UNCHANGED <<rest, at, dlist>>

ToDict == \/ Skip \/ Split \/ NoLines \/ Allocate \/ DictInitFails
          \/ NoKey \/ AddNode \/ AddNodeFails

-----------------------------------------------------------------------------
\* listGetIterator; listNext() does not look whether it returned NULL.
GetIterator ==
  /\ pc = "iterator"
  /\ \/ iter' = "held" /\ pc' = "assign"
     \/ pc' = "crashed" /\ UNCHANGED iter
  /\ UNCHANGED <<dictVars, list, node, fd, sc, ret>>

\* Mutant: the first line that sets an option decides.
AssignFirst ==
  /\ pc = "assign" /\ node < Len(dlist) /\ node' = node + 1
  /\ LET d == lines[dlist[node + 1]] IN
       sc' = [o \in Options |-> IF o = d.key /\ sc[o] = Unset THEN d.value ELSE sc[o]]
  /\ UNCHANGED <<dictVars, list, iter, fd, ret, pc>>

\* The option named by the key of the next dict; other keys are ignored.
Assign ==
  /\ pc = "assign" /\ node < Len(dlist) /\ node' = node + 1
  /\ LET d == lines[dlist[node + 1]] IN
       sc' = [o \in Options |-> IF o = d.key THEN d.value ELSE sc[o]]
  /\ UNCHANGED <<dictVars, list, iter, fd, ret, pc>>

\* The list has no free method: listEmpty and listRelease leave the dicts.
Release ==
  /\ pc = "assign" /\ node = Len(dlist)
  /\ iter' = "freed" /\ dlist' = <<>> /\ list' = "freed" /\ fd' = "closed"
  /\ Return("0") /\ UNCHANGED <<lines, at, heap, node, sc>>

Next == OpenFile \/ Create \/ ReadFile \/ ToDict \/ GetIterator \/ Assign \/ Release

Spec == Init /\ [][Next]_cfgVars

-----------------------------------------------------------------------------
\* The dict list holds lines that were read; the rest has its type.
TypeOK ==
  /\ lines \in Seq(Lines) /\ at \in 1..Len(lines) + 1
  /\ heap \in [1..MaxLines -> SUBSET Blocks]
  /\ dlist \in Seq(1..at - 1) /\ node \in 0..MaxLines
  /\ list \in {"none", "held", "freed"} /\ iter \in {"none", "held", "freed"}
  /\ fd \in {"closed", "open"} /\ ret \in {"none", "-1", "0"}
  /\ sc \in [Options -> Values \cup {Unset}]
  /\ pc \in {"open", "create", "read", "line", "init", "words", "iterator",
             "assign", "done", "crashed"}

\* Whichever malloc() fails: outside dict_init a dict is there with all its
\* blocks or not at all (dict_init frees what it has, dict_deinit everything), and
\* those in the list are whole.
DictsWhole ==
  /\ \A i \in 1..MaxLines : \/ heap[i] \in {{}, Blocks}
                            \/ pc = "init" /\ i = at
  /\ \A n \in DOMAIN dlist : heap[dlist[n]] = Blocks

\* Every return of read_server_config has closed the file and released what it
\* took, on its error paths too; the dicts themselves are not meant here.
Released ==
  pc = "done" => fd = "closed" /\ list # "held" /\ iter # "held" /\ dlist = <<>>

\* Only a lack of memory leaves out lines: the reader comes to the last one, or
\* malloc() failed at one that needs a dict.
AllLinesRead ==
  ret = "0" /\ at <= Len(lines) => lines[at].sort # "skipped" /\ heap[at] = {}

Settings(o) == {i \in 1..Len(lines) : lines[i].sort = "setting" /\ lines[i].key = o}

\* With 0 each option has the value of the last line that sets it, or was left
\* alone; with -1 nothing was touched.  Memory that runs out in to_dict ends the
\* lines that count, at a line and not inside one.
LastLineWins ==
  /\ AllLinesRead
  /\ pc = "done" => \A o \in Options :
       LET counted == {i \in Settings(o) : i < at} IN
       sc[o] = IF ret = "-1" \/ counted = {} THEN Unset ELSE lines[Max(counted)].value

=============================================================================
