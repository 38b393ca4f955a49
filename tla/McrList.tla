------------------------------- MODULE McrList -------------------------------
(***************************************************************************)
(* mcr_list.c: doubly linked lists in a heap of nodes, their iterator, and  *)
(* who frees the values.  A caller keeps to what the comments ask: nodes    *)
(* it names are in the list, it deletes no other element than the current   *)
(* one while it iterates, and with a free method it hands over values it    *)
(* owns.  An operation whose first malloc() fails changes nothing and has   *)
(* no action.                                                               *)
(***************************************************************************)
EXTENDS Integers, Sequences, FiniteSets, SequencesExt, FiniteSetsExt

CONSTANTS Lists,     \* the list headers
          Nodes,     \* the nodes malloc() can give
          Values,    \* the values callers store
          Null,      \* the NULL pointer
          Methods,   \* the sets of methods that lists may have
          JoinEmpty  \* callers also join empty lists

ASSUME NullAssumption == Null \notin Nodes \union Lists
ASSUME NodesAssumption == IsFiniteSet(Nodes)
ASSUME MethodsAssumption == Methods \subseteq SUBSET {"free", "dup"}
ASSUME JoinAssumption == JoinEmpty \in BOOLEAN

VARIABLES
  made,              \* the lists that exist
  head, tail, len,   \* their headers
  heap,              \* the nodes allocated
  prev, next, value, \* their fields
  alive,             \* with a free method: the values allocated
  iter,              \* an iterator: its list, direction and next node
  given,             \* the node listNext returned last
  todo,              \* what the iteration still has to return,
  calm,              \* as long as only its current element was deleted
  crashed,           \* NULL or a freed node dereferenced, a value freed twice
  methods            \* the methods of all lists, set before the first call

headers == <<head, tail, len>>
fields  == <<prev, next, value>>
iterVars == <<iter, given, todo, calm>>
vars == <<made, headers, heap, fields, alive, iterVars, crashed, methods>>

HasFree == "free" \in methods
HasDup  == "dup" \in methods

NoIter == [list |-> Null, dir |-> "head", next |-> Null]

Init ==
  /\ made = {} /\ heap = {} /\ alive = {}
  /\ head = [l \in Lists |-> Null] /\ tail = [l \in Lists |-> Null]
  /\ len = [l \in Lists |-> 0]
  /\ prev = [n \in Nodes |-> Null] /\ next = [n \in Nodes |-> Null]
  /\ value = [n \in Nodes |-> Null]
  /\ iter = NoIter /\ given = Null /\ todo = <<>> /\ calm = FALSE
  /\ crashed = FALSE /\ methods \in Methods

-----------------------------------------------------------------------------
\* p->field = v; through NULL it writes nothing, and Faults.
Write(f, p, v) == [n \in Nodes |-> IF n = p THEN v ELSE f[n]]
Faults(P) == crashed' = (crashed \/ ~(P \subseteq heap))

\* The node each number of links after n, NULL beyond the end.
Hops(link, n, k) ==
  LET h[i \in 0..k] == IF i = 0 THEN n
                       ELSE IF h[i - 1] \in Nodes THEN link[h[i - 1]] ELSE Null
  IN  h

\* The first len nodes from the head on.
Walk(l) == LET h == Hops(next, head[l], len[l])
           IN  [i \in 1..len[l] |-> h[i - 1]]
InList(l) == {Walk(l)[i] : i \in 1..len[l]}

\* The nodes a loop along link visits from n until it meets NULL.
Chain(link, n) ==
  LET h == Hops(link, n, Cardinality(Nodes))
      k == Cardinality({i \in 0..Cardinality(Nodes) : h[i] # Null})
  IN  [i \in 1..k |-> h[i - 1]]

ValuesOf(s) == [i \in 1..Len(s) |-> value[s[i]]]

\* free() of the nodes in S: what they held is lost.
Clear(S, f) == [n \in Nodes |-> IF n \in S THEN Null ELSE f[n]]
Free(S, prevs, nexts) == /\ heap' = heap \ S
                         /\ prev' = Clear(S, prevs) /\ next' = Clear(S, nexts)
                         /\ value' = Clear(S, value)

\* A list is changed other than by deleting the iteration's current element.
Disturb(l) ==
  IF iter.list = l
  THEN calm' = FALSE /\ todo' = <<>> /\ UNCHANGED <<iter, given>>
  ELSE UNCHANGED iterVars

\* The value of a new element: with a free method, one the caller owns.
Store(n, v) == /\ value' = Write(value, n, v)
               /\ IF HasFree THEN v \notin alive /\ alive' = alive \union {v}
                  ELSE alive' = alive

-----------------------------------------------------------------------------
Usable(l) == ~crashed /\ l \in made

listCreate(l) ==
  /\ ~crashed /\ l \notin made
  /\ made' = made \union {l}
  /\ head' = [head EXCEPT ![l] = Null] /\ tail' = [tail EXCEPT ![l] = Null]
  /\ len' = [len EXCEPT ![l] = 0]
  /\ UNCHANGED <<heap, fields, alive, iterVars, crashed>>

\* The loop of listEmpty: len nodes from head on.
FreeAll(l) ==
  LET gone == {value[n] : n \in InList(l) \ {Null}} IN
  /\ iter.list # l
  /\ Free(InList(l), prev, next)
  /\ alive' = IF HasFree THEN alive \ gone ELSE alive
  /\ crashed' = \/ crashed \/ ~(InList(l) \subseteq heap)
                \/ HasFree /\ (~(gone \subseteq alive) \/ Cardinality(gone) # len[l])
  /\ head' = [head EXCEPT ![l] = Null] /\ tail' = [tail EXCEPT ![l] = Null]
  /\ len' = [len EXCEPT ![l] = 0]
  /\ UNCHANGED iterVars

listEmpty(l) == Usable(l) /\ FreeAll(l) /\ UNCHANGED made

listRelease(l) == Usable(l) /\ FreeAll(l) /\ made' = made \ {l}

listAddNodeHead(l, v) ==
  /\ Usable(l)
  /\ \E n \in Nodes \ heap :
       /\ heap' = heap \union {n}
       /\ Store(n, v)
       /\ IF len[l] = 0
          THEN /\ tail' = [tail EXCEPT ![l] = n]
               /\ prev' = Write(prev, n, Null) /\ next' = Write(next, n, Null)
               /\ UNCHANGED crashed
          ELSE /\ prev' = Write(Write(prev, n, Null), head[l], n)
               /\ next' = Write(next, n, head[l])
               /\ Faults({head[l]})
               /\ UNCHANGED tail
       /\ head' = [head EXCEPT ![l] = n]
  /\ len' = [len EXCEPT ![l] = @ + 1]
  /\ Disturb(l) /\ UNCHANGED made

listAddNodeTail(l, v) ==
  /\ Usable(l)
  /\ \E n \in Nodes \ heap :
       /\ heap' = heap \union {n}
       /\ Store(n, v)
       /\ IF len[l] = 0
          THEN /\ head' = [head EXCEPT ![l] = n]
               /\ prev' = Write(prev, n, Null) /\ next' = Write(next, n, Null)
               /\ UNCHANGED crashed
          ELSE /\ next' = Write(Write(next, n, Null), tail[l], n)
               /\ prev' = Write(prev, n, tail[l])
               /\ Faults({tail[l]})
               /\ UNCHANGED head
       /\ tail' = [tail EXCEPT ![l] = n]
  /\ len' = [len EXCEPT ![l] = @ + 1]
  /\ Disturb(l) /\ UNCHANGED made

listInsertNode(l, old, v, after) ==
  /\ Usable(l) /\ old \in InList(l)
  /\ \E n \in Nodes \ heap :
       LET p == IF after THEN old ELSE prev[old]
           q == IF after THEN next[old] ELSE old IN
       /\ heap' = heap \union {n}
       /\ Store(n, v)
       /\ tail' = [tail EXCEPT ![l] = IF after /\ @ = old THEN n ELSE @]
       /\ head' = [head EXCEPT ![l] = IF ~after /\ @ = old THEN n ELSE @]
       /\ prev' = Write(Write(prev, n, p), q, n)
       /\ next' = Write(Write(next, n, q), p, n)
       /\ Faults({old} \union ({p, q} \ {Null}))
  /\ len' = [len EXCEPT ![l] = @ + 1]
  /\ Disturb(l) /\ UNCHANGED made

listDelNode(l, n) ==
  /\ Usable(l) /\ n \in InList(l)
  /\ iter.list = l => n = given
  /\ head' = [head EXCEPT ![l] = IF prev[n] = Null THEN next[n] ELSE @]
  /\ tail' = [tail EXCEPT ![l] = IF next[n] = Null THEN prev[n] ELSE @]
  /\ Free({n}, Write(prev, next[n], prev[n]), Write(next, prev[n], next[n]))
  /\ len' = [len EXCEPT ![l] = @ - 1]
  /\ alive' = IF HasFree THEN alive \ {value[n]} ELSE alive
  /\ crashed' = \/ crashed
                \/ ~({n} \union ({prev[n], next[n]} \ {Null}) \subseteq heap)
                \/ HasFree /\ value[n] \notin alive
  /\ given' = IF iter.list = l THEN Null ELSE given
  /\ UNCHANGED <<made, iter, todo, calm>>

\* Mutant: the new tail's next still leads to the old tail, now the head.
listRotateKeepsNext(l) ==
  /\ Usable(l) /\ len[l] > 1
  /\ tail' = [tail EXCEPT ![l] = prev[tail[l]]]
  /\ prev' = Write(Write(prev, head[l], tail[l]), tail[l], Null)
  /\ next' = Write(next, tail[l], head[l])
  /\ head' = [head EXCEPT ![l] = tail[l]]
  /\ Disturb(l)
  /\ UNCHANGED <<made, len, heap, value, alive, crashed>>

listRotate(l) ==
  LET t == tail[l]
      p == IF t \in Nodes THEN prev[t] ELSE Null IN
  /\ Usable(l) /\ len[l] > 1
  /\ tail' = [tail EXCEPT ![l] = p]
  /\ prev' = Write(Write(prev, head[l], t), t, Null)
  /\ next' = Write(Write(next, p, Null), t, head[l])
  /\ head' = [head EXCEPT ![l] = t]
  /\ Faults({t, p, head[l]})
  /\ Disturb(l)
  /\ UNCHANGED <<made, len, heap, value, alive>>

\* Mutant: the elements of o go before those of l.
listJoinBefore(l, o) ==
  /\ Usable(l) /\ Usable(o) /\ l # o /\ len[o] > 0 /\ iter.list # o
  /\ prev' = Write(prev, head[l], tail[o])
  /\ next' = Write(next, tail[o], head[l])
  /\ head' = [head EXCEPT ![l] = head[o], ![o] = Null]
  /\ tail' = [tail EXCEPT ![l] = IF head[l] = Null THEN tail[o] ELSE @, ![o] = Null]
  /\ len' = [len EXCEPT ![l] = @ + len[o], ![o] = 0]
  /\ Disturb(l) /\ UNCHANGED <<made, heap, value, alive, crashed>>

\* The elements of o go to the end of l.
listJoin(l, o) ==
  /\ Usable(l) /\ Usable(o) /\ l # o /\ iter.list # o
  /\ JoinEmpty \/ len[o] > 0
  /\ prev' = Write(prev, head[o], tail[l])
  /\ next' = Write(next, tail[l], head[o])
  /\ head' = [head EXCEPT ![l] = IF tail[l] = Null THEN head[o] ELSE @,
                          ![o] = Null]
  /\ tail' = [tail EXCEPT ![l] = tail[o], ![o] = Null]
  /\ len' = [len EXCEPT ![l] = @ + len[o], ![o] = 0]
  /\ Faults({head[o], tail[l]} \ {Null})
  /\ Disturb(l) /\ UNCHANGED <<made, heap, value, alive>>

\* The values a copy of the nodes s may get.
DuplicatesShared(s) == {ValuesOf(s)}  \* Mutant: dup is not called

Duplicates(s) ==
  IF ~HasDup THEN {ValuesOf(s)}
  ELSE {g \in [1..Len(s) -> Values \ alive] :
          HasFree => \A i, j \in 1..Len(s) : i # j => g[i] # g[j]}

\* listDup(o) succeeds: its loop appends to c a node for each node of o.
listDup(o, c) ==
  LET s == Chain(next, head[o])
      k == Len(s) IN
  /\ Usable(o) /\ c \notin made
  /\ made' = made \union {c}
  /\ \E f \in [1..k -> Nodes \ heap], g \in Duplicates(s) :
       LET new  == {f[i] : i \in 1..k}
           at   == [n \in new |-> CHOOSE i \in 1..k : f[i] = n]
           Copy(old, h(_)) == [n \in Nodes |-> IF n \in new THEN h(at[n]) ELSE old[n]]
           Node(i) == IF i \in 1..k THEN f[i] ELSE Null
           Before(i) == Node(i - 1)
           After(i) == Node(i + 1)
           Value(i) == g[i]
       IN  /\ Cardinality(new) = k
           /\ heap' = heap \union new
           /\ prev' = Copy(prev, Before) /\ next' = Copy(next, After)
           /\ value' = Copy(value, Value)
           /\ alive' = IF HasFree THEN alive \union {g[i] : i \in 1..k} ELSE alive
           /\ head' = [head EXCEPT ![c] = Node(1)]
           /\ tail' = [tail EXCEPT ![c] = Node(k)]
  /\ len' = [len EXCEPT ![c] = k]
  /\ UNCHANGED <<iterVars, crashed>>

\* It fails after j elements: the copy is released, with the values it has got.
\* With a dup method, the value of the node that malloc() refused is lost.
listDupFails(o) ==
  LET s == Chain(next, head[o]) IN
  /\ Usable(o) /\ HasFree
  /\ \E j \in 0..Len(s) - 1 :
       IF HasDup
       THEN \E v \in Values \ alive : alive' = alive \union {v}
       ELSE j > 0 /\ alive' = alive \ {value[s[i]] : i \in 1..j}
  /\ UNCHANGED <<made, headers, heap, fields, iterVars, crashed>>

-----------------------------------------------------------------------------
(* The iterator: listGetIterator, listRewind and listRewindTail start it *)

listRewind(l, dir) ==
  /\ Usable(l) /\ iter = NoIter
  /\ iter' = [list |-> l, dir |-> dir,
              next |-> IF dir = "head" THEN head[l] ELSE tail[l]]
  /\ given' = Null /\ calm' = TRUE
  /\ todo' = IF dir = "head" THEN Walk(l) ELSE Reverse(Walk(l))
  /\ UNCHANGED <<made, headers, heap, fields, alive, crashed>>

Link(dir) == IF dir = "head" THEN next ELSE prev

\* Mutant: the iterator stays on the node it gave and moves on at the next call.
listNextLate ==
  LET n == IF given = Null THEN iter.next ELSE Link(iter.dir)[iter.next] IN
  /\ ~crashed /\ iter # NoIter /\ iter.next # Null
  /\ given' = n /\ iter' = [iter EXCEPT !.next = n]
  /\ todo' = IF todo # <<>> THEN Tail(todo) ELSE todo
  /\ UNCHANGED <<made, headers, heap, fields, alive, calm, crashed>>

listNext ==
  /\ ~crashed /\ iter # NoIter /\ iter.next # Null
  /\ given' = iter.next
  /\ iter' = [iter EXCEPT !.next = Link(iter.dir)[@]]
  /\ todo' = IF calm THEN Tail(todo) ELSE todo
  /\ Faults({iter.next})
  /\ UNCHANGED <<made, headers, heap, fields, alive, calm>>

\* The loop is left, at its end or before it: listReleaseIterator.
listReleaseIterator ==
  /\ ~crashed /\ iter # NoIter
  /\ iter' = NoIter /\ given' = Null /\ todo' = <<>> /\ calm' = FALSE
  /\ UNCHANGED <<made, headers, heap, fields, alive, crashed>>

-----------------------------------------------------------------------------
(* The two look-ups *)

listSearchKey(l, v) ==
  LET s == Chain(next, head[l])
      found == {i \in 1..Len(s) : value[s[i]] = v}
  IN  IF found = {} THEN Null ELSE s[Min(found)]

\* Mutant: -1 is the element before the last one.
listIndexFromEnd(l, index) ==
  IF index < 0 THEN Hops(prev, tail[l], -index)[-index]
  ELSE Hops(next, head[l], index)[index]

listIndex(l, index) ==
  IF index < 0 THEN Hops(prev, tail[l], (-index) - 1)[(-index) - 1]
  ELSE Hops(next, head[l], index)[index]

-----------------------------------------------------------------------------
Call ==
  \/ \E l \in Lists : \/ listCreate(l) \/ listEmpty(l) \/ listRelease(l)
                      \/ listRotate(l) \/ listDupFails(l)
  \/ \E l, o \in Lists : listJoin(l, o) \/ listDup(l, o)
  \/ \E l \in Lists, v \in Values : listAddNodeHead(l, v) \/ listAddNodeTail(l, v)
  \/ \E l \in Lists, n \in Nodes, v \in Values, after \in BOOLEAN :
       listInsertNode(l, n, v, after)
  \/ \E l \in Lists, n \in Nodes : listDelNode(l, n)
  \/ \E l \in Lists, dir \in {"head", "tail"} : listRewind(l, dir)
  \/ listNext \/ listReleaseIterator

Next == Call /\ UNCHANGED methods

Spec == Init /\ [][Next]_vars

-----------------------------------------------------------------------------
Pointers == Nodes \union {Null}

\* The headers, the nodes and the iterator have their types.
TypeOK ==
  /\ made \subseteq Lists /\ heap \subseteq Nodes /\ alive \subseteq Values
  /\ head \in [Lists -> Pointers] /\ tail \in [Lists -> Pointers]
  /\ len \in [Lists -> Nat]
  /\ prev \in [Nodes -> Pointers] /\ next \in [Nodes -> Pointers]
  /\ value \in [Nodes -> Values \union {Null}]
  /\ iter \in [list : Lists \union {Null}, dir : {"head", "tail"}, next : Pointers]
  /\ given \in Pointers /\ todo \in Seq(Nodes)
  /\ calm \in BOOLEAN /\ crashed \in BOOLEAN /\ methods \in Methods

\* With free and dup methods, the nodes hold different values, all allocated.
OwnValues ==
  HasFree /\ HasDup => \A m, n \in heap : /\ value[n] \in alive
                                          /\ m # n => value[m] # value[n]

\* No call that keeps to the comments dereferences NULL or a freed node or
\* frees a value twice (every function of mcr_list.c), nor leaves values behind
\* that a later one would free twice.
NoFault == ~crashed /\ OwnValues

\* Every allocated node is in exactly one list: none is lost, none shared.
Partitioned ==
  /\ heap = UNION {InList(l) : l \in Lists}
  /\ \A l, o \in Lists : l # o => InList(l) \cap InList(o) = {}

\* Each header is at the two ends of one chain of len allocated nodes, linked
\* the same way in both directions ("the list o remains empty but otherwise
\* valid", listJoin), the chains of two lists share no node, and no node is in
\* none: what is allocated is what the lists hold.
Linked ==
  /\ TypeOK
  /\ Partitioned
  /\ \A l \in Lists :
       /\ Len(Chain(next, head[l])) = len[l]
       /\ Cardinality(InList(l)) = len[l]
       /\ Chain(prev, tail[l]) = Reverse(Walk(l))

\* "It's valid to remove the currently returned element using listDelNode()":
\* an iteration returns what was in the list when it started, each element
\* once and in order, whichever of the returned ones were deleted; and whatever
\* else is added, moved or joined meanwhile, listNext never meets a freed node.
IterationExact ==
  /\ iter.next \in heap \union {Null}
  /\ calm => Chain(Link(iter.dir), iter.next) = todo

\* "zero-based index where 0 is the head ... -1 is the last element ... If the
\* index is out of range NULL is returned" (listIndex), "the first matching node
\* pointer is returned" (listSearchKey).
LookupsRight ==
  \A l \in made :
    /\ \A i \in -(Cardinality(Nodes) + 1)..Cardinality(Nodes) :
         listIndex(l, i) = IF i \in 0..len[l] - 1 THEN Walk(l)[i + 1]
                           ELSE IF i \in -len[l]..-1 THEN Walk(l)[len[l] + 1 + i]
                           ELSE Null
    /\ \A v \in Values :
         LET n == listSearchKey(l, v) IN
         IF n = Null THEN \A i \in 1..len[l] : value[Walk(l)[i]] # v
         ELSE \E i \in 1..len[l] : /\ Walk(l)[i] = n /\ value[n] = v
                                  /\ \A j \in 1..i - 1 : value[Walk(l)[j]] # v

\* The heap of nodes, seen as sequences of values.
AsSeq == INSTANCE ListSeq
           WITH copies <- HasDup,
                items  <- [l \in Lists |-> IF l \in made THEN ValuesOf(Walk(l))
                                           ELSE <<>>]

\* Every call changes the lists as its comment says.
ImplementsSeq == AsSeq!Spec

=============================================================================
