------------------------------- MODULE ListSeq -------------------------------
(***************************************************************************)
(* What the list library promises: each list is a sequence of values.      *)
(***************************************************************************)
EXTENDS Integers, Sequences, SequencesExt

CONSTANTS Lists, Values

VARIABLES made,    \* the lists that exist
          items,   \* their values; no list, no values
          copies   \* values are duplicated by a method when a list is

lvars == <<made, items, copies>>

Init == made = {} /\ items = [l \in Lists |-> <<>>]
        /\ copies \in BOOLEAN

Change(l, s) == items' = [items EXCEPT ![l] = s] /\ UNCHANGED made

Create(l)  == l \notin made /\ made' = made \union {l} /\ UNCHANGED items
Release(l) == /\ l \in made /\ made' = made \ {l}
              /\ items' = [items EXCEPT ![l] = <<>>]
Empty(l)   == l \in made /\ Change(l, <<>>)

AddHead(l) == l \in made /\ \E v \in Values : Change(l, <<v>> \o items[l])
AddTail(l) == l \in made /\ \E v \in Values : Change(l, Append(items[l], v))

\* Next to an existing element: the new one is i-th.
Insert(l) == /\ l \in made /\ items[l] # <<>>
             /\ \E v \in Values, i \in 1..Len(items[l]) + 1 :
                  Change(l, InsertAt(items[l], i, v))

Delete(l) == /\ l \in made
             /\ \E i \in 1..Len(items[l]) : Change(l, RemoveAt(items[l], i))

Rotate(l) == /\ l \in made /\ Len(items[l]) > 1
             /\ Change(l, <<Last(items[l])>> \o Front(items[l]))

Join(l, o) == /\ {l, o} \subseteq made /\ l # o
              /\ items' = [items EXCEPT ![l] = @ \o items[o], ![o] = <<>>]
              /\ UNCHANGED made

Dup(o, c) == /\ o \in made /\ c \notin made /\ made' = made \union {c}
             /\ \E s \in IF copies THEN TupleOf(Values, Len(items[o]))
                         ELSE {items[o]} :
                  items' = [items EXCEPT ![c] = s]

Call == \/ \E l \in Lists : \/ Create(l) \/ Release(l) \/ Empty(l)
                            \/ AddHead(l) \/ AddTail(l) \/ Insert(l)
                            \/ Delete(l) \/ Rotate(l)
        \/ \E l, o \in Lists : Join(l, o) \/ Dup(l, o)

Next == Call /\ UNCHANGED copies

Spec == Init /\ [][Next]_lvars

=============================================================================
