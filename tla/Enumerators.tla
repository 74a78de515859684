---------------------------- MODULE Enumerators -----------------------------
(***************************************************************************)
(* The enumerators a contract makes of arrays and maps, and what it makes  *)
(* of these: neo/SmartContract/Iterable and the services of                *)
(* neo/SmartContract/StateMachine.py that create and use them.             *)
(*                                                                         *)
(* Objects of the heap:                                                    *)
(*   Generator       Python's iterator over a list or a dictionary         *)
(*   Enumerator      EnumeratorBase: a generator, the last key and value   *)
(*   Keys, Values    an iterator of which one half is handed out           *)
(*   Concat          ConcatenatedEnumerator: two generators                *)
(*   ConcatIterator  ConcatenatedIterator: two iterators                   *)
(*   Lister          ArrayWrapper of a list that does not change           *)
(* What is made of an enumerator shares its generator with it.             *)
(***************************************************************************)
EXTENDS StackItems

Iterators == {"Enumerator", "ConcatIterator", "Lister"}
AllEnumerators == Iterators \cup {"Keys", "Values", "Concat"}

Raised == [raises |-> TRUE]

-----------------------------------------------------------------------------
(* Python's iterators: the heap after next(), and whether there was one    *)
(* more, there was none, or it raised.                                     *)

Entries(heap, c) == IF heap[c].kind = "Map" THEN heap[c].keys ELSE heap[c].items
KeyAt(heap, c, i) == IF heap[c].kind = "Map" THEN heap[c].keys[i] ELSE Int32(i - 1)
ValueAt(heap, c, i) == IF heap[c].kind = "Map" THEN heap[c].values[i] ELSE heap[c].items[i]

GeneratorOver(heap, c) ==
    [kind |-> "Generator", over |-> c, pos |-> 0, size |-> Len(Entries(heap, c)), done |-> FALSE]

\* A dictionary that has grown, or has not one key the less for another.
Grown(heap, g) ==
    heap[heap[g].over].kind = "Map" /\ Len(Entries(heap, heap[g].over)) # heap[g].size

\* Once it has said that there is no more, it says so for ever.
Advance(heap, g) ==
    CASE heap[g].done -> [heap |-> heap, more |-> "no"]
      [] ~heap[g].done /\ Grown(heap, g) -> [heap |-> heap, more |-> "raises"]
      [] ~heap[g].done /\ ~Grown(heap, g) ->
            IF heap[g].pos < Len(Entries(heap, heap[g].over))
            THEN [heap |-> [heap EXCEPT ![g].pos = @ + 1], more |-> "yes"]
            ELSE [heap |-> [heap EXCEPT ![g].done = TRUE], more |-> "no"]

-----------------------------------------------------------------------------
(* Next, Key and Value of each kind.                                       *)

\* next(generator) by enumerator e, which keeps what it was given.
Take(heap, e, g) ==
    LET a == Advance(heap, g)
        c == heap[g].over
    IN  IF a.more # "yes" THEN a
        ELSE [a EXCEPT !.heap[e].key = KeyAt(heap, c, a.heap[g].pos),
                       !.heap[e].value = ValueAt(heap, c, a.heap[g].pos)]

ListerNext(heap, e) ==
    IF heap[e].index + 1 >= Len(heap[e].items) THEN [heap |-> heap, more |-> "no"]
    ELSE [heap |-> [heap EXCEPT ![e].index = @ + 1], more |-> "yes"]

\* Mutant: the first says that there is no more, before the second is asked.
ConcatNextStops(heap, e) ==
    LET a == Take(heap, e, heap[e].current)
    IN  IF a.more = "no" THEN [a EXCEPT !.heap[e].current = heap[e].second] ELSE a

ConcatNext(heap, e) ==
    LET a == Take(heap, e, heap[e].current)
    IN  IF a.more = "no" /\ heap[e].current # heap[e].second
        THEN Take([a.heap EXCEPT ![e].current = heap[e].second], e, heap[e].second)
        ELSE a

RECURSIVE NextOf(_, _)

ConcatIteratorNext(heap, e) ==
    LET a == NextOf(heap, heap[e].current)
    IN  IF a.more = "no"
        THEN NextOf([a.heap EXCEPT ![e].current = heap[e].second], heap[e].second)
        ELSE a

NextOf(heap, e) ==
    CASE heap[e].kind = "Enumerator"         -> Take(heap, e, heap[e].generator)
      [] heap[e].kind \in {"Keys", "Values"} -> NextOf(heap, heap[e].of)
      [] heap[e].kind = "Concat"             -> ConcatNext(heap, e)
      [] heap[e].kind = "ConcatIterator"     -> ConcatIteratorNext(heap, e)
      [] heap[e].kind = "Lister"             -> ListerNext(heap, e)

RECURSIVE ValueOf(_, _, _)

\* half is "key" or "value".  Before the first Next an enumerator has None to
\* give, a lister raises.
ValueOf(heap, e, half) ==
    CASE heap[e].kind \in {"Enumerator", "Concat"} -> heap[e][half]
      [] heap[e].kind = "Keys"                     -> ValueOf(heap, heap[e].of, "key")
      [] heap[e].kind = "Values"                   -> ValueOf(heap, heap[e].of, "value")
      [] heap[e].kind = "ConcatIterator"           -> ValueOf(heap, heap[e].current, half)
      [] heap[e].kind = "Lister"                   ->
            IF heap[e].index < 0 THEN Raised
            ELSE IF half = "key" THEN Int32(heap[e].index)
            ELSE heap[e].items[heap[e].index + 1]

-----------------------------------------------------------------------------
(* Making them.  Each gives the heap and the new item, or Failed.          *)

Failed == [failed |-> TRUE]

Wrapper(heap, c) ==
    LET g == New(heap, GeneratorOver(heap, c))
    IN  New(g.heap, [kind |-> "Enumerator", generator |-> g.item.ref, key |-> None, value |-> None])

Enumerator_Create(heap, x) == IF Kind(heap, x) \in Arrays THEN Wrapper(heap, x.ref) ELSE Failed

Iterator_Create(heap, x) == IF Kind(heap, x) = "Map" THEN Wrapper(heap, x.ref) ELSE Failed

\* Only what has a generator of its own can be concatenated: the others lack
\* the attribute.
Enumerator_Concat(heap, x, y) ==
    IF Kind(heap, x) = "Enumerator" /\ Kind(heap, y) = "Enumerator"
    THEN New(heap, [kind |-> "Concat", key |-> None, value |-> None,
                    first |-> heap[x.ref].generator, current |-> heap[x.ref].generator,
                    second |-> heap[y.ref].generator])
    ELSE Failed

Iterator_Keys(heap, x) ==
    IF Kind(heap, x) \in Iterators THEN New(heap, [kind |-> "Keys", of |-> x.ref]) ELSE Failed

Iterator_Values(heap, x) ==
    IF Kind(heap, x) \in Iterators THEN New(heap, [kind |-> "Values", of |-> x.ref]) ELSE Failed

RECURSIVE Drained(_, _, _)

Drained(heap, e, items) ==
    LET a == NextOf(heap, e)
    IN  IF a.more = "yes" THEN Drained(a.heap, e, Append(items, ValueOf(a.heap, e, "value")))
        ELSE [heap |-> a.heap, raised |-> a.more = "raises", items |-> items]

ConcatIteratorOf(heap, first, second) ==
    New(heap, [kind |-> "ConcatIterator", first |-> first, current |-> first, second |-> second])

\* Concatenated with itself, an iterator is read to its end first, and what it
\* had is listed twice.
Iterator_Concat(heap, x, y) ==
    IF ~{Kind(heap, x), Kind(heap, y)} \subseteq Iterators THEN Failed
    ELSE IF x # y THEN ConcatIteratorOf(heap, x.ref, y.ref)
    ELSE LET d  == Drained(heap, x.ref, <<>>)
             l  == [kind |-> "Lister", items |-> d.items, index |-> -1]
             l1 == New(d.heap, l)
             l2 == New(l1.heap, l)
         IN  IF d.raised THEN Failed
             ELSE ConcatIteratorOf(l2.heap, l1.item.ref, l2.item.ref)

-----------------------------------------------------------------------------
(* What an enumerator is for whoever uses it: the sequence of what is left *)
(* in its sources, whatever it is made of.                                 *)

RECURSIVE Sources(_, _)

Sources(heap, e) ==
    CASE heap[e].kind = "Enumerator"         -> <<heap[e].generator>>
      [] heap[e].kind \in {"Keys", "Values"} -> Sources(heap, heap[e].of)
      [] heap[e].kind = "Concat"             -> <<heap[e].first, heap[e].second>>
      [] heap[e].kind = "ConcatIterator"     ->
            Sources(heap, heap[e].first) \o Sources(heap, heap[e].second)
      [] heap[e].kind = "Lister"             -> <<e>>

\* The pairs of key and value a source has not handed out.
Left(heap, src) ==
    IF heap[src].kind = "Lister"
    THEN [i \in 1..(Len(heap[src].items) - heap[src].index - 1) |->
            [key |-> Int32(heap[src].index + i), value |-> heap[src].items[heap[src].index + 1 + i]]]
    ELSE LET c    == heap[src].over
             left == IF heap[src].done THEN 0 ELSE Len(Entries(heap, c)) - heap[src].pos
         IN  [i \in 1..left |-> [key |-> KeyAt(heap, c, heap[src].pos + i),
                                 value |-> ValueAt(heap, c, heap[src].pos + i)]]

\* A source that was named before has nothing left when its turn comes again.
Rest(heap, e) ==
    LET srcs == Sources(heap, e)
    IN  FlattenSeq([i \in DOMAIN srcs |->
            IF \E j \in 1..(i - 1) : srcs[j] = srcs[i] THEN <<>> ELSE Left(heap, srcs[i])])

Half(heap, e, entry) == IF heap[e].kind = "Keys" THEN entry.key ELSE entry.value

\* Next hands out the head of what is left and leaves the tail; it says that
\* there is no more when nothing is left, and raises for a map that has grown.
HandsTheHead(heap, e) ==
    LET n    == NextOf(heap, e)
        rest == Rest(heap, e)
    IN  IF n.more = "raises"
        THEN \E i \in DOMAIN Sources(heap, e) : Grown(heap, Sources(heap, e)[i])
        ELSE /\ n.more = "yes" <=> rest # <<>>
             /\ n.more = "yes" =>
                    /\ ValueOf(n.heap, e, "value") = Half(heap, e, Head(rest))
                    /\ Rest(n.heap, e) = Tail(rest)
=============================================================================
