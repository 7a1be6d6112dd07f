------------------------------- MODULE Lists -------------------------------
(***************************************************************************)
(* The doubly linked lists of Granary at the level of their pointers:      *)
(* list<T> (list.h), which caches its items for reuse, and                 *)
(* instruction_list (instruction.cc), whose items are instructions that    *)
(* move between lists.  `model` is the sequence that each list stands for. *)
(***************************************************************************)
EXTENDS Integers, FiniteSets, Sequences, SequencesExt

CONSTANTS Items,        \* list items, or instructions
          Generic,      \* the lists that are list<T>
          Instructions, \* the lists that are instruction_list
          null          \* nullptr

VARIABLES next, prev,   \* the links of every item
          list,         \* first_, last_, cache_ and length_ of every list
          free,         \* items that nobody has allocated
          model

vars == <<next, prev, list, free, model>>

AllLists == Generic \union Instructions
Empty == [first |-> null, last |-> null, cache |-> null, length |-> 0]

\* The state that the operations work on.
State == [next |-> next, prev |-> prev, list |-> list]
Become(s) == next' = s.next /\ prev' = s.prev /\ list' = s.list

Init ==
    /\ next = [i \in Items |-> null] /\ prev = [i \in Items |-> null]
    /\ list = [l \in AllLists |-> Empty]
    /\ free = Items
    /\ model = [l \in AllLists |-> <<>>]

-----------------------------------------------------------------------------

append(s, l, item) ==
    LET before == s.list[l].last
    IN  [next |-> [i \in Items |-> IF i = item THEN null ELSE IF i = before THEN item ELSE s.next[i]],
         prev |-> [s.prev EXCEPT ![item] = before],
         list |-> [s.list EXCEPT ![l].last = item, ![l].length = @ + 1,
                                 ![l].first = IF s.list[l].length = 0 THEN item ELSE @]]

prepend(s, l, item) ==
    LET after == s.list[l].first
    IN  [next |-> [s.next EXCEPT ![item] = after],
         prev |-> [i \in Items |-> IF i = item THEN null ELSE IF i = after THEN item ELSE s.prev[i]],
         list |-> [s.list EXCEPT ![l].first = item, ![l].length = @ + 1,
                                 ![l].last = IF s.list[l].length = 0 THEN item ELSE @]]

chain(s, l, before, item, after) ==
    [next |-> [s.next EXCEPT ![before] = item, ![item] = after],
     prev |-> [s.prev EXCEPT ![item] = before, ![after] = item],
     list |-> [s.list EXCEPT ![l].length = @ + 1]]

insert_before(s, l, after, item) ==
    IF s.list[l].length <= 1 \/ after = null \/ s.prev[after] = null
    THEN prepend(s, l, item)
    ELSE chain(s, l, s.prev[after], item, after)

insert_after(s, l, before, item) ==
    IF s.list[l].length <= 1 \/ before = null \/ s.next[before] = null
    THEN append(s, l, item)
    ELSE chain(s, l, before, item, s.next[before])

\* As remove would be if it forgot that the first item has no predecessor.
remove_KeepFirst(s, l, item) ==
    LET p == s.prev[item]
        n == s.next[item]
    IN  [next |-> IF p = null THEN s.next ELSE [s.next EXCEPT ![p] = n],
         prev |-> IF n = null THEN s.prev ELSE [s.prev EXCEPT ![n] = p],
         list |-> [s.list EXCEPT ![l].length = @ - 1,
                                 ![l].last = IF n = null THEN p ELSE @]]

\* Only instruction_list clears the links of what it removes.
remove(s, l, item) ==
    LET p == s.prev[item]
        n == s.next[item]
        gone == IF l \in Instructions THEN {item} ELSE {}
    IN  [next |-> [i \in Items |-> IF i \in gone THEN null ELSE IF i = p THEN n ELSE s.next[i]],
         prev |-> [i \in Items |-> IF i \in gone THEN null ELSE IF i = n THEN p ELSE s.prev[i]],
         list |-> [s.list EXCEPT ![l].length = @ - 1,
                                 ![l].first = IF p = null THEN n ELSE @,
                                 ![l].last = IF n = null THEN p ELSE @]]

-----------------------------------------------------------------------------

\* list::allocate_: the items it may give, and the state that it leaves: the
\* item zeroed, and out of the cache. Instructions have no cache.
NewItems(l) == IF list[l].cache # null THEN {list[l].cache} ELSE free

allocate_(l, item) ==
    [next |-> [next EXCEPT ![item] = null],
     prev |-> [prev EXCEPT ![item] = null],
     list |-> [list EXCEPT ![l].cache = IF @ = null THEN null ELSE next[@]]]

\* The two ends: append and prepend of a value.
AddAtEnd(l) ==
    \E item \in NewItems(l) :
        /\ free' = free \ {item}
        /\ \/ /\ Become(append(allocate_(l, item), l, item))
              /\ model' = [model EXCEPT ![l] = Append(@, item)]
           \/ /\ Become(prepend(allocate_(l, item), l, item))
              /\ model' = [model EXCEPT ![l] = <<item>> \o @]

\* insert_before and insert_after of a value, at an item of the list.
Insert(l) ==
    \E item \in NewItems(l), k \in DOMAIN model[l] :
        /\ free' = free \ {item}
        /\ \/ /\ Become(insert_before(allocate_(l, item), l, model[l][k], item))
              /\ model' = [model EXCEPT ![l] = InsertAt(@, k, item)]
           \/ /\ Become(insert_after(allocate_(l, item), l, model[l][k], item))
              /\ model' = [model EXCEPT ![l] = InsertAt(@, k + 1, item)]

\* The item that list<T> removes stays with the handle; it is not cached. An
\* instruction may be inserted again.
RemoveOne(l) ==
    \E k \in DOMAIN model[l] :
        /\ Become(remove(State, l, model[l][k]))
        /\ model' = [model EXCEPT ![l] = RemoveAt(@, k)]
        /\ free' = IF l \in Instructions THEN free \union {model[l][k]} ELSE free

\* pop, of an empty list too.
pop(l) ==
    /\ model' = [model EXCEPT ![l] = IF @ = <<>> THEN <<>> ELSE Front(@)]
    /\ IF list[l].last = null THEN UNCHANGED <<next, prev, list>>
       ELSE Become(remove(State, l, list[l].last))
    /\ UNCHANGED free

remove_tail_at(l) ==
    \E k \in DOMAIN model[l] :
        LET tail == SubSeq(model[l], k, Len(model[l]))
        IN  /\ Become(FoldLeft(LAMBDA s, item : remove(s, l, item), State, tail))
            /\ model' = [model EXCEPT ![l] = SubSeq(@, 1, k - 1)]
            /\ free' = free \union Range(tail)

clear_for_reuse(l) ==
    /\ IF list[l].first = null THEN UNCHANGED <<next, list>>
       ELSE /\ next' = [next EXCEPT ![list[l].last] = list[l].cache]
            /\ list' = [list EXCEPT ![l] = [Empty EXCEPT !.cache = list[l].first]]
    /\ model' = [model EXCEPT ![l] = <<>>]
    /\ UNCHANGED <<prev, free>>

\* The items from i on.
Walk(nxt, i) ==
    LET w[n \in 0 .. Cardinality(Items), j \in Items \union {null}] ==
            IF j = null \/ n = 0 THEN <<>> ELSE <<j>> \o w[n - 1, nxt[j]]
    IN  w[Cardinality(Items), i]

\* clear of a list<T> frees the items and the cached ones; clear of an
\* instruction_list forgets its instructions, which the pool gets back.
clear(l) ==
    /\ IF list[l].first = null THEN UNCHANGED <<list, free>>
       ELSE /\ list' = [list EXCEPT ![l] = Empty]
            /\ free' = free \union Range(Walk(next, list[l].first))
                             \union Range(Walk(next, list[l].cache))
    /\ model' = [model EXCEPT ![l] = <<>>]
    /\ UNCHANGED <<next, prev>>

\* list(self_type &&that), as the list l is made.
Move(l, that) ==
    /\ list[l] = Empty /\ l # that
    /\ list' = [list EXCEPT ![l] = list[that], ![that] = Empty]
    /\ model' = [model EXCEPT ![l] = model[that], ![that] = <<>>]
    /\ UNCHANGED <<next, prev, free>>

extend(l, that) ==
    /\ l # that
    /\ LET a == list[l]
           b == list[that]
       IN  IF b.length = 0 THEN UNCHANGED <<next, prev, list>>
           ELSE /\ list' = [list EXCEPT ![that] = Empty,
                              ![l] = [a EXCEPT !.length = @ + b.length, !.last = b.last,
                                               !.first = IF a.last = null THEN b.first ELSE @]]
                /\ IF a.last = null THEN UNCHANGED <<next, prev>>
                   ELSE /\ next' = [next EXCEPT ![a.last] = b.first]
                        /\ prev' = [prev EXCEPT ![b.first] = a.last]
    /\ model' = [model EXCEPT ![l] = @ \o model[that], ![that] = <<>>]
    /\ UNCHANGED free

Next ==
    \/ \E l \in AllLists : AddAtEnd(l) \/ Insert(l) \/ RemoveOne(l) \/ clear(l)
    \/ \E l \in Generic : pop(l) \/ clear_for_reuse(l) \/ (\E that \in Generic : Move(l, that))
    \/ \E l \in Instructions :
        remove_tail_at(l) \/ (\E that \in Instructions : extend(l, that))

Spec == Init /\ [][Next]_vars

-----------------------------------------------------------------------------

\* Whatever the operations before, following next from first_ and prev from
\* last_ gives the items that the list should hold, forwards and backwards,
\* length_ counts them, and no item is in a list and in a cache at once.
ListsAreConsistent ==
    \A l \in AllLists :
        /\ Walk(next, list[l].first) = model[l]
        /\ Walk(prev, list[l].last) = Reverse(model[l])
        /\ list[l].length = Len(model[l])
        /\ Range(Walk(next, list[l].cache)) \cap (free \union UNION {Range(model[k]) : k \in AllLists}) = {}
=============================================================================
