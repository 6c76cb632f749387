------------------------------ MODULE LinkedList ------------------------------
(***************************************************************************)
(* utils::BaseList, ListItem and List (src/src/utils/list.cpp, list.h): a  *)
(* doubly linked list threaded through its items.  A list is a record of   *)
(* its members and of the three pointers of every item; `listed' holds the *)
(* items whose m_list points to it.  Every operation returns the list it   *)
(* leaves behind.                                                          *)
(***************************************************************************)
EXTENDS Naturals, Sequences

CONSTANTS Items, NULL

EmptyList == [first |-> NULL, last |-> NULL, count |-> 0, listed |-> {},
              prev |-> [x \in Items |-> NULL], next |-> [x \in Items |-> NULL]]

contains(l, x) == x \in l.listed

push_front(l, x) ==
    LET next == [l.next EXCEPT ![x] = l.first]
    IN  IF l.count = 0
        THEN [l EXCEPT !.first = x, !.last = x, !.count = 1, !.next = next,
                       !.listed = @ \cup {x}]
        ELSE [l EXCEPT !.first = x, !.count = @ + 1, !.next = next,
                       !.prev[l.first] = x, !.listed = @ \cup {x}]

\* Mutation of push_back: the new item does not point back.
push_back_OneWay(l, x) ==
    IF l.count = 0
    THEN [l EXCEPT !.first = x, !.last = x, !.count = 1, !.listed = @ \cup {x}]
    ELSE [l EXCEPT !.last = x, !.count = @ + 1, !.next[l.last] = x,
                   !.listed = @ \cup {x}]

push_back(l, x) ==
    LET prev == [l.prev EXCEPT ![x] = l.last]
    IN  IF l.count = 0
        THEN [l EXCEPT !.first = x, !.last = x, !.count = 1, !.prev = prev,
                       !.listed = @ \cup {x}]
        ELSE [l EXCEPT !.last = x, !.count = @ + 1, !.prev = prev,
                       !.next[l.last] = x, !.listed = @ \cup {x}]

\* Unlinks x on both sides, then clears its own pointers.
remove(l, x) ==
    LET n == l.next[x]  p == l.prev[x]
        next == IF l.first = x THEN l.next ELSE [l.next EXCEPT ![p] = n]
        prev == IF l.last = x  THEN l.prev ELSE [l.prev EXCEPT ![n] = p]
    IN  [first  |-> IF l.first = x THEN n ELSE l.first,
         last   |-> IF l.last = x  THEN p ELSE l.last,
         count  |-> l.count - 1,
         listed |-> l.listed \ {x},
         prev   |-> [prev EXCEPT ![x] = NULL],
         next   |-> [next EXCEPT ![x] = NULL]]

move_to_front(l, x) == push_front(remove(l, x), x)
move_to_back(l, x)  == push_back(remove(l, x), x)

\* The items from get_first() on, by get_next().
InOrder(l) ==
    LET at[i \in 1..l.count] ==
            IF i = 1 THEN l.first
            ELSE IF at[i - 1] = NULL THEN NULL ELSE l.next[at[i - 1]]
    IN  at

Before(s, i) == IF i = 1 THEN NULL ELSE s[i - 1]
After(s, i) == IF i = Len(s) THEN NULL ELSE s[i + 1]

\* The list l is the sequence s of different items, in both directions, and items
\* outside of it point nowhere.
Represents(l, s) ==
    /\ \A i, j \in 1..Len(s) : s[i] = s[j] => i = j
    /\ l.count = Len(s)
    /\ l.listed = {s[i] : i \in 1..Len(s)}
    /\ l.first = IF s = <<>> THEN NULL ELSE s[1]
    /\ l.last  = IF s = <<>> THEN NULL ELSE s[Len(s)]
    /\ \A i \in 1..Len(s) : l.prev[s[i]] = Before(s, i) /\ l.next[s[i]] = After(s, i)
    /\ \A x \in Items \ l.listed : l.prev[x] = NULL /\ l.next[x] = NULL
=============================================================================
