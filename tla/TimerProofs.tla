------------------------------ MODULE TimerProofs ------------------------------
(***************************************************************************)
(* Timer for any number of timers, threads and calls and any intervals:    *)
(* the invariants of its run hold of every behaviour.  First the           *)
(* operations of LinkedList on lists of any length: a list that represents *)
(* a sequence represents, after an operation, the sequence the operation   *)
(* stands for, and the items found by following the links are that         *)
(* sequence.  Then the timer; what its thread knows at each of its places  *)
(* is in Choice and Firing.                                                *)
(***************************************************************************)
EXTENDS Timer, WellFoundedInduction, TLAPS

(* The list as such. *)

Lists == [first : Timers \cup {NULL}, last : Timers \cup {NULL}, count : Nat,
          listed : SUBSET Timers,
          prev : [Timers -> Timers \cup {NULL}], next : [Timers -> Timers \cup {NULL}]]

\* An empty list is the empty sequence.
LEMMA EmptyRepresents == EmptyList \in Lists /\ Represents(EmptyList, <<>>)
<1>1. EmptyList \in Lists
    BY DEF EmptyList, Lists
<1>2. Len(<<>>) = 0 /\ 1..0 = {}
    OBVIOUS
<1> QED
    BY <1>1, <1>2 DEF EmptyList, Represents

LEMMA RepresentsFacts ==
    ASSUME NEW l \in Lists, NEW s \in Seq(Timers), Represents(l, s)
    PROVE  /\ Len(s) \in Nat /\ l.count = Len(s) /\ DOMAIN s = 1..Len(s)
           /\ \A i \in 1..Len(s) : s[i] \in Timers /\ contains(l, s[i])
           /\ \A x : contains(l, x) <=> \E i \in 1..Len(s) : s[i] = x
           /\ Len(s) = 0 => l.first = NULL /\ l.last = NULL
           /\ Len(s) # 0 => l.first = s[1] /\ l.last = s[Len(s)]
<1>1. Len(s) \in Nat /\ DOMAIN s = 1..Len(s) /\ (Len(s) = 0 <=> s = <<>>)
      /\ \A i \in 1..Len(s) : s[i] \in Timers
    OBVIOUS
<1> QED
    BY <1>1 DEF Represents, contains

LEMMA AppendFacts ==
    ASSUME NEW S, NEW s \in Seq(S), NEW x \in S
    PROVE  /\ Append(s, x) \in Seq(S)
           /\ Len(s) \in Nat /\ Len(Append(s, x)) = Len(s) + 1
           /\ \A i \in 1..Len(s) : Append(s, x)[i] = s[i]
           /\ Append(s, x)[Len(s) + 1] = x
    OBVIOUS

\* push_back appends an item that is not in the list.
THEOREM PushBackRepresents ==
    ASSUME NULL \notin Timers, NEW l \in Lists, NEW s \in Seq(Timers), Represents(l, s),
           NEW x \in Timers, ~contains(l, x)
    PROVE  push_back(l, x) \in Lists /\ Represents(push_back(l, x), Append(s, x))
<1> DEFINE n == Len(s)
           t == Append(s, x)
           m == push_back(l, x)
<1>1. /\ n \in Nat /\ l.count = n
      /\ \A i \in 1..n : s[i] \in Timers /\ contains(l, s[i])
      /\ \A y : contains(l, y) <=> \E i \in 1..n : s[i] = y
      /\ n = 0 => l.first = NULL /\ l.last = NULL
      /\ n # 0 => l.first = s[1] /\ l.last = s[n]
    BY RepresentsFacts
<1>2. /\ t \in Seq(Timers) /\ Len(t) = n + 1
      /\ \A i \in 1..n : t[i] = s[i]
      /\ t[n + 1] = x
    BY AppendFacts
<1>3. \A i \in 1..n : s[i] # x
    BY <1>1
<1>4. /\ m.first = IF n = 0 THEN x ELSE l.first
      /\ m.last = x /\ m.count = n + 1 /\ m.listed = l.listed \cup {x}
      /\ m.prev = [l.prev EXCEPT ![x] = l.last]
      /\ m.next = IF n = 0 THEN l.next ELSE [l.next EXCEPT ![l.last] = x]
      /\ m \in Lists
  <2> DEFINE q == [l.prev EXCEPT ![x] = l.last]
  <2>1. q \in [Timers -> Timers \cup {NULL}] /\ l.last \in Timers \cup {NULL}
    BY DEF Lists
  <2>2. CASE n = 0
    <3>1. m = [l EXCEPT !.first = x, !.last = x, !.count = 1, !.prev = q,
                        !.listed = @ \cup {x}]
      BY <1>1, <2>2 DEF push_back
    <3> HIDE DEF q, m
    <3>2. m = [first |-> x, last |-> x, count |-> 1, listed |-> l.listed \cup {x},
               prev |-> q, next |-> l.next]
      BY <3>1 DEF Lists
    <3>3. m \in Lists
      BY <2>1, <3>2 DEF Lists
    <3> QED
      BY <2>2, <3>2, <3>3 DEF q
  <2>3. CASE n # 0
    <3>1. l.last \in Timers
      BY <1>1, <2>3
    <3>2. [l.next EXCEPT ![l.last] = x] \in [Timers -> Timers \cup {NULL}]
      BY <3>1 DEF Lists
    <3>3. m = [l EXCEPT !.last = x, !.count = @ + 1, !.prev = q,
                        !.next[l.last] = x, !.listed = @ \cup {x}]
      BY <1>1, <2>3 DEF push_back
    <3> HIDE DEF q, m
    <3>4. m = [first |-> l.first, last |-> x, count |-> l.count + 1,
               listed |-> l.listed \cup {x}, prev |-> q,
               next |-> [l.next EXCEPT ![l.last] = x]]
      BY <3>3 DEF Lists
    <3>5. m \in Lists
      BY <2>1, <3>2, <3>4 DEF Lists
    <3> QED
      BY <1>1, <2>3, <3>4, <3>5 DEF q
  <2> QED
    BY <2>2, <2>3
<1> HIDE DEF m, t
<1>5. \A i, j \in 1..(n + 1) : t[i] = t[j] => i = j
  <2> SUFFICES ASSUME NEW i \in 1..(n + 1), NEW j \in 1..(n + 1), t[i] = t[j] PROVE i = j
    OBVIOUS
  <2>1. \A k \in 1..(n + 1) : k \in 1..n \/ k = n + 1
    BY <1>1
  <2>2. \A k, h \in 1..n : s[k] = s[h] => k = h
    BY DEF Represents
  <2> QED
    BY <1>2, <1>3, <2>1, <2>2
<1>6. m.listed = {t[i] : i \in 1..(n + 1)}
  <2>1. l.listed = {s[i] : i \in 1..n}
    BY DEF Represents
  <2>2. 1..(n + 1) = (1..n) \cup {n + 1}
    BY <1>1
  <2>3. {t[i] : i \in 1..(n + 1)} = {t[i] : i \in 1..n} \cup {t[n + 1]}
    BY <2>2
  <2>4. {t[i] : i \in 1..n} = {s[i] : i \in 1..n}
    BY <1>2
  <2> QED
    BY <1>2, <1>4, <2>1, <2>3, <2>4
<1>7. t # <<>> /\ m.first = t[1] /\ m.last = t[n + 1]
    BY <1>1, <1>2, <1>4
<1>8. \A i \in 1..(n + 1) : m.prev[t[i]] = Before(t, i)
  <2> SUFFICES ASSUME NEW i \in 1..(n + 1) PROVE m.prev[t[i]] = Before(t, i)
    OBVIOUS
  <2>1. CASE i = n + 1
    BY <1>1, <1>2, <1>4, <2>1 DEF Before, Lists
  <2>2. CASE i \in 1..n
    <3>1. m.prev[t[i]] = l.prev[s[i]]
      BY <1>1, <1>2, <1>3, <1>4, <2>2 DEF Lists
    <3>2. l.prev[s[i]] = Before(s, i)
      BY <2>2 DEF Represents
    <3>3. i # 1 => i - 1 \in 1..n
      BY <1>1, <2>2
    <3> QED
      BY <1>2, <3>1, <3>2, <3>3 DEF Before
  <2> QED
    BY <1>1, <2>1, <2>2
<1>9. \A i \in 1..(n + 1) : m.next[t[i]] = After(t, i)
  <2> SUFFICES ASSUME NEW i \in 1..(n + 1) PROVE m.next[t[i]] = After(t, i)
    OBVIOUS
  <2>1. CASE i = n + 1
    <3>1. l.next[x] = NULL
      BY DEF Represents, contains
    <3>2. m.next[x] = NULL
      BY <1>1, <1>3, <1>4, <3>1 DEF Lists
    <3> QED
      BY <1>2, <2>1, <3>2 DEF After
  <2>2. CASE i \in 1..n /\ i = n
    BY <1>1, <1>2, <1>4, <2>2 DEF After, Lists
  <2>3. CASE i \in 1..n /\ i # n
    <3>1. s[i] # s[n] /\ n # 0
      BY <1>1, <2>3 DEF Represents
    <3>2. m.next[t[i]] = l.next[s[i]]
      BY <1>1, <1>2, <1>4, <2>3, <3>1 DEF Lists
    <3>3. l.next[s[i]] = s[i + 1] /\ i + 1 \in 1..n
      BY <1>1, <2>3 DEF Represents, After
    <3> QED
      BY <1>1, <1>2, <2>3, <3>2, <3>3 DEF After
  <2> QED
    BY <1>1, <2>1, <2>2, <2>3
<1>10. \A y \in Timers \ m.listed : m.prev[y] = NULL /\ m.next[y] = NULL
  <2> SUFFICES ASSUME NEW y \in Timers \ m.listed PROVE m.prev[y] = NULL /\ m.next[y] = NULL
    OBVIOUS
  <2>1. y # x /\ y \in Timers \ l.listed
    BY <1>4
  <2>2. n # 0 => y # l.last
    BY <1>1, <2>1 DEF contains
  <2>3. l.prev[y] = NULL /\ l.next[y] = NULL
    BY <2>1 DEF Represents
  <2> QED
    BY <1>4, <2>1, <2>2, <2>3 DEF Lists
<1> QED
  <2>1. Represents(m, t)
    BY <1>2, <1>4, <1>5, <1>6, <1>7, <1>8, <1>9, <1>10 DEF Represents
  <2> QED
    BY <1>4, <2>1 DEF m, t

LEMMA ConsFacts ==
    ASSUME NEW S, NEW s \in Seq(S), NEW x \in S
    PROVE  /\ <<x>> \o s \in Seq(S)
           /\ Len(s) \in Nat /\ Len(<<x>> \o s) = Len(s) + 1
           /\ (<<x>> \o s)[1] = x
           /\ \A i \in 1..Len(s) : (<<x>> \o s)[i + 1] = s[i]
    OBVIOUS

\* push_front puts an item that is not in the list before all others.
THEOREM PushFrontRepresents ==
    ASSUME NULL \notin Timers, NEW l \in Lists, NEW s \in Seq(Timers), Represents(l, s),
           NEW x \in Timers, ~contains(l, x)
    PROVE  push_front(l, x) \in Lists /\ Represents(push_front(l, x), <<x>> \o s)
<1> DEFINE n == Len(s)
           t == <<x>> \o s
           m == push_front(l, x)
           q == [l.next EXCEPT ![x] = l.first]
<1>1. /\ n \in Nat /\ l.count = n
      /\ \A i \in 1..n : s[i] \in Timers /\ contains(l, s[i])
      /\ \A y : contains(l, y) <=> \E i \in 1..n : s[i] = y
      /\ n = 0 => l.first = NULL /\ l.last = NULL
      /\ n # 0 => l.first = s[1] /\ l.last = s[n]
    BY RepresentsFacts
<1>2. /\ t \in Seq(Timers) /\ Len(t) = n + 1 /\ t[1] = x
      /\ \A i \in 1..n : t[i + 1] = s[i]
    BY ConsFacts
<1>3. \A i \in 1..n : s[i] # x
    BY <1>1
<1>4. q \in [Timers -> Timers \cup {NULL}] /\ l.first \in Timers \cup {NULL}
    BY DEF Lists
<1>5. /\ m.first = x /\ m.last = (IF n = 0 THEN x ELSE l.last)
      /\ m.count = n + 1 /\ m.listed = l.listed \cup {x}
      /\ m.next = q
      /\ m.prev = (IF n = 0 THEN l.prev ELSE [l.prev EXCEPT ![l.first] = x])
      /\ m \in Lists
  <2>1. CASE n = 0
    <3>1. m = [l EXCEPT !.first = x, !.last = x, !.count = 1, !.next = q,
                        !.listed = @ \cup {x}]
      BY <1>1, <2>1 DEF push_front
    <3> HIDE DEF q, m
    <3>2. m = [first |-> x, last |-> x, count |-> 1, listed |-> l.listed \cup {x},
               prev |-> l.prev, next |-> q]
      BY <3>1 DEF Lists
    <3>3. m \in Lists
      BY <1>4, <3>2 DEF Lists
    <3> QED
      BY <2>1, <3>2, <3>3
  <2>2. CASE n # 0
    <3>1. l.first \in Timers
      <4>1. 1 \in 1..n
        BY <1>1, <2>2
      <4> QED
        BY <1>1, <2>2, <4>1
    <3>2. [l.prev EXCEPT ![l.first] = x] \in [Timers -> Timers \cup {NULL}]
      BY <3>1 DEF Lists
    <3>3. m = [l EXCEPT !.first = x, !.count = @ + 1, !.next = q,
                        !.prev[l.first] = x, !.listed = @ \cup {x}]
      BY <1>1, <2>2 DEF push_front
    <3> HIDE DEF q, m
    <3>4. m = [first |-> x, last |-> l.last, count |-> l.count + 1,
               listed |-> l.listed \cup {x},
               prev |-> [l.prev EXCEPT ![l.first] = x], next |-> q]
      BY <3>3 DEF Lists
    <3>5. m \in Lists
      BY <1>4, <3>2, <3>4 DEF Lists
    <3> QED
      BY <1>1, <2>2, <3>4, <3>5
  <2> QED
    BY <2>1, <2>2
<1> HIDE DEF m, t
\* Where the elements of t come from.
<1>6. \A i \in 1..(n + 1) : \/ i = 1 /\ t[i] = x
                            \/ i # 1 /\ i - 1 \in 1..n /\ t[i] = s[i - 1]
  <2> SUFFICES ASSUME NEW i \in 1..(n + 1), i # 1 PROVE i - 1 \in 1..n /\ t[i] = s[i - 1]
    BY <1>2
  <2>1. i - 1 \in 1..n /\ (i - 1) + 1 = i
    BY <1>1
  <2> QED
    BY <1>2, <2>1
<1>7. \A i, j \in 1..(n + 1) : t[i] = t[j] => i = j
  <2> SUFFICES ASSUME NEW i \in 1..(n + 1), NEW j \in 1..(n + 1), t[i] = t[j] PROVE i = j
    OBVIOUS
  <2>1. \A k, h \in 1..n : s[k] = s[h] => k = h
    BY DEF Represents
  <2> QED
    BY <1>1, <1>3, <1>6, <2>1
<1>8. m.listed = {t[i] : i \in 1..(n + 1)}
  <2>1. l.listed = {s[i] : i \in 1..n}
    BY DEF Represents
  <2>2. \A i \in 1..n : i + 1 \in 1..(n + 1)
    BY <1>1
  <2>3. 1 \in 1..(n + 1)
    BY <1>1
  <2>4. ASSUME NEW y \in m.listed PROVE y \in {t[i] : i \in 1..(n + 1)}
    BY <1>2, <1>5, <2>1, <2>2, <2>3
  <2>5. ASSUME NEW i \in 1..(n + 1) PROVE t[i] \in m.listed
    BY <1>5, <1>6, <2>1
  <2> QED
    BY <2>4, <2>5
<1>9. t # <<>> /\ m.first = t[1] /\ m.last = t[n + 1]
  <2>1. n # 0 => n \in 1..n
    BY <1>1
  <2>2. n # 0 => t[n + 1] = s[n]
    BY <1>2, <2>1
  <2> QED
    BY <1>1, <1>2, <1>5, <2>2
<1>10. \A i \in 1..(n + 1) : m.next[t[i]] = After(t, i)
  <2> SUFFICES ASSUME NEW i \in 1..(n + 1) PROVE m.next[t[i]] = After(t, i)
    OBVIOUS
  <2>1. CASE i = 1
    <3>1. m.next[x] = l.first
      BY <1>5 DEF Lists
    <3>2. n # 0 => t[1 + 1] = s[1]
      BY <1>1, <1>2
    <3> QED
      BY <1>1, <1>2, <2>1, <3>1, <3>2 DEF After
  <2>2. CASE i # 1
    <3>1. i - 1 \in 1..n /\ t[i] = s[i - 1]
      BY <1>6, <2>2
    <3>2. m.next[t[i]] = l.next[s[i - 1]]
      BY <1>1, <1>3, <1>5, <3>1 DEF Lists
    <3>3. l.next[s[i - 1]] = After(s, i - 1)
      BY <3>1 DEF Represents
    <3>4. i # n + 1 => i \in 1..n /\ t[i + 1] = s[(i - 1) + 1]
      BY <1>1, <1>2
    <3>5. i - 1 = n <=> i = n + 1
      BY <1>1
    <3> QED
      BY <1>2, <3>2, <3>3, <3>4, <3>5 DEF After
  <2> QED
    BY <2>1, <2>2
<1>11. \A i \in 1..(n + 1) : m.prev[t[i]] = Before(t, i)
  <2> SUFFICES ASSUME NEW i \in 1..(n + 1) PROVE m.prev[t[i]] = Before(t, i)
    OBVIOUS
  <2>1. CASE i = 1
    <3>1. l.prev[x] = NULL
      BY DEF Represents, contains
    <3>2. n # 0 => x # l.first
      <4>1. n # 0 => 1 \in 1..n
        BY <1>1
      <4> QED
        BY <1>1, <1>3, <4>1
    <3>3. m.prev[x] = NULL
      BY <1>5, <3>1, <3>2 DEF Lists
    <3> QED
      BY <1>2, <2>1, <3>3 DEF Before
  <2>2. CASE i # 1
    <3>1. i - 1 \in 1..n /\ t[i] = s[i - 1] /\ n # 0 /\ 1 \in 1..n
      BY <1>1, <1>6, <2>2
    <3>2. l.prev[s[i - 1]] = Before(s, i - 1)
      BY <3>1 DEF Represents
    <3>3. CASE i - 1 = 1
      BY <1>1, <1>2, <1>5, <2>2, <3>1, <3>3 DEF Lists, Before
    <3>4. CASE i - 1 # 1
      <4>1. s[i - 1] # l.first
        BY <1>1, <3>1, <3>4 DEF Represents
      <4>2. m.prev[t[i]] = l.prev[s[i - 1]]
        BY <1>1, <1>5, <3>1, <4>1 DEF Lists
      <4>3. i - 1 \in 1..(n + 1) /\ t[i - 1] = s[(i - 1) - 1]
        BY <1>1, <1>6, <3>1, <3>4
      <4> QED
        BY <2>2, <3>2, <3>4, <4>2, <4>3 DEF Before
    <3> QED
      BY <3>3, <3>4
  <2> QED
    BY <2>1, <2>2
<1>12. \A y \in Timers \ m.listed : m.prev[y] = NULL /\ m.next[y] = NULL
  <2> SUFFICES ASSUME NEW y \in Timers \ m.listed PROVE m.prev[y] = NULL /\ m.next[y] = NULL
    OBVIOUS
  <2>1. y # x /\ y \in Timers \ l.listed
    BY <1>5
  <2>2. n # 0 => y # l.first
    <3>1. n # 0 => 1 \in 1..n
      BY <1>1
    <3> QED
      BY <1>1, <2>1, <3>1 DEF contains
  <2>3. l.prev[y] = NULL /\ l.next[y] = NULL
    BY <2>1 DEF Represents
  <2> QED
    BY <1>5, <2>1, <2>2, <2>3 DEF Lists
<1> QED
  <2>1. Represents(m, t)
    BY <1>2, <1>5, <1>7, <1>8, <1>9, <1>10, <1>11, <1>12 DEF Represents
  <2> QED
    BY <1>5, <2>1 DEF m, t

\* The sequence s without its k-th element.
Without(s, k) == [i \in 1..(Len(s) - 1) |-> IF i < k THEN s[i] ELSE s[i + 1]]

LEMMA WithoutFacts ==
    ASSUME NEW S, NEW s \in Seq(S), NEW k \in 1..Len(s)
    PROVE  /\ Without(s, k) \in Seq(S) /\ Len(Without(s, k)) = Len(s) - 1
           /\ \A i \in 1..(Len(s) - 1) :
                  Without(s, k)[i] = IF i < k THEN s[i] ELSE s[i + 1]
<1>1. Len(s) \in Nat \ {0} /\ \A i \in 1..Len(s) : s[i] \in S
    OBVIOUS
<1>2. \A i \in 1..(Len(s) - 1) : (IF i < k THEN s[i] ELSE s[i + 1]) \in S
    BY <1>1
<1> QED
    BY <1>1, <1>2 DEF Without

\* remove takes out one item, wherever it is, and clears its pointers.
THEOREM RemoveRepresents ==
    ASSUME NULL \notin Timers, NEW l \in Lists, NEW s \in Seq(Timers), Represents(l, s),
           NEW k \in 1..Len(s)
    PROVE  remove(l, s[k]) \in Lists /\ Represents(remove(l, s[k]), Without(s, k))
<1> DEFINE n == Len(s)
           x == s[k]
           t == Without(s, k)
           m == remove(l, x)
           nxt == IF k = 1 THEN l.next ELSE [l.next EXCEPT ![s[k - 1]] = After(s, k)]
           prv == IF k = n THEN l.prev ELSE [l.prev EXCEPT ![s[k + 1]] = Before(s, k)]
<1>1. /\ n \in Nat \ {0} /\ l.count = n
      /\ \A i \in 1..n : s[i] \in Timers
      /\ l.first = s[1] /\ l.last = s[n]
  <2>1. n \in Nat \ {0}
    OBVIOUS
  <2> QED
    BY <2>1, RepresentsFacts
<1>2. /\ t \in Seq(Timers) /\ Len(t) = n - 1
      /\ \A i \in 1..(n - 1) : t[i] = IF i < k THEN s[i] ELSE s[i + 1]
    BY WithoutFacts
<1>3. \A i, j \in 1..n : s[i] = s[j] => i = j
    BY DEF Represents
<1>4. l.prev[x] = Before(s, k) /\ l.next[x] = After(s, k)
    BY DEF Represents
<1>5. (l.first = x <=> k = 1) /\ (l.last = x <=> k = n)
  <2>1. 1 \in 1..n /\ n \in 1..n
    BY <1>1
  <2> QED
    BY <1>1, <1>3, <2>1
<1>6. /\ k # 1 => k - 1 \in 1..n /\ Before(s, k) = s[k - 1]
      /\ k # n => k + 1 \in 1..n /\ After(s, k) = s[k + 1]
      /\ k = 1 => Before(s, k) = NULL
      /\ k = n => After(s, k) = NULL
    BY <1>1 DEF Before, After
<1>7. m = [first  |-> IF k = 1 THEN After(s, k) ELSE l.first,
           last   |-> IF k = n THEN Before(s, k) ELSE l.last,
           count  |-> n - 1,
           listed |-> l.listed \ {x},
           prev   |-> [prv EXCEPT ![x] = NULL],
           next   |-> [nxt EXCEPT ![x] = NULL]]
    BY <1>1, <1>4, <1>5, <1>6 DEF remove
<1>8. Before(s, k) \in Timers \cup {NULL} /\ After(s, k) \in Timers \cup {NULL}
    BY <1>1, <1>6
<1>9. /\ nxt \in [Timers -> Timers \cup {NULL}] /\ prv \in [Timers -> Timers \cup {NULL}]
    BY <1>1, <1>6, <1>8 DEF Lists
<1>10. \A y \in Timers :
         /\ m.prev[y] = IF y = x THEN NULL
                        ELSE IF k # n /\ y = s[k + 1] THEN Before(s, k) ELSE l.prev[y]
         /\ m.next[y] = IF y = x THEN NULL
                        ELSE IF k # 1 /\ y = s[k - 1] THEN After(s, k) ELSE l.next[y]
  <2>1. m.prev = [prv EXCEPT ![x] = NULL] /\ m.next = [nxt EXCEPT ![x] = NULL]
    BY <1>7
  <2>2. \A y \in Timers :
          /\ prv[y] = IF k # n /\ y = s[k + 1] THEN Before(s, k) ELSE l.prev[y]
          /\ nxt[y] = IF k # 1 /\ y = s[k - 1] THEN After(s, k) ELSE l.next[y]
    BY <1>1, <1>6 DEF Lists
  <2> HIDE DEF m, nxt, prv
  <2> QED
    BY <1>9, <2>1, <2>2
<1>11. m \in Lists
  <2>1. [prv EXCEPT ![x] = NULL] \in [Timers -> Timers \cup {NULL}]
        /\ [nxt EXCEPT ![x] = NULL] \in [Timers -> Timers \cup {NULL}]
    BY <1>9
  <2>2. /\ (IF k = 1 THEN After(s, k) ELSE l.first) \in Timers \cup {NULL}
        /\ (IF k = n THEN Before(s, k) ELSE l.last) \in Timers \cup {NULL}
        /\ n - 1 \in Nat /\ l.listed \ {x} \in SUBSET Timers
    BY <1>1, <1>8 DEF Lists
  <2> HIDE DEF m, nxt, prv
  <2> QED
    BY <1>7, <2>1, <2>2 DEF Lists
<1>12. /\ m.first = (IF k = 1 THEN After(s, k) ELSE l.first)
       /\ m.last = (IF k = n THEN Before(s, k) ELSE l.last)
       /\ m.count = n - 1 /\ m.listed = l.listed \ {x}
    BY <1>7
<1> HIDE DEF m, nxt, prv, t
\* Where the elements of t come from.
<1>13. ASSUME NEW i \in 1..(n - 1)
       PROVE  \/ i < k /\ i \in 1..n /\ t[i] = s[i]
              \/ i >= k /\ i + 1 \in 1..n /\ t[i] = s[i + 1]
    BY <1>1, <1>2
<1>14. \A i, j \in 1..(n - 1) : t[i] = t[j] => i = j
  <2> SUFFICES ASSUME NEW i \in 1..(n - 1), NEW j \in 1..(n - 1), t[i] = t[j] PROVE i = j
    OBVIOUS
  <2>1. k \in 1..n /\ \A a, b \in 1..n : s[a] = s[b] => a = b
    BY <1>3
  <2> QED
    BY <1>1, <1>13, <2>1
<1>15. \A i \in 1..(n - 1) : t[i] # x /\ t[i] \in Timers
  <2> SUFFICES ASSUME NEW i \in 1..(n - 1) PROVE t[i] # x /\ t[i] \in Timers
    OBVIOUS
  <2> QED
    BY <1>1, <1>3, <1>13
<1>16. m.listed = {t[i] : i \in 1..(n - 1)}
  <2>1. l.listed = {s[i] : i \in 1..n}
    BY DEF Represents
  <2>2. ASSUME NEW y \in m.listed PROVE y \in {t[i] : i \in 1..(n - 1)}
    <3>1. PICK i \in 1..n : y = s[i]
      BY <1>12, <2>1
    <3>2. i # k
      BY <1>12, <3>1
    <3>3. CASE i < k
      <4>1. i \in 1..(n - 1) /\ t[i] = y
        BY <1>1, <1>2, <3>1, <3>3
      <4> QED
        BY <4>1
    <3>4. CASE i > k
      <4>1. i - 1 \in 1..(n - 1) /\ ~(i - 1 < k) /\ (i - 1) + 1 = i
        BY <1>1, <3>1, <3>4
      <4>2. t[i - 1] = y
        BY <1>2, <3>1, <4>1
      <4> QED
        BY <4>1, <4>2
    <3> QED
      BY <1>1, <3>2, <3>3, <3>4
  <2>3. ASSUME NEW i \in 1..(n - 1) PROVE t[i] \in m.listed
    BY <1>12, <1>13, <1>15, <2>1
  <2> QED
    BY <2>2, <2>3
<1>17. /\ m.first = IF t = <<>> THEN NULL ELSE t[1]
       /\ m.last = IF t = <<>> THEN NULL ELSE t[n - 1]
  <2>1. t = <<>> <=> n = 1
    BY <1>1, <1>2
  <2>2. CASE n = 1
    <3>1. k = 1 /\ k = n
      BY <2>2
    <3> QED
      BY <1>6, <1>12, <2>1, <3>1
  <2>3. CASE n # 1
    <3>1. 1 \in 1..(n - 1) /\ n - 1 \in 1..(n - 1) /\ (n - 1) + 1 = n
      <4>1. n \in Nat \ {0} /\ n # 1
        BY <1>1, <2>3
      <4> HIDE DEF n
      <4> QED
        BY <4>1
    <3>2. m.first = t[1]
      <4>1. t[1] = IF 1 < k THEN s[1] ELSE s[1 + 1]
        BY <1>2, <3>1
      <4>2. k # 1 => 1 < k
        BY <1>1
      <4>3. CASE k = 1
        BY <1>1, <1>6, <1>12, <2>3, <4>1, <4>3
      <4>4. CASE k # 1
        BY <1>1, <1>12, <4>1, <4>2, <4>4
      <4> QED
        BY <4>3, <4>4
    <3>3. m.last = t[n - 1]
      <4>1. t[n - 1] = IF n - 1 < k THEN s[n - 1] ELSE s[n]
        BY <1>2, <3>1
      <4>2. n - 1 < k <=> k = n
        BY <1>1
      <4> QED
        BY <1>1, <1>6, <1>12, <2>3, <4>1, <4>2
    <3> QED
      BY <2>1, <2>3, <3>2, <3>3
  <2> QED
    BY <2>2, <2>3
<1>18. ASSUME NEW i \in 1..(n - 1) PROVE m.prev[t[i]] = Before(t, i)
  <2>1. i # 1 => i - 1 \in 1..(n - 1)
    BY <1>1
  <2>2. m.prev[t[i]] = IF k # n /\ t[i] = s[k + 1] THEN Before(s, k) ELSE l.prev[t[i]]
    BY <1>10, <1>15
  <2>3. \A j \in 1..n : l.prev[s[j]] = Before(s, j)
    BY DEF Represents
  <2>4. CASE i < k
    <3>1. i \in 1..n /\ t[i] = s[i] /\ (k # n => s[i] # s[k + 1])
      BY <1>1, <1>3, <1>6, <1>13, <2>4
    <3>2. i # 1 => t[i - 1] = s[i - 1]
      BY <1>2, <2>1, <2>4
    <3> QED
      BY <2>2, <2>3, <3>1, <3>2 DEF Before
  <2>5. CASE i = k
    <3>1. k # n /\ t[i] = s[k + 1]
      BY <1>1, <1>13, <2>5
    <3>2. k # 1 => t[k - 1] = s[k - 1]
      BY <1>1, <1>2, <2>1, <2>5
    <3> QED
      BY <2>2, <2>5, <3>1, <3>2 DEF Before
  <2>6. CASE i > k
    <3>1. i + 1 \in 1..n /\ t[i] = s[i + 1] /\ (k # n => s[i + 1] # s[k + 1])
      BY <1>1, <1>3, <1>6, <1>13, <2>6
    <3>2. i # 1 /\ t[i - 1] = s[i]
      <4>1. i # 1 /\ ~(i - 1 < k) /\ (i - 1) + 1 = i
        BY <1>1, <2>6
      <4> QED
        BY <1>2, <2>1, <4>1
    <3>3. l.prev[s[i + 1]] = s[i]
      <4>1. i + 1 # 1 /\ (i + 1) - 1 = i
        BY <1>1
      <4> QED
        BY <2>3, <3>1, <4>1 DEF Before
    <3> QED
      BY <2>2, <3>1, <3>2, <3>3 DEF Before
  <2> QED
    BY <1>1, <2>4, <2>5, <2>6
<1>19. ASSUME NEW i \in 1..(n - 1) PROVE m.next[t[i]] = After(t, i)
  <2>1. i # n - 1 => i + 1 \in 1..(n - 1)
    BY <1>1
  <2>2. m.next[t[i]] = IF k # 1 /\ t[i] = s[k - 1] THEN After(s, k) ELSE l.next[t[i]]
    BY <1>10, <1>15
  <2>3. \A j \in 1..n : l.next[s[j]] = After(s, j)
    BY DEF Represents
  <2>4. CASE i < k - 1
    <3>1. i \in 1..n /\ i # n /\ t[i] = s[i] /\ s[i] # s[k - 1]
      <4>1. /\ i \in 1..n /\ i # n /\ i < k /\ ~(i >= k)
            /\ k # 1 /\ k - 1 \in 1..n /\ i # k - 1
        BY <1>1, <2>4
      <4>2. t[i] = s[i]
        BY <1>13, <4>1
      <4> QED
        BY <1>3, <4>1, <4>2
    <3>2. i # n - 1 /\ t[i + 1] = s[i + 1]
      <4>1. i # n - 1 /\ i + 1 < k
        BY <1>1, <2>4
      <4> QED
        BY <1>2, <2>1, <4>1
    <3> QED
      BY <1>2, <2>2, <2>3, <3>1, <3>2 DEF After
  <2>5. CASE i = k - 1
    <3>1. k # 1 /\ t[i] = s[k - 1]
      BY <1>1, <1>13, <2>5
    <3>2. i # n - 1 => k # n /\ t[i + 1] = s[k + 1] /\ i + 1 = k
      BY <1>1, <1>2, <2>1, <2>5
    <3>3. i = n - 1 => k = n
      BY <1>1, <2>5
    <3> QED
      BY <1>2, <1>6, <2>2, <3>1, <3>2, <3>3 DEF After
  <2>6. CASE i >= k
    <3>1. i + 1 \in 1..n /\ t[i] = s[i + 1] /\ (k # 1 => s[i + 1] # s[k - 1])
      BY <1>1, <1>3, <1>6, <1>13, <2>6
    <3>2. i # n - 1 => t[i + 1] = s[(i + 1) + 1]
      BY <1>1, <1>2, <2>1, <2>6
    <3>3. i = n - 1 <=> i + 1 = n
      BY <1>1
    <3> QED
      BY <1>2, <2>2, <2>3, <3>1, <3>2, <3>3 DEF After
  <2> QED
    BY <1>1, <2>4, <2>5, <2>6
<1>20. \A y \in Timers \ m.listed : m.prev[y] = NULL /\ m.next[y] = NULL
  <2> SUFFICES ASSUME NEW y \in Timers \ m.listed, y # x
               PROVE  m.prev[y] = NULL /\ m.next[y] = NULL
    BY <1>10
  <2>1. y \in Timers \ l.listed
    BY <1>12
  <2>2. l.prev[y] = NULL /\ l.next[y] = NULL
    BY <2>1 DEF Represents
  <2>3. (k # 1 => y # s[k - 1]) /\ (k # n => y # s[k + 1])
    BY <1>6, <2>1 DEF Represents
  <2> QED
    BY <1>10, <2>2, <2>3
<1> QED
  <2>1. Represents(m, t)
    BY <1>2, <1>12, <1>14, <1>16, <1>17, <1>18, <1>19, <1>20 DEF Represents
  <2> QED
    BY <1>11, <2>1 DEF m, t

\* What is in the list after a removal.
LEMMA RemovedIsOut ==
    ASSUME NEW l, NEW x
    PROVE  \A y : contains(remove(l, x), y) <=> contains(l, y) /\ y # x
    BY DEF remove, contains

\* The number of items that get_first and get_next deliver, and the items, are those
\* of the sequence.
THEOREM InOrderIsSequence ==
    ASSUME NULL \notin Timers, NEW l \in Lists, NEW s \in Seq(Timers), Represents(l, s)
    PROVE  InOrder(l) = s
<1> DEFINE n == Len(s)
           step(f, i) == IF i = 1 THEN l.first
                         ELSE IF f[i - 1] = NULL THEN NULL ELSE l.next[f[i - 1]]
           at == CHOOSE f : f = [i \in 1..n |-> step(f, i)]
<1>1. n \in Nat /\ l.count = n /\ \A i \in 1..n : s[i] \in Timers
    BY RepresentsFacts
<1>2. \A i \in 1..n : i # 1 => i - 1 \in 1..n /\ l.next[s[i - 1]] = s[i]
  <2> SUFFICES ASSUME NEW i \in 1..n, i # 1 PROVE i - 1 \in 1..n /\ l.next[s[i - 1]] = s[i]
    OBVIOUS
  <2>1. i - 1 \in 1..n /\ i - 1 # n /\ (i - 1) + 1 = i
    BY <1>1
  <2> QED
    BY <2>1 DEF Represents, After
<1>3. n # 0 => l.first = s[1]
    BY RepresentsFacts
<1>4. \A i \in 1..n : s[i] = step(s, i)
  <2> SUFFICES ASSUME NEW i \in 1..n PROVE s[i] = step(s, i)
    OBVIOUS
  <2>1. CASE i = 1
    BY <1>1, <1>3, <2>1
  <2>2. CASE i # 1
    <3>1. i - 1 \in 1..n /\ s[i - 1] # NULL /\ l.next[s[i - 1]] = s[i]
      BY <1>1, <1>2, <2>2
    <3> QED
      BY <2>2, <3>1
  <2> QED
    BY <2>1, <2>2
<1>5. s = [i \in 1..n |-> step(s, i)]
  <2> HIDE DEF step
  <2>1. s = [i \in 1..n |-> s[i]]
    OBVIOUS
  <2> QED
    BY <1>4, <2>1
<1>6. InOrder(l) = at
    BY <1>1 DEF InOrder
<1>7. at = [i \in 1..n |-> step(at, i)]
    BY <1>5
<1> HIDE DEF at
<1>8. \A i \in 1..n : at[i] = step(at, i)
    BY <1>7
\* The first place at which the two would differ.
<1>9. \A i \in 1..n : at[i] = s[i]
  <2> DEFINE bad == {i \in 1..n : at[i] # s[i]}
             R == OpToRel(<, Nat)
  <2> SUFFICES ASSUME bad # {} PROVE FALSE
    OBVIOUS
  <2>1. bad \subseteq Nat
    BY <1>1
  <2>2. PICK i \in bad : \A j \in bad : ~(<<j, i>> \in R)
    BY <2>1, NatLessThanWellFounded, WFMin
  <2>3. \A j \in bad : ~(j < i)
    BY <2>1, <2>2 DEF OpToRel
  <2>4. i \in 1..n /\ at[i] # s[i]
    OBVIOUS
  <2>5. i # 1
    BY <1>1, <1>3, <1>8, <2>4
  <2>6. i - 1 \in 1..n /\ i - 1 < i
    BY <1>1, <2>4, <2>5
  <2>7. at[i - 1] = s[i - 1]
    BY <2>3, <2>6
  <2> QED
    BY <1>1, <1>2, <1>8, <2>4, <2>5, <2>6, <2>7
<1> QED
  <2>1. s = [i \in 1..n |-> s[i]]
    OBVIOUS
  <2> HIDE DEF step
  <2> QED
    BY <1>6, <1>7, <1>8, <1>9, <2>1

-----------------------------------------------------------------------------
(* What is known of the timer. *)

\* The list's links represent a sequence of different timers.
SoundList(l) == l \in Lists /\ \E s \in Seq(Timers) : Represents(l, s)

\* No trigger time is further away than an interval.
WithinInterval == \A t \in Timers : left[t] <= Interval[t]

\* What is known of the choice while the thread scans, and before it waits.
Choice ==
  /\ wpc \in {"scan", "arm"} =>
        Listed(timer) /\ ~m_cancel /\ (~raced => left[timer] = wleft)
  /\ wpc = "scan" =>
        /\ cursor # 0
        /\ ~raced => \A i \in 1..Len(list) : i < cursor => left[list[i]] >= wleft
  /\ wpc = "arm" /\ ~raced => \A t \in Timers : Listed(t) => left[t] >= wleft

\* What is known of the timer the thread acts on after its wait.
Firing ==
  /\ wpc = "timeout" => timer # NULL /\ wleft <= 0
  /\ wpc \in {"reset", "notify"} => wleft <= 0

\* A thread on its way into TimerThread::add has a timer to add.
AddsTimer == \A u \in Thread : upc[u] = "add" => target[u] \in Timers

IInv == /\ TypeOK /\ SoundList(m_timers) /\ WithinInterval /\ Choice /\ Firing /\ AddsTimer
        /\ FiresOnlyListed /\ RearmedBeforeCallback /\ NoLostWakeup /\ EarliestUnlessReset

-----------------------------------------------------------------------------
(* The list. *)

LEMMA EmptySound == SoundList(EmptyList)
  <1>1. EmptyList \in Lists /\ Represents(EmptyList, <<>>)
    BY EmptyRepresents
  <1>2. <<>> \in Seq(Timers)
    OBVIOUS
  <1> QED
    BY <1>1, <1>2 DEF SoundList

\* What a sound list tells the thread.
LEMMA SoundFacts ==
  ASSUME NEW l, SoundList(l)
  PROVE  /\ l.count \in Nat /\ l.listed \subseteq Timers
         /\ Represents(l, InOrder(l)) /\ InOrder(l) \in Seq(Timers)
         /\ Len(InOrder(l)) \in Nat
         /\ \A i \in 1..Len(InOrder(l)) : InOrder(l)[i] \in Timers /\ contains(l, InOrder(l)[i])
         /\ \A t : contains(l, t) => t \in Timers /\ \E i \in 1..Len(InOrder(l)) : InOrder(l)[i] = t
         /\ l.count # 0 => contains(l, l.first)
         /\ l.last # NULL => contains(l, l.last)
  <1>1. PICK s \in Seq(Timers) : Represents(l, s)
    BY DEF SoundList
  <1>2. l \in Lists /\ Represents(l, s) /\ NULL \notin Timers
    BY <1>1, TimerAssumption DEF SoundList
  <1>3. InOrder(l) = s
    BY <1>2, InOrderIsSequence
  <1>4. /\ Len(s) \in Nat /\ l.count = Len(s)
        /\ \A i \in 1..Len(s) : s[i] \in Timers /\ contains(l, s[i])
        /\ \A x : contains(l, x) <=> \E i \in 1..Len(s) : s[i] = x
        /\ Len(s) = 0 => l.first = NULL /\ l.last = NULL
        /\ Len(s) # 0 => l.first = s[1] /\ l.last = s[Len(s)]
    BY <1>2, RepresentsFacts
  <1>6. Len(s) # 0 => 1 \in 1..Len(s) /\ Len(s) \in 1..Len(s)
    BY <1>4
  <1>7. l.listed \subseteq Timers
    BY <1>2 DEF Lists
  <1> QED
    BY <1>1, <1>3, <1>4, <1>6, <1>7

LEMMA AddSound ==
  ASSUME NEW l, SoundList(l), NEW t \in Timers, ~contains(l, t)
  PROVE  /\ SoundList(push_back(l, t))
         /\ \A x : contains(push_back(l, t), x) <=> contains(l, x) \/ x = t
  <1>1. PICK s \in Seq(Timers) : Represents(l, s)
    BY DEF SoundList
  <1>2. l \in Lists /\ Represents(l, s) /\ NULL \notin Timers /\ ~contains(l, t)
    BY <1>1, TimerAssumption DEF SoundList
  <1>3. push_back(l, t) \in Lists /\ Represents(push_back(l, t), Append(s, t))
    BY <1>2, PushBackRepresents
  <1>4. Append(s, t) \in Seq(Timers)
    OBVIOUS
  <1>5. SoundList(push_back(l, t))
    BY <1>3, <1>4 DEF SoundList
  <1>6. push_back(l, t).listed = l.listed \cup {t}
    BY <1>2 DEF push_back, Lists
  <1> QED
    BY <1>5, <1>6 DEF contains

LEMMA RemoveSound ==
  ASSUME NEW l, SoundList(l), NEW t, contains(l, t)
  PROVE  /\ SoundList(remove(l, t))
         /\ \A x : contains(remove(l, t), x) <=> contains(l, x) /\ x # t
  <1>1. PICK s \in Seq(Timers) : Represents(l, s)
    BY DEF SoundList
  <1>2. l \in Lists /\ Represents(l, s) /\ NULL \notin Timers /\ contains(l, t)
    BY <1>1, TimerAssumption DEF SoundList
  <1>3. PICK k \in 1..Len(s) : s[k] = t
    BY <1>2, RepresentsFacts
  <1>4. remove(l, t) \in Lists /\ Represents(remove(l, t), Without(s, k))
    BY <1>2, <1>3, RemoveRepresents
  <1>5. Without(s, k) \in Seq(Timers)
    BY WithoutFacts
  <1>6. SoundList(remove(l, t))
    BY <1>4, <1>5 DEF SoundList
  <1>7. \A y : contains(remove(l, t), y) <=> contains(l, y) /\ y # t
    BY RemovedIsOut
  <1> QED
    BY <1>6, <1>7

LEMMA MoveToBackSound ==
  ASSUME NEW l, SoundList(l), NEW t \in Timers, contains(l, t)
  PROVE  /\ SoundList(move_to_back(l, t))
         /\ \A x : contains(move_to_back(l, t), x) <=> contains(l, x)
  <1>1. SoundList(remove(l, t)) /\ \A x : contains(remove(l, t), x) <=> contains(l, x) /\ x # t
    BY RemoveSound
  <1> QED
    BY <1>1, AddSound DEF move_to_back

-----------------------------------------------------------------------------
(* The steps. *)

LEMMA InitInvariant == Init => IInv
  <1> SUFFICES ASSUME Init PROVE IInv
    OBVIOUS
  <1>1. SoundList(m_timers)
    BY EmptySound DEF Init
  <1>2. TypeOK
    <2>1. m_timers.count \in Nat /\ m_timers.listed \subseteq Timers
      BY <1>1, SoundFacts
    <2>2. left \in [Timers -> Int] /\ upc \in [Thread -> {"idle", "add", "notify"}]
          /\ target \in [Thread -> Timers \cup {NULL}] /\ ops \in 0..MaxOps
      BY TimerAssumption DEF Init
    <2>3. /\ m_cancel \in BOOLEAN /\ stop \in BOOLEAN /\ raced \in BOOLEAN
          /\ wpc = "run" /\ timer \in Timers \cup {NULL} /\ opc = "using"
      BY DEF Init
    <2>4. wleft \in Int /\ cursor \in Nat
      BY DEF Init
    <2> QED
      BY <2>1, <2>2, <2>3, <2>4 DEF TypeOK
  <1>3. WithinInterval /\ AddsTimer
    BY TimerAssumption DEF Init, WithinInterval, AddsTimer
  <1> QED
    BY <1>1, <1>2, <1>3 DEF Init, IInv, Choice, Firing, FiresOnlyListed, RearmedBeforeCallback,
       NoLostWakeup, EarliestUnlessReset

\* Putting a timer off, at any moment (Reset and Restart).
LEMMA SetBackStep ==
  ASSUME IInv, NEW t \in Timers, SetBack(t), UNCHANGED <<m_timers, m_cancel>>
  PROVE  /\ SoundList(m_timers)' /\ WithinInterval' /\ Choice' /\ Firing' /\ FiresOnlyListed'
         /\ RearmedBeforeCallback' /\ EarliestUnlessReset'
         /\ left' \in [Timers -> Int] /\ raced' \in BOOLEAN
  <1>1. /\ left' \in [Timers -> Int]
        /\ left'[t] = Interval[t] /\ Interval[t] \in Nat /\ left[t] \in Int /\ left[t] <= Interval[t]
        /\ \A x \in Timers : x # t => left'[x] = left[x]
        /\ \A x \in Timers : left[x] \in Int /\ left'[x] \in Int /\ left'[x] >= left[x]
    <2>1. left \in [Timers -> Int] /\ Interval \in [Timers -> Nat]
          /\ \A x \in Timers : left[x] <= Interval[x]
      BY TimerAssumption DEF IInv, TypeOK, WithinInterval
    <2>2. left' = [left EXCEPT ![t] = Interval[t]]
      BY DEF SetBack, Rearm
    <2>3. /\ left' \in [Timers -> Int] /\ left'[t] = Interval[t]
          /\ Interval[t] \in Nat /\ left[t] \in Int /\ left[t] <= Interval[t]
          /\ \A x \in Timers : x # t => left'[x] = left[x]
      BY <2>1, <2>2
    <2> QED
      BY <2>1, <2>3
  <1>2. WithinInterval'
    BY <1>1 DEF IInv, WithinInterval
  <1>3. /\ UNCHANGED <<stop, wpc, timer, wleft, cursor>> /\ wleft \in Int
        /\ raced' = (raced \/ (wpc \in {"scan", "arm"} /\ timer = t))
    BY DEF IInv, TypeOK, SetBack
  <1>4. raced' \in BOOLEAN
    BY <1>3 DEF IInv, TypeOK
  <1>5. SoundList(m_timers)'
    BY DEF IInv, SoundList
  <1>6. Choice'
    <2>1. list' = list /\ \A x : Listed(x)' <=> Listed(x)
      BY DEF list, Listed
    <2>2. \A i \in 1..Len(list) : list[i] \in Timers
      BY SoundFacts DEF IInv, list
    <2>3. wpc \in {"scan", "arm"} => timer \in Timers
      BY SoundFacts DEF IInv, Choice, Listed
    <2>4. \A x \in Timers : left[x] >= wleft => left'[x] >= wleft
      BY <1>1, <1>3
    <2> QED
      BY <1>1, <1>3, <2>1, <2>2, <2>3, <2>4 DEF IInv, Choice
  <1>7. Firing' /\ FiresOnlyListed'
    BY <1>3 DEF IInv, Firing, FiresOnlyListed, Listed
  <1>8. RearmedBeforeCallback'
    <2> SUFFICES ASSUME wpc = "notify", wleft > -MaxLag
                 PROVE  left'[timer] >= wleft + Interval[timer]
      BY <1>3 DEF RearmedBeforeCallback
    <2>1. timer \in Timers /\ wleft <= 0 /\ left[timer] >= wleft + Interval[timer]
      BY SoundFacts DEF IInv, FiresOnlyListed, Firing, RearmedBeforeCallback, Listed
    <2>2. Interval[timer] \in Nat
      BY <2>1, TimerAssumption
    <2> QED
      BY <1>1, <1>3, <2>1, <2>2
  <1>9. EarliestUnlessReset'
    <2>1. \A x \in Timers : left[x] >= wleft => left'[x] >= wleft
      BY <1>1, <1>3
    <2> QED
      BY <1>3, <2>1 DEF IInv, EarliestUnlessReset, Listed
  <1> QED
    BY <1>1, <1>2, <1>4, <1>5, <1>6, <1>7, <1>8, <1>9

LEMMA ResetStep ==
  ASSUME IInv, NEW u \in Thread, NEW t \in Timers, Reset(u, t)
  PROVE  IInv'
  <1>1. SetBack(t) /\ UNCHANGED <<m_timers, m_cancel, stop, wpc, timer, wleft, cursor, upc, target, opc>>
    BY DEF Reset, SetBack
  <1>2. ops' \in 0..MaxOps
    BY TimerAssumption DEF IInv, TypeOK, Reset, Call
  <1>3. TypeOK'
    BY <1>1, <1>2, SetBackStep DEF IInv, TypeOK
  <1>4. AddsTimer' /\ NoLostWakeup'
    BY <1>1 DEF IInv, AddsTimer, NoLostWakeup
  <1> QED
    BY <1>1, <1>3, <1>4, SetBackStep DEF IInv

LEMMA RestartStep ==
  ASSUME IInv, NEW u \in Thread, NEW t \in Timers, Restart(u, t)
  PROVE  IInv'
  <1>1. SetBack(t) /\ UNCHANGED <<m_timers, m_cancel, stop, wpc, timer, wleft, cursor, opc>>
    BY DEF Restart, SetBack
  <1>2. ops' \in 0..MaxOps /\ upc[u] = "idle"
    BY TimerAssumption DEF IInv, TypeOK, Restart, Call
  <1>3. /\ upc' = [upc EXCEPT ![u] = "add"] /\ target' = [target EXCEPT ![u] = t]
    BY DEF Restart
  <1>4. TypeOK'
    BY <1>1, <1>2, <1>3, SetBackStep DEF IInv, TypeOK
  <1>5. AddsTimer' /\ NoLostWakeup'
    BY <1>1, <1>2, <1>3 DEF IInv, TypeOK, AddsTimer, NoLostWakeup
  <1> QED
    BY <1>1, <1>4, <1>5, SetBackStep DEF IInv

\* A change of the list by a thread that has the mutex: the timer thread waits, or
\* is between two waits.
LEMMA ListChanged ==
  ASSUME IInv, ~Locked, SoundList(m_timers)', m_cancel' = TRUE,
         UNCHANGED <<left, workerVars>>
  PROVE  /\ WithinInterval' /\ Choice' /\ Firing' /\ FiresOnlyListed'
         /\ RearmedBeforeCallback' /\ EarliestUnlessReset'
         /\ (m_timers.count \in Nat)' /\ (m_timers.listed \subseteq Timers)'
  <1>1. (m_timers.count \in Nat)' /\ (m_timers.listed \subseteq Timers)'
    BY SoundFacts
  <1> QED
    BY <1>1 DEF IInv, Locked, WithinInterval, Choice, Firing, FiresOnlyListed,
       RearmedBeforeCallback, EarliestUnlessReset, workerVars

LEMMA AddStep ==
  ASSUME IInv, NEW u \in Thread, Add(u)
  PROVE  IInv'
  <1> USE DEF Add
  <1>1. target[u] \in Timers
    BY DEF IInv, AddsTimer
  <1>2. CASE Listed(target[u])
    <2>1. SoundList(m_timers)'
      BY <1>2 DEF IInv
    <2> QED
      BY <1>2, <2>1 DEF IInv, TypeOK, WithinInterval, Choice, Firing, AddsTimer, FiresOnlyListed,
         RearmedBeforeCallback, NoLostWakeup, EarliestUnlessReset, workerVars, Listed, list
  <1>3. CASE ~Listed(target[u])
    <2>1. SoundList(m_timers)'
      BY <1>1, <1>3, AddSound DEF IInv, Listed
    <2>2. UNCHANGED <<left, workerVars>> /\ m_cancel' = TRUE
      BY <1>3
    <2>3. TypeOK'
      BY <1>3, <2>1, <2>2, ListChanged DEF IInv, TypeOK, workerVars
    <2>4. AddsTimer' /\ NoLostWakeup'
      BY <1>3 DEF IInv, TypeOK, AddsTimer, NoLostWakeup
    <2> QED
      BY <2>1, <2>2, <2>3, <2>4, ListChanged DEF IInv
  <1> QED
    BY <1>2, <1>3

LEMMA CancelStep ==
  ASSUME IInv, NEW u \in Thread, NEW t \in Timers, Cancel(u, t)
  PROVE  IInv'
  <1> USE DEF Cancel
  <1>1. ops' \in 0..MaxOps /\ upc[u] = "idle"
    BY TimerAssumption DEF IInv, TypeOK, Call
  <1>2. CASE ~Listed(t)
    <2>1. SoundList(m_timers)'
      BY <1>2 DEF IInv
    <2> QED
      BY <1>1, <1>2, <2>1 DEF IInv, TypeOK, WithinInterval, Choice, Firing, AddsTimer, FiresOnlyListed,
         RearmedBeforeCallback, NoLostWakeup, EarliestUnlessReset, workerVars, Listed, list
  <1>3. CASE Listed(t)
    <2>1. SoundList(m_timers)'
      BY <1>3, RemoveSound DEF IInv, Listed
    <2>2. UNCHANGED <<left, workerVars>> /\ m_cancel' = TRUE
      BY <1>3
    <2>3. TypeOK'
      BY <1>1, <1>3, <2>1, <2>2, ListChanged DEF IInv, TypeOK, workerVars
    <2>4. AddsTimer' /\ NoLostWakeup'
      BY <1>3 DEF IInv, TypeOK, AddsTimer, NoLostWakeup
    <2> QED
      BY <2>1, <2>2, <2>3, <2>4, ListChanged DEF IInv
  <1> QED
    BY <1>2, <1>3

\* Steps that only wake the thread or change what no condition mentions.
LEMMA NotifyStep ==
  ASSUME IInv,
         \/ \E u \in Thread : Notify(u)
         \/ ShutdownFlag \/ ShutdownNotify \/ Join
  PROVE  IInv'
  <1>1. UNCHANGED <<m_timers, left, m_cancel, timer, wleft, cursor, raced>>
    BY DEF Notify, ShutdownFlag, ShutdownNotify, Join, workerVars
  <1>2. \/ wpc' = wpc
        \/ wpc = "wait" /\ wpc' = "woken"
    BY DEF Notify, ShutdownFlag, ShutdownNotify, Join, WakeUp, workerVars
  <1>3. SoundList(m_timers)' /\ WithinInterval'
    BY <1>1 DEF IInv, WithinInterval
  <1>4. Choice' /\ Firing' /\ FiresOnlyListed' /\ RearmedBeforeCallback' /\ EarliestUnlessReset'
    BY <1>1, <1>2 DEF IInv, Choice, Firing, FiresOnlyListed, RearmedBeforeCallback,
       EarliestUnlessReset, Listed, list
  <1>5. TypeOK'
    <2>1. ASSUME NEW u \in Thread, Notify(u) PROVE TypeOK'
      BY <1>1, <1>2, <2>1 DEF IInv, TypeOK, Notify
    <2>2. CASE ShutdownFlag
      BY <2>2 DEF IInv, TypeOK, ShutdownFlag
    <2>3. CASE ShutdownNotify
      BY <1>1, <1>2, <2>3 DEF IInv, TypeOK, ShutdownNotify
    <2>4. CASE Join
      BY <2>4 DEF IInv, TypeOK, Join, workerVars
    <2> QED
      BY <2>1, <2>2, <2>3, <2>4
  <1>6. AddsTimer' /\ NoLostWakeup'
    BY <1>1, <1>2 DEF IInv, TypeOK, AddsTimer, NoLostWakeup, Notify, ShutdownFlag, ShutdownNotify,
       Join, workerVars, WakeUp
  <1> QED
    BY <1>3, <1>4, <1>5, <1>6 DEF IInv

LEMMA ShutdownCancelStep ==
  ASSUME IInv, ShutdownCancel
  PROVE  IInv'
  <1>1. SoundList(m_timers)'
    BY DEF IInv, ShutdownCancel
  <1>2. TypeOK' /\ AddsTimer' /\ NoLostWakeup'
    BY DEF IInv, TypeOK, AddsTimer, NoLostWakeup, ShutdownCancel, workerVars
  <1> QED
    BY <1>1, <1>2, ListChanged DEF IInv, ShutdownCancel

LEMMA RunStep ==
  ASSUME IInv, Run \/ Woken \/ WakeSpurious \/ WakeTimeout
  PROVE  IInv'
  <1>1. UNCHANGED <<m_timers, left, m_cancel, stop, timer, wleft, cursor, raced, userVars>>
    BY DEF Run, Woken, WakeSpurious, WakeTimeout
  <1>2. /\ wpc' \in {"terminated", "loop", "woken", "timeout"}
        /\ wpc' = "timeout" => timer # NULL /\ wleft <= 0
    BY DEF Run, Woken, WakeSpurious, WakeTimeout
  <1>3. TypeOK' /\ SoundList(m_timers)'
    BY <1>1, <1>2 DEF IInv, TypeOK, userVars
  <1> QED
    BY <1>1, <1>2, <1>3 DEF IInv, WithinInterval, Choice, Firing, AddsTimer, FiresOnlyListed,
       RearmedBeforeCallback, NoLostWakeup, EarliestUnlessReset, userVars

LEMMA LoopStep ==
  ASSUME IInv, Loop
  PROVE  IInv'
  <1>1. UNCHANGED <<m_timers, left, stop, userVars>> /\ raced' = FALSE
    BY DEF Loop
  <1>2. SoundList(m_timers)' /\ WithinInterval' /\ AddsTimer'
    BY <1>1 DEF IInv, WithinInterval, AddsTimer, userVars
  <1>3. CASE m_cancel
    BY <1>1, <1>2, <1>3 DEF Loop, IInv, TypeOK, Choice, Firing, FiresOnlyListed,
       RearmedBeforeCallback, NoLostWakeup, EarliestUnlessReset, userVars
  <1>4. CASE ~m_cancel /\ m_timers.count = 0
    <2>1. wpc' = "wait" /\ timer' = NULL /\ wleft' = 0 /\ cursor' = 0 /\ m_cancel' = FALSE
      BY <1>4 DEF Loop, IInv, TypeOK
    <2>2. /\ m_cancel' \in BOOLEAN /\ raced' \in BOOLEAN
          /\ timer' \in Timers \cup {NULL} /\ wleft' \in Int /\ cursor' \in Nat
      <3>1. m_cancel' \in BOOLEAN /\ raced' \in BOOLEAN
        BY <1>1, <2>1
      <3>2. wleft' \in Int /\ cursor' \in Nat
        BY <2>1
      <3>3. timer' \in Timers \cup {NULL}
        BY <2>1
      <3> QED
        BY <3>1, <3>2, <3>3
    <2>3. TypeOK'
      BY <1>1, <2>1, <2>2 DEF IInv, TypeOK, userVars
    <2> QED
      BY <1>2, <2>1, <2>3 DEF IInv, Choice, Firing, FiresOnlyListed,
         RearmedBeforeCallback, NoLostWakeup, EarliestUnlessReset
  <1>5. CASE ~m_cancel /\ m_timers.count # 0
    <2>1. /\ wpc' = "scan" /\ timer' = m_timers.first /\ wleft' = left[m_timers.first]
          /\ cursor' = 1 /\ m_cancel' = FALSE
      BY <1>5 DEF Loop, IInv, TypeOK
    <2>2. Listed(m_timers.first) /\ m_timers.first \in Timers
      BY <1>5, SoundFacts DEF IInv, Listed
    <2>3. TypeOK'
      BY <1>1, <2>1, <2>2 DEF IInv, TypeOK, userVars
    <2>4. Choice'
      BY <1>1, <2>1, <2>2 DEF Choice, Listed
    <2> QED
      BY <1>2, <2>1, <2>3, <2>4 DEF IInv, Firing, FiresOnlyListed,
         RearmedBeforeCallback, NoLostWakeup, EarliestUnlessReset
  <1> QED
    BY <1>3, <1>4, <1>5

LEMMA ScanStep ==
  ASSUME IInv, Scan
  PROVE  IInv'
  <1>1. /\ UNCHANGED <<m_timers, left, m_cancel, stop, raced, userVars>>
        /\ wpc = "scan" /\ cursor \in Nat \ {0} /\ Listed(timer) /\ ~m_cancel
        /\ ~raced => left[timer] = wleft
        /\ ~raced => \A i \in 1..Len(list) : i < cursor => left[list[i]] >= wleft
        /\ wleft \in Int /\ left \in [Timers -> Int]
    BY DEF Scan, IInv, TypeOK, Choice
  <1>2. SoundList(m_timers)' /\ WithinInterval' /\ AddsTimer'
    BY <1>1 DEF IInv, WithinInterval, AddsTimer, userVars
  <1>3. /\ Len(list) \in Nat
        /\ \A i \in 1..Len(list) : list[i] \in Timers /\ Listed(list[i])
        /\ \A t : Listed(t) => t \in Timers /\ \E i \in 1..Len(list) : list[i] = t
    BY SoundFacts DEF IInv, list, Listed
  <1>4. list' = list /\ \A t : Listed(t)' <=> Listed(t)
    BY <1>1 DEF list, Listed
  <1>5. CASE cursor > Len(list)
    <2>1. wpc' = "arm" /\ cursor' = 0 /\ UNCHANGED <<timer, wleft>>
      BY <1>5 DEF Scan
    <2>2. \A i \in 1..Len(list) : i < cursor
      BY <1>1, <1>3, <1>5
    <2>3. ~raced => \A t \in Timers : Listed(t) => left[t] >= wleft
      BY <1>1, <1>3, <2>2
    <2>4. Choice'
      BY <1>1, <1>4, <2>1, <2>3 DEF Choice
    <2>5. TypeOK'
      BY <1>1, <2>1 DEF IInv, TypeOK, userVars
    <2> QED
      BY <1>2, <2>1, <2>4, <2>5 DEF IInv, Firing, FiresOnlyListed, RearmedBeforeCallback,
         NoLostWakeup, EarliestUnlessReset
  <1>6. CASE ~(cursor > Len(list))
    <2>1. /\ wpc' = "scan" /\ cursor' = cursor + 1
          /\ IF left[list[cursor]] < wleft
             THEN timer' = list[cursor] /\ wleft' = left[list[cursor]]
             ELSE UNCHANGED <<timer, wleft>>
      BY <1>1, <1>6 DEF Scan
    <2>2. cursor \in 1..Len(list)
      BY <1>1, <1>3, <1>6
    <2>3. list[cursor] \in Timers /\ Listed(list[cursor]) /\ left[list[cursor]] \in Int
      BY <1>1, <1>3, <2>2
    <2>4. /\ timer' \in Timers /\ Listed(timer') /\ wleft' \in Int
          /\ wleft' <= wleft /\ wleft' <= left[list[cursor]]
          /\ ~raced => left[timer'] = wleft'
      <3> DEFINE c == list[cursor]
      <3>1. timer \in Timers
        BY <1>1, <1>3
      <3> HIDE DEF c
      <3>2. CASE left[c] < wleft
        <4>1. timer' = c /\ wleft' = left[c]
          BY <2>1, <3>2 DEF c
        <4> QED
          BY <1>1, <2>3, <3>2, <4>1 DEF c
      <3>3. CASE ~(left[c] < wleft)
        <4>1. timer' = timer /\ wleft' = wleft
          BY <2>1, <3>3 DEF c
        <4>2. wleft <= left[c] /\ wleft <= wleft
          BY <1>1, <2>3, <3>3 DEF c
        <4> QED
          BY <1>1, <3>1, <4>1, <4>2 DEF c
      <3> QED
        BY <3>2, <3>3
    <2>5. ~raced => \A i \in 1..Len(list) : i < cursor + 1 => left[list[i]] >= wleft'
      <3> SUFFICES ASSUME ~raced, NEW i \in 1..Len(list), i < cursor + 1
                   PROVE  left[list[i]] >= wleft'
        OBVIOUS
      <3>1. left[list[i]] \in Int
        BY <1>1, <1>3
      <3>2. CASE i = cursor
        BY <2>3, <2>4, <3>2
      <3>3. CASE i # cursor
        <4>1. i < cursor
          BY <1>1, <1>3, <3>3
        <4>2. left[list[i]] >= wleft
          BY <1>1, <4>1
        <4> QED
          BY <1>1, <2>4, <3>1, <4>2
      <3> QED
        BY <3>2, <3>3
    <2>6. cursor' # 0 /\ cursor' \in Nat
      BY <1>1, <2>1
    <2>7. Choice'
      <3>1. Listed(timer)'
        BY <1>1, <2>4 DEF Listed
      <3> QED
        BY <1>1, <1>4, <2>1, <2>4, <2>5, <2>6, <3>1 DEF Choice
    <2>8. TypeOK'
      BY <1>1, <2>1, <2>4, <2>6 DEF IInv, TypeOK, userVars
    <2> QED
      BY <1>2, <2>1, <2>7, <2>8 DEF IInv, Firing, FiresOnlyListed, RearmedBeforeCallback,
         NoLostWakeup, EarliestUnlessReset
  <1> QED
    BY <1>5, <1>6

LEMMA ArmStep ==
  ASSUME IInv, Arm
  PROVE  IInv'
  <1>1. /\ UNCHANGED <<left, m_cancel, stop, timer, cursor, raced, userVars>>
        /\ m_timers' = move_to_back(m_timers, timer) /\ wleft' = left[timer] /\ wpc' = "wait"
        /\ Listed(timer) /\ ~m_cancel
        /\ ~raced => left[timer] = wleft /\ \A t \in Timers : Listed(t) => left[t] >= wleft
    BY DEF Arm, IInv, Choice
  <1>2. timer \in Timers
    BY <1>1, SoundFacts DEF IInv, Listed
  <1>3. SoundList(m_timers)' /\ \A t : Listed(t)' <=> Listed(t)
    BY <1>1, <1>2, MoveToBackSound DEF IInv, Listed
  <1>4. (m_timers.count \in Nat)' /\ (m_timers.listed \subseteq Timers)'
    BY <1>3, SoundFacts
  <1>5. TypeOK'
    BY <1>1, <1>2, <1>4 DEF IInv, TypeOK, userVars
  <1>6. EarliestUnlessReset'
    BY <1>1, <1>3 DEF EarliestUnlessReset
  <1> QED
    BY <1>1, <1>3, <1>5, <1>6 DEF IInv, WithinInterval, AddsTimer, Choice, Firing,
       FiresOnlyListed, RearmedBeforeCallback, NoLostWakeup, userVars

LEMMA CheckStep ==
  ASSUME IInv, Check
  PROVE  IInv'
  <1>1. /\ UNCHANGED <<m_timers, left, m_cancel, stop, timer, wleft, cursor, raced, userVars>>
        /\ wpc' \in {"reset", "loop"} /\ timer # NULL /\ wleft <= 0
        /\ wpc' = "reset" => m_timers.last = timer
    BY DEF Check, IInv, Firing
  <1>2. wpc' = "reset" => Listed(timer)
    BY <1>1, SoundFacts DEF IInv, Listed
  <1>3. TypeOK' /\ SoundList(m_timers)'
    BY <1>1 DEF IInv, TypeOK, userVars
  <1> QED
    BY <1>1, <1>2, <1>3 DEF IInv, WithinInterval, Choice, Firing, AddsTimer, FiresOnlyListed,
       RearmedBeforeCallback, NoLostWakeup, EarliestUnlessReset, Listed, userVars

LEMMA FireResetStep ==
  ASSUME IInv, FireReset
  PROVE  IInv'
  <1>1. /\ UNCHANGED <<m_timers, m_cancel, stop, timer, wleft, cursor, raced, userVars>>
        /\ left' = [left EXCEPT ![timer] = Interval[timer]] /\ wpc' = "notify"
        /\ Listed(timer) /\ wleft <= 0 /\ wleft \in Int /\ left \in [Timers -> Int]
    BY DEF FireReset, Rearm, IInv, TypeOK, Firing, FiresOnlyListed
  <1>2. timer \in Timers /\ Interval[timer] \in Nat
    BY <1>1, SoundFacts, TimerAssumption DEF IInv, Listed
  <1>3. left' \in [Timers -> Int] /\ left'[timer] = Interval[timer]
        /\ \A t \in Timers : t # timer => left'[t] = left[t]
    BY <1>1, <1>2
  <1>4. TypeOK' /\ SoundList(m_timers)'
    BY <1>1, <1>3 DEF IInv, TypeOK, userVars
  <1>5. WithinInterval'
    BY <1>2, <1>3 DEF IInv, WithinInterval
  <1>6. left'[timer] >= wleft + Interval[timer]
    BY <1>1, <1>2, <1>3
  <1> QED
    BY <1>1, <1>4, <1>5, <1>6 DEF IInv, Choice, Firing, AddsTimer, FiresOnlyListed,
       RearmedBeforeCallback, NoLostWakeup, EarliestUnlessReset, Listed, userVars

LEMMA FireNotifyStep ==
  ASSUME IInv, NEW c \in SUBSET Timers, FireNotify(c)
  PROVE  IInv'
  <1>1. wpc' \in {"loop", "run"} /\ UNCHANGED <<left, stop, timer, wleft, cursor, raced, userVars>>
    BY DEF FireNotify
  <1>2. SoundList(m_timers)' /\ m_cancel' \in BOOLEAN
    <2>1. CASE UNCHANGED <<m_timers, m_cancel>>
      BY <2>1 DEF IInv, TypeOK
    <2>2. CASE \E t \in c : Listed(t) /\ m_timers' = remove(m_timers, t) /\ m_cancel' = TRUE
      BY <2>2, RemoveSound DEF IInv, Listed
    <2> QED
      BY <2>1, <2>2 DEF FireNotify
  <1>3. (m_timers.count \in Nat)' /\ (m_timers.listed \subseteq Timers)'
    BY <1>2, SoundFacts
  <1>4. TypeOK'
    BY <1>1, <1>2, <1>3 DEF IInv, TypeOK, userVars
  <1> QED
    BY <1>1, <1>2, <1>4 DEF IInv, WithinInterval, Choice, Firing, AddsTimer, FiresOnlyListed,
       RearmedBeforeCallback, NoLostWakeup, EarliestUnlessReset, userVars

LEMMA TickStep ==
  ASSUME IInv, Tick
  PROVE  IInv'
  <1>1. /\ UNCHANGED <<m_timers, m_cancel, stop, wpc, timer, cursor, raced, userVars>>
        /\ wleft' = Older(wleft) /\ wleft \in Int /\ MaxLag \in Nat
        /\ \A t \in Timers : left'[t] = Older(left[t]) /\ left[t] \in Int /\ Interval[t] \in Nat
    BY TimerAssumption DEF Tick, IInv, TypeOK
  <1>2. \A a \in Int : Older(a) \in Int /\ Older(a) <= a /\ a - 1 <= Older(a)
                       /\ (Older(a) > -MaxLag => a > -MaxLag /\ Older(a) = a - 1)
    BY <1>1 DEF Older
  <1>3. \A a, b \in Int : a >= b => Older(a) >= Older(b)
    BY <1>1 DEF Older
  <1>4. left' \in [Timers -> Int]
    BY <1>1, <1>2 DEF Tick
  <1>5. TypeOK' /\ SoundList(m_timers)'
    BY <1>1, <1>2, <1>4 DEF IInv, TypeOK, userVars
  <1>6. WithinInterval'
    BY <1>1, <1>2 DEF IInv, WithinInterval
  <1>7. list' = list /\ \A t : Listed(t)' <=> Listed(t)
    BY <1>1 DEF list, Listed
  <1>8. \A t : Listed(t) => t \in Timers
    BY SoundFacts DEF IInv, Listed
  <1>9. \A t \in Timers : left[t] >= wleft => left'[t] >= wleft'
    BY <1>1, <1>3
  <1>10. Choice'
    <2>1. \A i \in 1..Len(list) : list[i] \in Timers
      BY SoundFacts DEF IInv, list
    <2>2. \A t \in Timers : left[t] = wleft => left'[t] = wleft'
      BY <1>1
    <2> QED
      BY <1>1, <1>7, <1>8, <1>9, <2>1, <2>2 DEF IInv, Choice
  <1>11. Firing' /\ FiresOnlyListed'
    BY <1>1, <1>2, <1>7 DEF IInv, Firing, FiresOnlyListed
  <1>12. EarliestUnlessReset'
    BY <1>1, <1>7, <1>9 DEF IInv, EarliestUnlessReset
  <1>13. RearmedBeforeCallback'
    <2> SUFFICES ASSUME wpc = "notify", wleft' > -MaxLag
                 PROVE  left'[timer] >= wleft' + Interval[timer]
      BY <1>1 DEF RearmedBeforeCallback
    <2>1. timer \in Timers
      BY <1>8 DEF IInv, FiresOnlyListed
    <2>2. wleft > -MaxLag /\ wleft' = wleft - 1
      BY <1>1, <1>2
    <2>3. left[timer] >= wleft + Interval[timer]
      BY <2>2 DEF IInv, RearmedBeforeCallback
    <2>4. left'[timer] \in Int /\ left'[timer] >= left[timer] - 1
      BY <1>1, <1>2, <2>1
    <2> QED
      BY <1>1, <2>1, <2>2, <2>3, <2>4
  <1>14. AddsTimer' /\ NoLostWakeup'
    BY <1>1 DEF IInv, AddsTimer, NoLostWakeup, userVars
  <1> QED
    BY <1>5, <1>6, <1>10, <1>11, <1>12, <1>13, <1>14 DEF IInv

LEMMA StepInvariant == IInv /\ [Next]_vars => IInv'
  <1> SUFFICES ASSUME IInv, [Next]_vars PROVE IInv'
    OBVIOUS
  <1>1. ASSUME NEW u \in Thread, NEW t \in Timers, Reset(u, t) \/ Restart(u, t) \/ Cancel(u, t)
        PROVE  IInv'
    BY <1>1, ResetStep, RestartStep, CancelStep
  <1>2. CASE InCall \/ ShutdownFlag
    BY <1>2, AddStep, NotifyStep, ShutdownCancelStep DEF InCall
  <1>3. CASE Action
    <2>1. {} \in SUBSET Timers /\ \A t \in Timers : {t} \in SUBSET Timers
      OBVIOUS
    <2>2. ASSUME NEW c \in SUBSET Timers, FireNotify(c) PROVE IInv'
      BY <2>2, FireNotifyStep
    <2> QED
      BY <1>3, <2>1, <2>2, RunStep, LoopStep, ScanStep, ArmStep, CheckStep, FireResetStep DEF Action
  <1>4. CASE WakeTimeout \/ WakeSpurious
    BY <1>4, RunStep
  <1>5. CASE Tick
    BY <1>5, TickStep
  <1>6. CASE UNCHANGED vars
    <2>1. TypeOK' /\ SoundList(m_timers)'
      BY <1>6 DEF vars, workerVars, userVars, IInv, TypeOK
    <2> QED
      BY <1>6, <2>1 DEF vars, workerVars, userVars, IInv, WithinInterval, Choice, Firing, AddsTimer,
         FiresOnlyListed, RearmedBeforeCallback, NoLostWakeup, EarliestUnlessReset, Listed, list
  <1> QED
    BY <1>1, <1>2, <1>3, <1>4, <1>5, <1>6 DEF Next

-----------------------------------------------------------------------------
LEMMA TimerInvariant == Spec => []IInv
  BY InitInvariant, StepInvariant, PTL DEF Spec

\* The variables keep their types.
THEOREM TypeCorrect == Spec => []TypeOK
  <1>1. IInv => TypeOK
    BY DEF IInv
  <1> QED
    BY <1>1, TimerInvariant, PTL

\* No callback runs for a timer that was cancelled or destroyed, and a trigger time
\* that has led to a callback does not lead to a second one (TimerThread::action).
THEOREM FiresRight == Spec => []FiresSound
  <1>1. IInv => FiresSound
    BY DEF IInv, FiresSound
  <1> QED
    BY <1>1, TimerInvariant, PTL

\* The links of the list agree in both directions whatever calls and callbacks change
\* it, and the timer chosen stays in it while the mutex is held.
THEOREM ListIsSound == Spec => []ListSound
  <1>1. IInv => ListSound
    BY SoundFacts DEF IInv, Choice, ListSound, list
  <1> QED
    BY <1>1, TimerInvariant, PTL

\* The thread never starts a wait with a request pending that nobody notifies.
THEOREM WakeupsArrive == Spec => []NoLostWakeup
  <1>1. IInv => NoLostWakeup
    BY DEF IInv
  <1> QED
    BY <1>1, TimerInvariant, PTL

\* The thread waits for the earliest timer of any number, unless that one was reset
\* while it was being chosen.
THEOREM WaitsForEarliestUnlessReset == Spec => []EarliestUnlessReset
  <1>1. IInv => EarliestUnlessReset
    BY DEF IInv
  <1> QED
    BY <1>1, TimerInvariant, PTL
=============================================================================
