------------------------------- MODULE Items --------------------------------
(***************************************************************************)
(* What a list that holds every handle at most once contains, and how it   *)
(* changes when a handle is pushed, popped or passed over. The task        *)
(* queues, the completion rings and the wait lists are such lists. Below,  *)
(* what the proofs need to know of sequences in general.                   *)
(***************************************************************************)
EXTENDS Integers, Sequences, TLAPS

\* The items of q after the first n, and that no handle occurs twice in them.
Items(q, n) == {q[i] : i \in n + 1 .. Len(q)}

NoRepeat(q, n) == \A i, j \in n + 1 .. Len(q) : q[i] = q[j] => i = j

\* push_back: one more item.
LEMMA ItemsAppend ==
  ASSUME NEW S, NEW q \in Seq(S), NEW n \in Nat, n <= Len(q), NEW x \in S
  PROVE  /\ Items(Append(q, x), n) = Items(q, n) \cup {x}
         /\ NoRepeat(q, n) /\ x \notin Items(q, n) => NoRepeat(Append(q, x), n)
<1>1. /\ Len(q) \in Nat /\ Len(Append(q, x)) = Len(q) + 1
      /\ Append(q, x)[Len(q) + 1] = x
      /\ \A i \in 1 .. Len(q) : Append(q, x)[i] = q[i]
  OBVIOUS
<1>2. \A i \in n + 1 .. Len(q) + 1 : i = Len(q) + 1 \/ i \in n + 1 .. Len(q)
  BY <1>1
<1>3. Len(q) + 1 \in n + 1 .. Len(q) + 1 /\ n + 1 .. Len(q) \subseteq 1 .. Len(q)
  BY <1>1
<1>4. Items(Append(q, x), n) \subseteq Items(q, n) \cup {x}
  BY <1>1, <1>2, <1>3 DEF Items
<1>5. Items(q, n) \cup {x} \subseteq Items(Append(q, x), n)
  BY <1>1, <1>2, <1>3 DEF Items
<1>6. NoRepeat(q, n) /\ x \notin Items(q, n) => NoRepeat(Append(q, x), n)
  BY <1>1, <1>2, <1>3 DEF Items, NoRepeat
<1> QED BY <1>4, <1>5, <1>6

\* A loop over q passes an item.
LEMMA ItemsNext ==
  ASSUME NEW S, NEW q \in Seq(S), NEW n \in Nat, n < Len(q), NoRepeat(q, n)
  PROVE  /\ q[n + 1] \in Items(q, n) /\ q[n + 1] \in S
         /\ Items(q, n + 1) = Items(q, n) \ {q[n + 1]}
         /\ NoRepeat(q, n + 1)
<1>1. Len(q) \in Nat /\ n + 1 \in n + 1 .. Len(q) /\ n + 1 \in 1 .. Len(q)
  OBVIOUS
<1>2. /\ \A i \in n + 1 .. Len(q) : i = n + 1 \/ i \in (n + 1) + 1 .. Len(q)
      /\ \A i \in (n + 1) + 1 .. Len(q) : i \in n + 1 .. Len(q) /\ i # n + 1
  BY <1>1
<1>3. q[n + 1] \in Items(q, n)
  BY <1>1 DEF Items
<1>4. Items(q, n + 1) \subseteq Items(q, n) \ {q[n + 1]}
  BY <1>1, <1>2 DEF Items, NoRepeat
<1>5. Items(q, n) \ {q[n + 1]} \subseteq Items(q, n + 1)
  BY <1>1, <1>2 DEF Items
<1>6. NoRepeat(q, n + 1)
  BY <1>2 DEF NoRepeat
<1> QED BY <1>1, <1>3, <1>4, <1>5, <1>6

\* Dropping the first n items of q leaves those after them.
LEMMA ItemsDrop ==
  ASSUME NEW S, NEW q \in Seq(S), NEW n \in Nat, n <= Len(q), NEW r \in Seq(S),
         Len(r) = Len(q) - n, \A i \in 1 .. Len(r) : r[i] = q[i + n]
  PROVE  Items(r, 0) = Items(q, n) /\ (NoRepeat(q, n) => NoRepeat(r, 0))
<1>1. Len(q) \in Nat /\ Len(r) \in Nat /\ 0 + 1 .. Len(r) = 1 .. Len(r)
  OBVIOUS
<1>2. /\ \A i \in 1 .. Len(r) : i + n \in n + 1 .. Len(q)
      /\ \A i \in n + 1 .. Len(q) : i - n \in 1 .. Len(r) /\ (i - n) + n = i
  BY <1>1
<1>3. Items(r, 0) \subseteq Items(q, n)
  BY <1>1, <1>2 DEF Items
<1>4. Items(q, n) \subseteq Items(r, 0)
  <2>1. \A i \in n + 1 .. Len(q) : i - n \in 0 + 1 .. Len(r) /\ r[i - n] = q[i]
    BY <1>1, <1>2
  <2> QED BY <2>1 DEF Items
<1>5. ASSUME NoRepeat(q, n), NEW i \in 1 .. Len(r), NEW j \in 1 .. Len(r), r[i] = r[j]
      PROVE  i = j
  <2>1. /\ i + n \in n + 1 .. Len(q) /\ j + n \in n + 1 .. Len(q)
        /\ q[i + n] = q[j + n]
    BY <1>2, <1>5
  <2>2. i + n = j + n
    BY <1>5, <2>1 DEF NoRepeat
  <2> QED BY <2>2
<1>6. NoRepeat(q, n) => NoRepeat(r, 0)
  BY <1>1, <1>5 DEF NoRepeat
<1> QED BY <1>3, <1>4, <1>6

\* What SubSeq leaves when it drops the first n items.
LEMMA SuffixIs ==
  ASSUME NEW S, NEW q \in Seq(S), NEW n \in Nat, n <= Len(q)
  PROVE  /\ SubSeq(q, n + 1, Len(q)) \in Seq(S)
         /\ Len(SubSeq(q, n + 1, Len(q))) = Len(q) - n
         /\ \A i \in 1 .. Len(SubSeq(q, n + 1, Len(q))) :
                SubSeq(q, n + 1, Len(q))[i] = q[i + n]
<1>1. /\ Len(q) \in Nat /\ n + 1 \in 1 .. Len(q) + 1
      /\ (IF n + 1 <= Len(q) THEN Len(q) - (n + 1) + 1 ELSE 0) = Len(q) - n
  OBVIOUS
<1>2. /\ SubSeq(q, n + 1, Len(q)) \in Seq(S)
      /\ Len(SubSeq(q, n + 1, Len(q))) = Len(q) - n
  BY <1>1
<1>3. ASSUME NEW i \in 1 .. Len(q) - n PROVE SubSeq(q, n + 1, Len(q))[i] = q[i + n]
  <2>1. i + n = (n + 1) + i - 1
    BY <1>1
  <2> QED BY <1>1, <2>1
<1> QED BY <1>2, <1>3

\* pop_front.
LEMMA ItemsTail ==
  ASSUME NEW S, NEW q \in Seq(S), q # <<>>, NoRepeat(q, 0)
  PROVE  /\ Head(q) \in Items(q, 0) /\ Head(q) \in S
         /\ Items(Tail(q), 0) = Items(q, 0) \ {Head(q)}
         /\ NoRepeat(Tail(q), 0)
<1>1. /\ Len(q) \in Nat /\ 0 < Len(q) /\ Head(q) = q[0 + 1] /\ Tail(q) \in Seq(S)
      /\ Len(Tail(q)) = Len(q) - 1 /\ \A i \in 1 .. Len(Tail(q)) : Tail(q)[i] = q[i + 1]
      /\ 0 + 1 = 1 /\ 1 <= Len(q)
  OBVIOUS
<1>2. /\ q[0 + 1] \in Items(q, 0) /\ q[0 + 1] \in S
      /\ Items(q, 1) = Items(q, 0) \ {q[0 + 1]} /\ NoRepeat(q, 1)
  BY <1>1, ItemsNext
<1>3. Items(Tail(q), 0) = Items(q, 1) /\ NoRepeat(Tail(q), 0)
  <2>1. PICK r \in Seq(S) : r = Tail(q)
    BY <1>1
  <2>2. Len(r) = Len(q) - 1 /\ \A i \in 1 .. Len(r) : r[i] = q[i + 1]
    BY <1>1, <2>1
  <2>3. Items(r, 0) = Items(q, 1) /\ (NoRepeat(q, 1) => NoRepeat(r, 0))
    BY ONLY <1>1, <2>2, ItemsDrop, q \in Seq(S), r \in Seq(S)
  <2> QED BY <1>2, <2>1, <2>3
<1> QED BY <1>1, <1>2, <1>3

-----------------------------------------------------------------------------
(* Sequences.                                                              *)

\* The empty list.
LEMMA EmptyList ==
  ASSUME NEW S
  PROVE  /\ << >> \in Seq(S) /\ Len(<< >>) = 0
         /\ \A q \in Seq(S) : q # << >> => Len(q) \in Nat \ {0}
OBVIOUS

\* push_back: the new item is the last one.
LEMMA AppendIs ==
  ASSUME NEW S, NEW q \in Seq(S), NEW x \in S
  PROVE  /\ Append(q, x) \in Seq(S) /\ Append(q, x) # << >>
         /\ Len(Append(q, x)) = Len(q) + 1 /\ Append(q, x)[Len(q) + 1] = x
         /\ \A i \in 1 .. Len(q) : Append(q, x)[i] = q[i]
OBVIOUS

\* Lists with the same items at the same places are equal.
LEMMA ListsEqual ==
  ASSUME NEW S, NEW q \in Seq(S), NEW r \in Seq(S), Len(q) = Len(r),
         \A i \in 1 .. Len(q) : q[i] = r[i]
  PROVE  q = r
OBVIOUS

\* A list is a function on its places.
LEMMA LenIs ==
  ASSUME NEW S, NEW q \in Seq(S)
  PROVE  Len(q) \in Nat /\ q \in [1 .. Len(q) -> S] /\ DOMAIN q = 1 .. Len(q)
OBVIOUS

\* A part that ends before it begins is empty.
LEMMA EmptyPart ==
  ASSUME NEW S, NEW q \in Seq(S), NEW i \in Int, NEW j \in Int, j < i
  PROVE  SubSeq(q, i, j) = << >>
OBVIOUS
=============================================================================
