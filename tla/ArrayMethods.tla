---------------------------- MODULE ArrayMethods ----------------------------
(***************************************************************************)
(* The array methods of the language that the functions behind the         *)
(* documents call, defined without recursion so that facts about them can  *)
(* be proved.                                                              *)
(***************************************************************************)
EXTENDS Naturals, SequencesExt

\* An array of a payload.
IsArray(seq) == seq \in Seq(ToSet(seq))

\* The members of a finite set of numbers from the lowest to the highest.
InOrder(S) ==
  CHOOSE p \in Bijection(1..Cardinality(S), S) :
    \A i, j \in 1..Cardinality(S) : i < j => p[i] < p[j]

Note(seen, value) == IF Contains(seen, value) THEN seen ELSE Append(seen, value)

\* The different values, in the order in which they come first: those of a Set, or the
\* keys of an object.
Distinct(values) == FoldLeft(Note, <<>>, values)

\* The elements of a sequence at some places of it.
Picked(seq, places) == [k \in DOMAIN places |-> seq[places[k]]]

\* Array.prototype.filter
Filter(seq, Test(_)) == Picked(seq, InOrder({i \in DOMAIN seq : Test(seq[i])}))

\* Array.prototype.sort; elements of which each may come before the other are in
\* some order.
Sorted(seq, Before(_, _)) ==
  Picked(seq, CHOOSE p \in Bijection(DOMAIN seq, DOMAIN seq) :
                \A i, j \in DOMAIN seq : i < j => Before(seq[p[i]], seq[p[j]]))
=============================================================================
