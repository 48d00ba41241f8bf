---------------------------- MODULE Arrangement -----------------------------
(***************************************************************************)
(* The lists that filtering and sorting make of a list, by the indices     *)
(* that are kept and the order in which they come.                         *)
(***************************************************************************)
EXTENDS Integers, FiniteSets

(* The entries of list at the indices I: first that with none before it.     *)
Arranged(list, I, before) ==
  LET place(i) == Cardinality({j \in I : <<j, i>> \in before}) + 1
  IN  [n \in 1 .. Cardinality(I) |-> list[CHOOSE i \in I : place(i) = n]]

Earlier(I) == {p \in I \X I : p[1] < p[2]}

(* [x for x in list if ...]                                                  *)
Kept(list, I) == Arranged(list, I, Earlier(I))

(* Those of higher priority, and of one priority those that came earlier.    *)
Preferred(list) ==
  {p \in (DOMAIN list) \X (DOMAIN list) :
     /\ p[1] # p[2]
     /\ \/ list[p[1]].priority > list[p[2]].priority
        \/ list[p[1]].priority = list[p[2]].priority /\ p[1] < p[2]}

(* sorted(list, key=priority, reverse=True), which is stable.                *)
HighestFirst(list) == Arranged(list, DOMAIN list, Preferred(list))
=============================================================================
