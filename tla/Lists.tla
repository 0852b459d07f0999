--------------------------------- MODULE Lists ---------------------------------
(***************************************************************************)
(* The lists that filters make: the members at some of the places of a     *)
(* list, in order.  (The loops of dedupeNonEmpty in jobs/server.go and the *)
(* filter of useNotifications.ts.)                                         *)
(***************************************************************************)
EXTENDS Naturals, SequencesExt

\* The n-th place is the one that has n - 1 below it.
Place(places, n) == CHOOSE i \in places : Cardinality({h \in places : h < i}) = n - 1

AtPlaces(list, places) == [n \in 1 .. Cardinality(places) |-> list[Place(places, n)]]
================================================================================
