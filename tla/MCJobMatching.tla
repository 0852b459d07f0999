----------------------------- MODULE MCJobMatching -----------------------------
(* Small instances of JobMatching. *)
EXTENDS JobMatching

CONSTANTS s1, s2

\* One skill, a duplicate, two skills behind a blank, and none at all.
MCRequests == {<<s1, s1>>, <<Blank, s1, s2>>, <<Blank>>}
================================================================================
