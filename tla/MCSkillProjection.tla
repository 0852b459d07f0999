--------------------------- MODULE MCSkillProjection ---------------------------
(* Small instances of SkillProjection. *)
EXTENDS SkillProjection, TLC

\* Bound: a database error, a crash or a shutdown, but one of them only.
OneTrouble == handlerErrors' + stops' <= 1

MCSpec == Init /\ [][Next /\ OneTrouble]_vars /\ Fairness
================================================================================
