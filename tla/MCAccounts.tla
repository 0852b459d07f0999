------------------------------- MODULE MCAccounts -------------------------------
(***************************************************************************)
(* auth-service: its accounts, and its signing keys with the api-gateway   *)
(* that checks tokens.  The two share no state and are run one at a time:  *)
(* either moves only while the other is in an initial state.               *)
(***************************************************************************)
EXTENDS Accounts, Tokens, Functions, TLC

\* Three mailboxes, one of which can be typed in two ways.
MCSpellings == {"ann", "ANN", "ben", "cid"}
mcNormalize == [s \in MCSpellings |-> IF s = "ANN" THEN "ann" ELSE s]

MCSymmetry == Permutations(Calls) \cup Permutations(Subjects)

\* One initial state of either is enough for the other.
TokensRest == TokensInit /\ kids = "own" /\ signing = CHOOSE key \in Keys : TRUE
AccountsRest == Init /\ Range(address) = {"ann", "ben"}

MCNext ==
  \/ TokensRest /\ Next /\ UNCHANGED tokenVars
  \/ AccountsRest /\ TokensNext /\ UNCHANGED vars

MCInit == Init /\ TokensInit
MCSpec == MCInit /\ [][MCNext]_<<vars, tokenVars>>
================================================================================
