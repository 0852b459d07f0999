----------------------------- MODULE MCJobsListing -----------------------------
(***************************************************************************)
(* What the services read back of what they have written: the jobs, the    *)
(* taxonomy and the profiles.  The three share no state and are run one at *)
(* a time: each moves only while the others are in their initial states.   *)
(***************************************************************************)
EXTENDS JobsListing, Taxonomy, Profiles, TLC

MCSymmetry == Permutations(Jobs) \cup Permutations(Readers)

MCNext ==
  \/ Next /\ TaxonomyInit /\ ProfilesInit /\ UNCHANGED <<taxonomyVars, profileVars>>
  \/ TaxonomyNext /\ Init /\ ProfilesInit /\ UNCHANGED <<vars, profileVars>>
  \/ ProfilesNext /\ Init /\ TaxonomyInit /\ UNCHANGED <<vars, taxonomyVars>>

MCInit == Init /\ TaxonomyInit /\ ProfilesInit
MCSpec == MCInit /\ [][MCNext]_<<vars, taxonomyVars, profileVars>> /\ Fairness
================================================================================
