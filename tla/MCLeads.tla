-------------------------------- MODULE MCLeads --------------------------------
(* Instances of Leads for TLC. *)
EXTENDS Leads, TLC

Symmetry == Permutations(Contacts) \cup Permutations(Owners) \cup Permutations(Desks) \cup Permutations(Readers)
=============================================================================
