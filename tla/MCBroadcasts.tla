----------------------------- MODULE MCBroadcasts -----------------------------
(* Instances of Broadcasts for TLC. *)
EXTENDS Broadcasts

Symmetry == Permutations(Contacts) \cup Permutations(Requests)
=============================================================================
