------------------------- MODULE MCConversationJobs -------------------------
(* Instances of ConversationJobs for TLC. *)
EXTENDS ConversationJobs, TLC

Symmetry == Permutations(Ids) \cup Permutations(Requests)
=============================================================================
