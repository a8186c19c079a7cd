-------------------------- MODULE MCProfileVersions --------------------------
(* Instances of ProfileVersions for TLC. *)
EXTENDS ProfileVersions, TLC

CONSTANTS a, b, t

\* One issue type replaced by another, the same tags; the seed has fewer tags.
MCVocabularies ==
  {[policy |-> {a}, tag |-> {t}], [policy |-> {b}, tag |-> {t}]}

MCSeed == [policy |-> {a}, tag |-> {}]

Symmetry == Permutations(Requests)
=============================================================================
