----------------------------- MODULE MCAdmission -----------------------------
(* Small instances of Admission for TLC. *)
EXTENDS Admission, TLC

\* Groups, fingerprints, statuses and jobs are interchangeable.
Symmetry == Permutations(Groups) \cup Permutations(Fingerprints)
              \cup Permutations(Statuses) \cup Permutations(Jobs)

=============================================================================
