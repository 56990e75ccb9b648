----------------------------- MODULE MCProjects -----------------------------
(* An instance of Projects for TLC: revisions of one GPU each. *)
EXTENDS Projects

MCRevisions == 1 .. 2
Sizes       == [r \in MCRevisions |-> 1]

============================================================================
