----------------------------- MODULE MCLicensing -----------------------------
(* Values TLC gives the constants of Licensing. *)
EXTENDS SeatRefinement, TLC

\* Installations, handlers and admin requests are interchangeable.
Symmetry == Permutations(Apps) \cup Permutations(Requests) \cup Permutations(Workers)

\* Every plan is seeded and lasts one day; no plan is seeded.
OneDay   == [p \in Plans |-> 1]
Unseeded == [p \in Plans |-> NULL]

\* Any code may be created with or without a customer; always with one; never.
AnyOwner == [c \in Codes |-> CustomerIds \cup {NULL}]
Linked   == [c \in Codes |-> CustomerIds]
NoOwner  == [c \in Codes |-> {NULL}]
=============================================================================
