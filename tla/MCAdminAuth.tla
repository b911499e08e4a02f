----------------------------- MODULE MCAdminAuth -----------------------------
(* Values TLC gives the constants of AdminAuth. *)
EXTENDS AdminAuth, TLC

HandlerSymmetry == Permutations(Handlers)
=============================================================================
