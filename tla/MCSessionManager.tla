-------------------------- MODULE MCSessionManager --------------------------
(* SessionManager on small instances. *)
EXTENDS SessionManager, TLC

\* Ids, handlers and process ids are interchangeable.
Symmetry == Permutations(Session) \union Permutations(Request) \union Permutations(Group)
=============================================================================
