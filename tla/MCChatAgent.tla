---------------------------- MODULE MCChatAgent ----------------------------
(* ChatAgent on a small instance. *)
EXTENDS ChatAgent

CONSTANTS c1, c2

\* Three calls, one of them without an id; the ids come back in later rounds.
MCRounds == {<<c1, NoId, c2>>}
=============================================================================
