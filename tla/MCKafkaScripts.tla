--------------------------- MODULE MCKafkaScripts ---------------------------
(* A small instance of KafkaScripts for TLC: one query of each mode; three *)
(* versions, of which the last comes out during the simulation.            *)
EXTENDS KafkaScripts

MCQueries == <<"event", "snapshot">>
MCTimezone == <<-1, 0>>
MCInitial == {1}
MCRelease == <<-1, 0, 1>>
MCEnforced == {1, 3}

=============================================================================
