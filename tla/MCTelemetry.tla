----------------------------- MODULE MCTelemetry ----------------------------
(* One round, one entrant and one driver behind a real writer.             *)
EXTENDS Telemetry

CONSTANTS p1, w1, c1

MCLocksAt == [p \in Predictions |-> 1]
MCResolvesAt == [p \in Predictions |-> 2]
MCPool == [p \in Predictions |-> 1]
MCRules == {[p \in Predictions |-> "occurs"]}
=============================================================================
