---------------------------- MODULE MCEventWriter ---------------------------
(* One session: a few events, one or two faults, a crash at any moment.    *)
EXTENDS EventWriter
=============================================================================
