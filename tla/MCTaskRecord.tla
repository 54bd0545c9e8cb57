---------------------------- MODULE MCTaskRecord ----------------------------
(* TaskRecord for TLC: a trigger, an iteration and two calls of abort update one record. *)
EXTENDS TaskRecord
=============================================================================
