-------------------------- MODULE MCIterationSlots --------------------------
(* Model-checking instance of IterationSlots: five callers for two slots,  *)
(* so a line of up to three forms.  The callers are model values; no       *)
(* symmetry is declared, since one of the properties is a liveness one.    *)
EXTENDS IterationSlots
=============================================================================
