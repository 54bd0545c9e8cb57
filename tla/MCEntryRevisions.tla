------------------------- MODULE MCEntryRevisions -------------------------
(* A small instance of EntryRevisions for TLC. *)
EXTENDS EntryRevisions

===========================================================================
