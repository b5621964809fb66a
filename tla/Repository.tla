----------------------------- MODULE Repository -----------------------------
(***************************************************************************)
(* What TypeORM's Repository.save does with an entity that has an id, as   *)
(* every service of the gateway uses it.  save first SELECTs the row of    *)
(* that id, then compares the entity the caller holds with the row it has  *)
(* just loaded, and writes only the columns that differ.  The two          *)
(* statements are separate: other requests run between them.  The caller's *)
(* entity may be much older than the row, and a column that is out of date *)
(* in it counts as a difference.  A row that is missing at the SELECT is   *)
(* INSERTed; a row deleted after the SELECT makes the UPDATE affect        *)
(* nothing, without an error.                                              *)
(***************************************************************************)

\* One column after the UPDATE of a save: the entity's value when it differs
\* from the one the save loaded, otherwise what the row holds by now.
Column(entity, loaded, stored) == IF entity # loaded THEN entity ELSE stored
=============================================================================
