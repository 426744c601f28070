--------------------------- MODULE MCBatchUpload ---------------------------
(***************************************************************************)
(* TLC instance of BatchUpload: a file of one good row, one of two rows    *)
(* whose second has a bad amount, behind the one row of the preview, and   *)
(* one without rows.                                                       *)
(***************************************************************************)
EXTENDS BatchUpload

MCFiles == {[rows |-> 1, bad |-> {}], [rows |-> 2, bad |-> {2}], [rows |-> 0, bad |-> {}]}
=============================================================================
