--------------------------- MODULE MCBlockDownload ---------------------------
(***************************************************************************)
(* BlockDownload with two workers in place of eight.                       *)
(***************************************************************************)
EXTENDS BlockDownload
=============================================================================
