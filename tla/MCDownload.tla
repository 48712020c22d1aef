----------------------------- MODULE MCDownload -----------------------------
(***************************************************************************)
(* A small instance of Download: an object of two segments, the second of  *)
(* them short, that is replaced by one with more bytes in as many but an   *)
(* earlier time.                                                           *)
(***************************************************************************)
EXTENDS Download

Sizes == <<3, 4>>
Times == <<2, 1>>
=============================================================================
