---------------------------- MODULE MCListPaging ----------------------------
(* A small instance of ListPaging: entries that fill a page alone, by two, *)
(* or never fit.                                                           *)
EXTENDS ListPaging
=============================================================================
