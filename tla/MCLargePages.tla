---------------------------- MODULE MCLargePages ----------------------------
(***************************************************************************)
(* A small instance of LargePages: three attempts of up to three pages,    *)
(* memory that comes and goes between them, and direct searches over every *)
(* translation of one and of four pages, for sizes below, at, between and  *)
(* above whole pages.                                                      *)
(***************************************************************************)
EXTENDS LargePages

MCRequests == {2, 4}
MCAvailable == {3, 5, 7}
MCSearchSizes == {0, 1, 2, 3, 4, 6, 8}
=============================================================================
