---------------------------- MODULE MCBookList ----------------------------
(* An instance of BookList for TLC. *)
EXTENDS BookList

CONSTANTS s1, s2, s3
=============================================================================
