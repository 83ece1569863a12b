------------------------------ MODULE MCTablet -------------------------------
(* A small instance of Tablet: two fingers, a document of up to two pages. *)
EXTENDS Tablet
=============================================================================
