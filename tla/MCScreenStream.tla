--------------------------- MODULE MCScreenStream ----------------------------
(* A small instance of ScreenStream: screens of two tiles, of which three  *)
(* are drawn, so that a screen that is half copied is not one of them.     *)
EXTENDS ScreenStream

MCScreen == {[t \in Tile |-> 0], [t \in Tile |-> 1], [t \in Tile |-> IF t = 1 THEN 1 ELSE 2]}
MCBlank  == [t \in Tile |-> 0]
=============================================================================
