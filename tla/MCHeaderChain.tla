--------------------------- MODULE MCHeaderChain ---------------------------
(* Instances of HeaderChain for TLC. *)
EXTENDS HeaderChain

(* Four producers, then three of them, or the other way round. *)
ShrinkSchedules == {<<"a", "b", "c", "d">>, <<"a", "b", "c">>}
(* Two pairs of producers that take turns. *)
TurnSchedules == {<<"a", "b">>, <<"c", "d">>}
=============================================================================
