------------------------------ MODULE MCScreens ------------------------------
(* Two pages of one filter and one of another; every component. *)
EXTENDS Screens

TwoPagesAndAnother == {<<"a", 1>>, <<"a", 2>>, <<"b", 1>>}

OneOpening == {<<"a", 1>>}
=============================================================================
