----------------------------- MODULE MCCollect -----------------------------
(* One or two of two people are asked at a time.                             *)
EXTENDS Collect

MCAskable == {<<"x">>, <<"y">>, <<"x", "y">>}
=============================================================================
