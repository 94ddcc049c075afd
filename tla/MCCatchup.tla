------------------------------- MODULE MCCatchup -------------------------------
(* Small instances of Catchup.                                             *)
EXTENDS Catchup, TLC

CONSTANTS i1, i2

TwoItems == {i1, i2}
OneItem  == {i1}
================================================================================
