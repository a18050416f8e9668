------------------------------ MODULE MCStream ------------------------------
(* A small instance of Stream.                                           *)
EXTENDS Stream

CONSTANT tab1
MCTabs == {tab1}
=============================================================================
