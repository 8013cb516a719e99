------------------------------ MODULE MCHeader ------------------------------
(* Header at scaled-down protocol constants.                              *)
EXTENDS Header
====
