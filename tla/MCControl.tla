----------------------------- MODULE MCControl -----------------------------
(* Control on a small instance.                                            *)
EXTENDS Control

TwoDaemons == 1..2
=============================================================================
