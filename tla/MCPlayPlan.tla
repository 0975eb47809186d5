----------------------------- MODULE MCPlayPlan -----------------------------
(* Small instances of PlayPlan for TLC.                                    *)
EXTENDS PlayPlan

CONSTANTS x, y, c1, c2, p1
=============================================================================
