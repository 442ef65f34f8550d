---------------------------- MODULE MCOrderPages ----------------------------
(* Instances of OrderPages for TLC.                                        *)
EXTENDS OrderPages, TLC
=============================================================================
