---------------------------- MODULE MCXinputIdle ----------------------------
(***************************************************************************)
(* Instances of XinputIdle for TLC, in seconds.                            *)
(***************************************************************************)
EXTENDS XinputIdle, TLC

CONSTANTS c1, c2

Clients2 == {c1, c2}
Back == {2, 7}
=============================================================================
