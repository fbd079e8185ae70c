---------------------------- MODULE MCXinputInput ----------------------------
(***************************************************************************)
(* Instances of XinputInput for TLC: a button, and a stick with a straight *)
(* and a diagonal position, in two parts.                                  *)
(***************************************************************************)
EXTENDS XinputInput, TLC

CONSTANTS a, stick, up, upleft, wButtons, sThumb

Groups == {a, stick}
Ranks == (a :> 10) @@ (stick :> 16)
Positions == (a :> {a}) @@ (stick :> {up, upleft})
Parts == {wButtons, sThumb}
Layout == (a :> wButtons) @@ (stick :> sThumb)
==============================================================================
