-------------------------- MODULE MCXinputKeystroke --------------------------
(***************************************************************************)
(* Instances of XinputKeystroke for TLC: two users, two threads, two       *)
(* buttons.                                                                *)
(***************************************************************************)
EXTENDS XinputKeystroke, TLC

CONSTANTS c1, c2, a, b

Callers == {c1, c2}
Groups == {a, b}
Ranks == (a :> 10) @@ (b :> 11)
Positions == (a :> {a}) @@ (b :> {b})
==============================================================================
