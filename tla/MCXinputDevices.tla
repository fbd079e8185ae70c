-------------------------- MODULE MCXinputDevices --------------------------
(***************************************************************************)
(* Instances of XinputDevices for TLC: two slots, two gamepads and one     *)
(* device the driver does not know.                                        *)
(***************************************************************************)
EXTENDS XinputDevices, TLC

CONSTANTS d1, d2, d3, r1, r2, r3

Devices2 == {d1, d2}
Devices3 == {d1, d2, d3}
Keyboard == {d3}
Nothing == {}
Readers2 == {r1, r2}
Readers3 == {r1, r2, r3}

Symmetry == Permutations(Reader) \cup Permutations(Dev \ Unknown)
=============================================================================
