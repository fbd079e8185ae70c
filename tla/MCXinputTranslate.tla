------------------------- MODULE MCXinputTranslate -------------------------
(***************************************************************************)
(* Instances of XinputTranslate for TLC: the kinds of gamepads that differ *)
(* in where the D-pad, the triggers and the odd buttons are.               *)
(***************************************************************************)
EXTENDS XinputTranslate, TLC

\* BTN_A to BTN_THUMBR, with neither BTN_C, BTN_Z nor the digital triggers
XboxKeys == {\h130, \h131, \h133, \h134, \h136, \h137, \h13a, \h13b, \h13c,
             \h13d, \h13e}
SixAxes == 0 .. 5

Xbox == [keys |-> XboxKeys, axes |-> SixAxes \cup {16, 17}]
\* wireless: the D-pad is BTN_TRIGGER_HAPPY1 to 4
Wireless == [keys |-> XboxKeys \cup \h2c0 .. \h2c3, axes |-> SixAxes]
\* BTN_DPAD_* and BTN_TRIGGER_HAPPY*, and a hat that nothing reads
Both == [keys |-> XboxKeys \cup \h220 .. \h223 \cup \h2c0 .. \h2c3,
         axes |-> SixAxes \cup {16, 17}]
\* no BTN_MODE, BTN_X nor BTN_Y: BTN_C, BTN_Z and BTN_TL2 take their place; the
\* second hat is the D-pad; KEY_ESC has the code of ABS_Y
Odd == [keys |-> {1, \h132, \h135, \h138} \cup (XboxKeys \ {\h133, \h134, \h13c}),
        axes |-> SixAxes \cup {18, 19}]
\* digital triggers only
NoTriggers == [keys |-> XboxKeys \cup {\h138, \h139},
               axes |-> {0, 1, 3, 4, 16, 17}]
\* too few buttons
Small == [keys |-> {\h130, \h131}, axes |-> SixAxes]

Gamepads == {Xbox, Wireless, Both, Odd, NoTriggers, Small}
Keys == {1, \h130, \h132, \h135, \h138, \h220, \h2c0, \h2c2}
Values == {0, 200, -300}
=============================================================================
