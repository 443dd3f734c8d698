----------------------------- MODULE MCProgram ------------------------------
(***************************************************************************)
(* For the log: two ordinary keys, one that is a number, and one with a    *)
(* tab between the name of an ordinary key and a number.  For the sweep:   *)
(* the first levels, and speeds of which one gains 20 % over another, one  *)
(* 4 %, so that a level may gain, stall or fall back.                      *)
(***************************************************************************)
EXTENDS Program, TLC

CONSTANTS a, b, five, tabbed

MCKeys == {a, b, five, tabbed}
MCPieces == (a :> <<a>>) @@ (b :> <<b>>) @@ (five :> <<five>>) @@ (tabbed :> <<a, five>>)
MCNumeric == {five, Size}

MCSpeeds == {20, 24, 25}
MCLevels == <<1, 2, 4, 8, 16>>
=============================================================================
