------------------------------ MODULE MCResume ------------------------------
(***************************************************************************)
(* Command lines for Resume.                                               *)
(***************************************************************************)
EXTENDS Resume

MCKeys == {1, 2}

Flag(f, r, c, p) == [force |-> f, rescan |-> r, checkDest |-> c, prefix |-> p]
Plain  == Flag(FALSE, FALSE, FALSE, MCKeys)
Rescan == Flag(FALSE, TRUE, FALSE, MCKeys)
Narrow == Flag(FALSE, FALSE, FALSE, {1})
Force  == Flag(TRUE, FALSE, FALSE, MCKeys)
Check  == Flag(FALSE, FALSE, TRUE, MCKeys)

MCRemoteFlags == {Plain, Narrow, Check, Force}
NoFlags == {}
PlainFlags == {Plain}
CheckFlags == {Plain, Check}
RescanFlags == {Plain, Rescan}
MCLocalFlags == {Plain, Rescan, Force, Check}
=============================================================================
