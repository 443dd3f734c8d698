------------------------------ MODULE MCDryRun ------------------------------
(* Three objects over two pages, one of them completed by an earlier run.  *)
EXTENDS DryRun

CONSTANTS k1, k2, old

MCKeys == {k1, k2, old}
MCPages == <<<<k1, old>>, <<k2>>>>
NoKeys == {}
MCCompleted == {old}
=============================================================================
