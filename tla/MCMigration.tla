---------------------------- MODULE MCMigration ----------------------------
(***************************************************************************)
(* Listings for Migration.  Narrow: one worker and five objects to send    *)
(* over two pages, so that the channel of capacity two fills while one     *)
(* job runs and one waits for the slot.  Wide: two workers, three objects  *)
(* to send, an empty one and two completed by earlier runs.                *)
(***************************************************************************)
EXTENDS Migration

CONSTANTS k1, k2, k3, k4, k5, folder, old1, old2

NarrowKeys == {k1, k2, k3, k4, k5}
NarrowPages == <<<<k1, k2, k3>>, <<k4, k5>>>>

WideKeys == {k1, k2, k3, folder, old1, old2}
WidePages == <<<<k1, old1, folder>>, <<old2, k2, k3>>>>
WideZeroSize == {folder}
WideCompleted == {old1, old2}

NoKeys == {}
=============================================================================
