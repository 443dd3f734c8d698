----------------------------- MODULE RunContext -----------------------------
(***************************************************************************)
(* What the goroutines of one migration run share (main.go:runMigration):  *)
(* the bounded jobs channel between the lister and the worker pool, the    *)
(* tree of contexts, and the completed set of the StateManager.            *)
(***************************************************************************)
EXTENDS Integers, Sequences

CONSTANTS
    Keys,     \* the object keys of the source bucket
    NoKey,    \* no job, no bar
    Workers   \* cfg.Workers

ASSUME WorkersAssumption == Workers \in Nat \ {0}
ASSUME NoKeyAssumption == NoKey \notin Keys

(* The slot IDs the semaphore channel is filled with, pool.go:35-38.       *)
Slots == 0 .. Workers - 1

(* cap(jobs), main.go:487.                                                 *)
Capacity == 2 * Workers

VARIABLES
    jobs,       \* the jobs in the channel, oldest first
    closed,     \* close(jobs) has been called
    cancelled,  \* the contexts that were cancelled themselves
    completed   \* the keys StateManager.IsCompleted answers true for

(* The root context (cancelled by a signal), the one of main's errgroup    *)
(* (lister and pool) and the one of the pool's errgroup (the transfers):   *)
(* each is the parent of the next, and done when an ancestor is.           *)
Contexts == {"root", "outer", "inner"}
RootDone  == "root" \in cancelled
OuterDone == RootDone \/ "outer" \in cancelled
InnerDone == OuterDone \/ "inner" \in cancelled
=============================================================================
