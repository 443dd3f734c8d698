------------------------------ MODULE Compare ------------------------------
(***************************************************************************)
(* compare.go: the two listings of --compare and the comparison of them.   *)
(* A bucket is a function from its keys to the sizes of its objects; sums  *)
(* of bytes, the order of the lists and the report are left out.           *)
(***************************************************************************)
EXTENDS Integers, FiniteSets

(* listWasabiObjects and listGCSObjects: the non-empty objects under the   *)
(* prefix.                                                                 *)
ListObjects(bucket, prefix) ==
    [k \in {j \in DOMAIN bucket \cap prefix : bucket[j] # 0} |-> bucket[k]]

(* Mutant: an object of another size also counts as missing.               *)
compareObjectsBySize(source, dest) ==
    LET both == DOMAIN source \cap DOMAIN dest
        same == {k \in both : source[k] = dest[k]}
    IN  [Matching     |-> same,
         SizeMismatch |-> both \ same,
         OnlyInSource |-> DOMAIN source \ same,
         OnlyInDest   |-> DOMAIN dest \ DOMAIN source,
         SourceTotal  |-> Cardinality(DOMAIN source),
         DestTotal    |-> Cardinality(DOMAIN dest)]

(* compareObjects: by key and size; no checksum is looked at.              *)
compareObjects(source, dest) ==
    LET both == DOMAIN source \cap DOMAIN dest
    IN  [Matching     |-> {k \in both : source[k] = dest[k]},
         SizeMismatch |-> {k \in both : source[k] # dest[k]},
         OnlyInSource |-> DOMAIN source \ DOMAIN dest,
         OnlyInDest   |-> DOMAIN dest \ DOMAIN source,
         SourceTotal  |-> Cardinality(DOMAIN source),
         DestTotal    |-> Cardinality(DOMAIN dest)]

(* runCompare: the report, when no listing has failed.                     *)
runCompare(wasabi, gcs, prefix) ==
    compareObjects(ListObjects(wasabi, prefix), ListObjects(gcs, prefix))
=============================================================================
