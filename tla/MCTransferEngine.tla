-------------------------- MODULE MCTransferEngine --------------------------
(***************************************************************************)
(* One key with a plain ETag and one with a multipart ETag; two versions   *)
(* of a source object of different sizes, so that a cut of the larger one  *)
(* has the size of the smaller; two attempts per key; one overwrite.       *)
(***************************************************************************)
EXTENDS TransferEngine, TLC

CONSTANTS plain, multi, v1, v2

MCKeys == {plain, multi}
MCMultipart == {multi}
MCContents == {v1, v2}
MCSizeOf == v1 :> 1 @@ v2 :> 2
MCListed == [k \in MCKeys |-> v1]

(* A read that stalled; a response header that timed out (net/http reports *)
(* it as a context deadline); a body that ended early; a request that met  *)
(* EOF (net/http wraps it in a net.Error); a connection reset below        *)
(* net/http, and one that a gRPC status reports by its text; 503 SlowDown; *)
(* any other 5xx (InternalError, ServiceUnavailable, a gRPC status); a     *)
(* refused key.  "googleapi: Error 5" is the text of the JSON client: the  *)
(* engine's GCS client is the gRPC one (clients.go:84-94).                 *)
MCFaults == {{"net", "timeout"}, {"ctx", "net", "timeout"}, {"eof"}, {"net", "eof"},
             {"net", "resetText"}, {"resetText"}, {"busy", "retryCode"}, {"busy"},
             {"fatalCode"}}
MCEndOfBody == {{"eof"}}
MCTransient == {{"busy"}, {"net", "resetText"}}
=============================================================================
