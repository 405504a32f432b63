-------------------------------- MODULE Classify --------------------------------
(***************************************************************************)
(* scenario.ClassifyError (internal/scenario/classify.go): what an error   *)
(* is counted as.  An error is what errors.Is and errors.As find in its    *)
(* chain: a deadline or a net.Error that timed out, the kind of trace      *)
(* error, and whether its text is the auth server's lockout message.       *)
(***************************************************************************)

ErrorKinds ==
  {"access-denied", "limit-exceeded", "connection-problem", "not-found",
   "already-exists", "compare-failed", "bad-parameter", "not-implemented", "other"}

Error == [timedOut : BOOLEAN, kind : ErrorKinds, lockoutText : BOOLEAN]

\* Any access denied is the client's fault.
MutClassifyError(err) ==
  IF err.timedOut THEN "timeout"
  ELSE IF err.kind = "access-denied" THEN "client-error"
  ELSE IF err.kind = "limit-exceeded" THEN "rate-limited"
  ELSE IF err.kind \in {"connection-problem", "other"} THEN "server-error"
  ELSE "client-error"

ClassifyError(err) ==
  IF err.timedOut THEN "timeout"
  ELSE IF err.kind = "access-denied" /\ err.lockoutText THEN "lockout"
  ELSE IF err.kind = "limit-exceeded" THEN "rate-limited"
  ELSE IF err.kind \in {"connection-problem", "other"} THEN "server-error"
  ELSE "client-error"

=================================================================================
