------------------------------ MODULE LoadWindow ------------------------------
(***************************************************************************)
(* What internal/driver promises its callers about one load window: calls  *)
(* are issued while the window is open, each lands (its Sample reaches     *)
(* onSample) once, and the window closes only when every issued call has   *)
(* landed -- also when it closes because the context was cancelled.        *)
(*                                                                         *)
(* OpenLoop is shown to implement this module; Ramp, which never looks     *)
(* inside the driver, is composed with it.                                 *)
(***************************************************************************)

CONSTANT Calls        \* identities a call of one window can have

VARIABLES
  phase,              \* "closed" | "open": is RunOpenLoop executing
  issued,             \* calls whose goroutine was spawned in this window
  landed,             \* calls whose Sample was handed to onSample
  result,             \* "none" | "ok" | "canceled": what it returned last
  ctxDone             \* the caller's context is done

windowVars == <<phase, issued, landed, result, ctxDone>>

Init ==
  /\ phase = "closed"
  /\ issued = {}
  /\ landed = {}
  /\ result = "none"
  /\ ctxDone = FALSE

\* RunOpenLoop is called; the WaitGroup is new, nothing is in flight.
Open ==
  /\ phase = "closed"
  /\ phase' = "open"
  /\ issued' = {}
  /\ landed' = {}
  /\ result' = "none"
  /\ UNCHANGED ctxDone

\* An arrival comes due and its goroutine is spawned.
Issue(c) ==
  /\ phase = "open"
  /\ c \notin issued
  /\ issued' = issued \cup {c}
  /\ UNCHANGED <<phase, landed, result, ctxDone>>

\* The call returned and its Sample is delivered.
Land(c) ==
  /\ phase = "open"
  /\ c \in issued \ landed
  /\ landed' = landed \cup {c}
  /\ UNCHANGED <<phase, issued, result, ctxDone>>

\* RunOpenLoop returns: nil, or ctx.Err() if the context is done.
CloseAs(r) ==
  /\ phase = "open"
  /\ landed = issued
  /\ r = "canceled" => ctxDone
  /\ phase' = "closed"
  /\ result' = r
  /\ UNCHANGED <<issued, landed, ctxDone>>

Cancel ==
  /\ ~ctxDone
  /\ ctxDone' = TRUE
  /\ UNCHANGED <<phase, issued, landed, result>>

Next ==
  \/ Open
  \/ \E c \in Calls : Issue(c) \/ Land(c)
  \/ \E r \in {"ok", "canceled"} : CloseAs(r)
  \/ Cancel

Spec == Init /\ [][Next]_windowVars

===============================================================================
