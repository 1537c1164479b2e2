---------------------------- MODULE ScanContract ----------------------------
(***************************************************************************)
(* What scanner.Scan promises its caller, with no goroutine or channel in  *)
(* sight.  A call of Scan delivers the outcomes of the walk's items (each  *)
(* item is one regular file to scan or one path the traversal could not    *)
(* read), each at most once, in any order, and then returns.  It returns a *)
(* report with a nil error when every item was delivered, and it returns   *)
(* the context's error only when the context was cancelled.  A cancelled   *)
(* call may return either way: that is what the source does, and the       *)
(* detailed specification is ScanPipeline.                                 *)
(***************************************************************************)
EXTENDS Naturals

CONSTANT Items        \* the items of the walk, in no particular order

VARIABLES
  collected,          \* how often the outcome of each item was delivered
  status,             \* "running", or how Scan returned: "report", "error"
  cancelled           \* whether ctx was cancelled before Scan returned

contractVars == <<collected, status, cancelled>>

ContractInit ==
  /\ collected = [i \in Items |-> 0]
  /\ status = "running"
  /\ cancelled = FALSE

\* The outcome of item i reaches the collector; a second one never does.
Deliver(i) ==
  /\ status = "running"
  /\ collected[i] = 0
  /\ collected' = [collected EXCEPT ![i] = 1]
  /\ UNCHANGED <<status, cancelled>>

\* The caller's context ends: a signal, or a callback that gave up.
CancelScan ==
  /\ status = "running"
  /\ ~cancelled
  /\ cancelled' = TRUE
  /\ UNCHANGED <<collected, status>>

\* return report, nil
DeliverReport ==
  /\ status = "running"
  /\ \/ \A i \in Items : collected[i] = 1
     \/ cancelled
  /\ status' = "report"
  /\ UNCHANGED <<collected, cancelled>>

\* return Report{}, ctx.Err()
DeliverError ==
  /\ status = "running"
  /\ cancelled
  /\ status' = "error"
  /\ UNCHANGED <<collected, cancelled>>

ContractNext ==
  \/ \E i \in Items : Deliver(i)
  \/ CancelScan
  \/ DeliverReport
  \/ DeliverError

ContractSpec == ContractInit /\ [][ContractNext]_contractVars
=============================================================================
