--------------------------- MODULE LedgerDelivery ---------------------------
(***************************************************************************)
(* What the rig's event path promises, with no files, requests or          *)
(* processes in it.  An event the disk holds stays held until the service  *)
(* has it in the ledger or has refused it, and the ledger never lets go.   *)
(* One event at a time may be on disk on sufferance: its record is whole,  *)
(* but the newline behind it is missing.                                   *)
(*                                                                         *)
(* RigEvents is shown to implement this through a refinement mapping.      *)
(***************************************************************************)

CONSTANT Event      \* the events a rig may file

VARIABLE status     \* status[e]: where event e stands

\* "none"     not on disk: not filed yet, or still only in the page
\* "frayed"   on disk in a line that has no newline
\* "held"     on disk and offered again by every later boot
\* "setAside" the service answered 422 for a batch that carried it
\* "stored"   a row of the ledger
Status == {"none", "frayed", "held", "setAside", "stored"}

Init == status = [e \in Event |-> "none"]

Becomes(S, s) ==
  status' = [e \in Event |-> IF e \in S THEN s ELSE status[e]]

\* The journal's fsync returned.
Hold(e) == status[e] = "none" /\ Becomes({e}, "held")

\* A write stopped just before its newline; nothing else is in that state.
Fray(e) ==
  /\ status[e] = "none" /\ \A d \in Event : status[d] # "frayed"
  /\ Becomes({e}, "frayed")

\* The file was written anew, or the next write was glued on to that line.
Mend(e) == status[e] = "frayed" /\ Becomes({e}, "held")
Spoil(e) == status[e] = "frayed" /\ Becomes({e}, "none")

\* Ingest committed a batch; a batch may carry an event the disk never got,
\* and may carry one an earlier batch had refused.
Store(S) == S # {} /\ Becomes(S, "stored")

\* A 422 sets the whole batch aside, but takes nothing out of the ledger.
SetAside(S) ==
  /\ S # {}
  /\ \A e \in S : status[e] # "stored"
  /\ Becomes(S, "setAside")

\* A write that was never acknowledged to the page may be torn: the event
\* can reach the disk without the page knowing, but never leave it whole.
Next ==
  \/ \E e \in Event : Hold(e) \/ Fray(e) \/ Mend(e) \/ Spoil(e)
  \/ \E S \in SUBSET Event : Store(S) \/ SetAside(S)

Spec == Init /\ [][Next]_status
=============================================================================
