---------------------------- MODULE WritePromise ----------------------------
(***************************************************************************)
(* What the host promises about each write a user asks for, without       *)
(* admission, leases, approvals or restarts: it is performed at most once, *)
(* only while its record says so, and the outcome that is recorded first   *)
(* stays: never "rejected" for a write that was performed, and never       *)
(* "completed" for one that was not.                                       *)
(***************************************************************************)
EXTENDS Naturals

CONSTANT Write

VARIABLES
    outcome,  \* what the record of each write says
    times     \* how often it was handed to its executor

Init ==
    /\ outcome = [w \in Write |-> "none"]
    /\ times = [w \in Write |-> 0]

Records(w, from, to) == outcome[w] = from /\ outcome'[w] = to

\* The intent is recorded, then approved or turned down.
Propose(w) == times[w] = 0 /\ Records(w, "none", "proposed")
Allow(w)   == Records(w, "proposed", "running")
Refuse(w)  == times[w] = 0 /\ Records(w, "proposed", "rejected")

\* An allowed write ends, is known not to have had its effect, or nobody knows.
Complete(w) == times[w] = 1 /\ Records(w, "running", "completed")
Fail(w)     == Records(w, "running", "failed")
Doubt(w)    == Records(w, "running", "outcome_unknown")

Settle(w) == Propose(w) \/ Allow(w) \/ Refuse(w) \/ Complete(w) \/ Fail(w) \/ Doubt(w)

\* A restart settles every record at once.
Record ==
    /\ times' = times
    /\ \A w \in Write : outcome'[w] = outcome[w] \/ Settle(w)

\* The only step that touches the workspace.
Perform(w) ==
    /\ outcome[w] = "running" /\ times[w] = 0
    /\ times' = [times EXCEPT ![w] = 1]
    /\ outcome' = outcome

Next == Record \/ \E w \in Write : Perform(w)

Spec == Init /\ [][Next]_<<outcome, times>>
=============================================================================
