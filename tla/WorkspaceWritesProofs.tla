------------------------ MODULE WorkspaceWritesProofs ------------------------
(***************************************************************************)
(* Proofs about WorkspaceWrites, for any number of calls, failures and     *)
(* restarts, and any kinds of calls, requests and inputs:                  *)
(*   - the type invariant (TypeCorrect);                                   *)
(*   - one lineage writes at a time (Exclusive);                           *)
(*   - a request is performed at most once, and never after it was         *)
(*     withdrawn (Once);                                                   *)
(*   - the workspace comes free unless a statement fails (NeverStranded).  *)
(* The types are proved action by action.  Everything else follows from    *)
(* the few shapes a step can have (Shapes) and the type invariant.         *)
(***************************************************************************)
EXTENDS WorkspaceWrites, TLAPS

----------------------------------------------------------------------------
(* What one call's move does to the others, to its row and to the locks.   *)

\* 0, "no call", is not the number of a call.
LEMMA CallPositive == 0 \notin Call
  BY DEF Call

\* Call c is at step s afterwards; no other call has moved.
Moved(c, s) ==
    /\ pc' \in [Call -> Gone \union Steps]
    /\ pc'[c] = s
    /\ \A d \in Call : d # c => pc'[d] = pc[d]

\* The stages in which a row's status is fixed, and the part of the first in which
\* an ADMISSION lock may be held.
Stages == {Before, Asking, Executing}
Admission == {"lease", "pending", "insert"}

\* GoTo moves one call.
LEMMA Moves ==
    ASSUME TypeOK, NEW c \in Call, NEW s \in Steps \union {"ended"}, GoTo(c, s)
    PROVE  Moved(c, s)
  BY DEF TypeOK, CallsOK, GoTo, Gone, Moved

\* A move within a stage, or to the end, needs no change of the row.
LEMMA RowsMove ==
    ASSUME TypeOK, NEW c \in Call, NEW s, Moved(c, s), UNCHANGED status,
           s = "ended" \/ \E stage \in Stages : pc[c] \in stage /\ s \in stage
    PROVE  RowsOK'
  BY DEF TypeOK, RowsOK, Moved, Stages, Before, Asking, Executing

\* Writing a row agrees with the place the call goes to.
LEMMA RowsSet ==
    ASSUME TypeOK, NEW c \in Call, NEW s, NEW t \in Active \union Settled, Moved(c, s), SetStatus(c, t),
           \/ s = "ended"
           \/ s \in Asking /\ t = "awaiting_approval"
           \/ s \in Executing /\ t = "running"
    PROVE  RowsOK'
<1>1. status' \in [Call -> {"none"} \union Active \union Settled]
  BY DEF TypeOK, RowsOK, SetStatus
<1>2. status'[c] = t /\ \A d \in Call : d # c => status'[d] = status[d]
  BY DEF TypeOK, RowsOK, SetStatus
<1> QED
  BY <1>1, <1>2 DEF TypeOK, RowsOK, Moved, Before, Asking, Executing

\* A move leaves the calls well typed; a call about to settle has a result.
LEMMA CallsMove ==
    ASSUME TypeOK, NEW c \in Call, NEW s, Moved(c, s), s # "idle", pc[c] # "idle", UNCHANGED call,
           \/ UNCHANGED result /\ s # "settle"
           \/ \E r \in {"completed", "failed", "outcome_unknown"} : result' = [result EXCEPT ![c] = r]
    PROVE  CallsOK'
<1>1. result' \in [Call -> {"none", "completed", "failed", "outcome_unknown"}]
  BY DEF TypeOK, CallsOK
<1>2. \A d \in Call : pc'[d] = "settle" => result'[d] # "none"
  BY DEF TypeOK, CallsOK, Moved
<1>3. \A d \in Call : pc'[d] # "idle" => call'[d].kind # "none" /\ call'[d].root \in Call
  BY DEF TypeOK, CallsOK, Moved
<1>4. call' \in [Call -> CallSet]
  BY DEF TypeOK, CallsOK
<1>5. pc' \in [Call -> Gone \union Steps]
  BY DEF Moved
<1> QED
  BY <1>1, <1>2, <1>3, <1>4, <1>5 DEF CallsOK

\* A call keeps its ADMISSION lock only while it is admitted.
LEMMA LocksMove ==
    ASSUME TypeOK, NEW c \in Call, NEW s, Moved(c, s), UNCHANGED <<call, admission>>,
           writer' \in {0} \union Call, pc[c] \in Admission => s \in Admission
    PROVE  LocksOK'
  BY DEF TypeOK, LocksOK, Moved, Admission

\* A call may release it at any move.
LEMMA LocksRelease ==
    ASSUME TypeOK, NEW c \in Call, NEW s, Moved(c, s), UNCHANGED call, admission' = Released(c),
           writer' \in {0} \union Call
    PROVE  LocksOK'
<1>1. admission' = [k \in {"write", "task"} |-> IF admission[k] = c THEN 0 ELSE admission[k]]
  BY DEF Released, TypeOK, LocksOK
<1>2. admission' \in [{"write", "task"} -> {0} \union Call]
  BY <1>1 DEF TypeOK, LocksOK
<1>3. \A k \in {"write", "task"} : admission'[k] # 0 => admission'[k] = admission[k] /\ admission[k] # c
  BY <1>1
<1>4. \A k \in {"write", "task"} : admission'[k] # 0 => admission'[k] \in Call
  BY <1>2
<1> QED
  BY <1>2, <1>3, <1>4 DEF TypeOK, LocksOK, Moved

\* A call that ends holds nothing any more.
LEMMA Ends ==
    ASSUME TypeOK, NEW c \in Call, NEW a, Return(c, a), UNCHANGED call
    PROVE  /\ Moved(c, "ended")
           /\ LocksOK'
           /\ writer' = Freed(c)
           /\ a \in Active \union Settled \union Errors =>
                 answer' \in [Call -> {"none"} \union Active \union Settled \union Errors]
<1>1. Moved(c, "ended")
  BY Moves DEF Return
<1>2. writer' \in {0} \union Call
  BY DEF Return, Freed, TypeOK, LocksOK
<1>3. LocksOK'
  BY <1>1, <1>2, LocksRelease DEF Return
<1> QED
  BY <1>1, <1>3 DEF Return, TypeOK

\* What a replay answers is an answer.
LEMMA Replays ==
    ASSUME TypeOK, NEW c \in Call, NEW d \in Prior(c)
    PROVE  Replayed(c, d) \in Active \union Settled \union Errors
  BY DEF TypeOK, RowsOK, Prior, Replayed, Errors

----------------------------------------------------------------------------
(* The type invariant.                                                     *)

\* Initially everything is well typed.
LEMMA TypeInit == Init => TypeOK
<1> SUFFICES ASSUME Init PROVE TypeOK
  OBVIOUS
<1>1. RowsOK
  BY DEF Init, RowsOK, Before, Asking, Executing
<1>2. CallsOK
  BY DEF Init, CallsOK, CallSet, NoCall, Gone, Steps
<1>3. LocksOK
  BY DEF Init, LocksOK
<1> QED
  BY <1>1, <1>2, <1>3, WritesAssumption DEF Init, TypeOK

\* A call that answers without touching its row leaves everything well typed.
LEMMA EndsWell ==
    ASSUME TypeOK, NEW c \in Call, NEW a \in Active \union Settled \union Errors, pc[c] \notin Gone,
           Return(c, a), UNCHANGED <<status, call, result>>
    PROVE  /\ RowsOK' /\ CallsOK' /\ LocksOK'
           /\ answer' \in [Call -> {"none"} \union Active \union Settled \union Errors]
<1>1. Moved(c, "ended") /\ LocksOK' /\ answer' \in [Call -> {"none"} \union Active \union Settled \union Errors]
  BY Ends
<1>2. RowsOK'
  BY <1>1, RowsMove
<1>3. CallsOK'
  BY <1>1, CallsMove DEF Gone
<1> QED
  BY <1>1, <1>2, <1>3

\* So does a call that goes on within its stage.
LEMMA GoesOn ==
    ASSUME TypeOK, NEW c \in Call, NEW s \in Steps, GoTo(c, s), pc[c] \notin Gone, s # "settle",
           \E stage \in Stages : pc[c] \in stage /\ s \in stage,
           UNCHANGED <<status, call, result, admission>>, writer' \in {0} \union Call,
           pc[c] \in Admission => s \in Admission
    PROVE  RowsOK' /\ CallsOK' /\ LocksOK'
<1>1. Moved(c, s)
  BY Moves
<1>2. RowsOK'
  BY <1>1, RowsMove
<1>3. CallsOK'
  BY <1>1, CallsMove DEF Gone, Steps
<1>4. LocksOK'
  BY <1>1, LocksMove
<1> QED
  BY <1>2, <1>3, <1>4

\* So does an execution that returns with a result.
LEMMA Returns ==
    ASSUME TypeOK, NEW c \in Call, NEW r \in {"completed", "failed", "outcome_unknown"},
           Resulting(c, r), pc[c] \in Executing, UNCHANGED <<status, call, admission, writer>>
    PROVE  RowsOK' /\ CallsOK' /\ LocksOK'
<1>1. Moved(c, "settle")
  BY Moves DEF Resulting, Steps
<1>2. RowsOK'
  BY <1>1, RowsMove DEF Stages, Executing
<1>3. CallsOK'
  BY <1>1, CallsMove DEF Resulting, Executing
<1>4. LocksOK'
  BY <1>1, LocksMove DEF Admission, Executing, TypeOK, LocksOK
<1> QED
  BY <1>2, <1>3, <1>4

\* Every step keeps it so.
LEMMA TypeStep == TypeOK /\ [Next]_vars => TypeOK'
<1> SUFFICES ASSUME TypeOK, [Next]_vars PROVE TypeOK'
  OBVIOUS
<1> USE DEF rows, locks, flags, history, counters
<1> DEFINE Tables == RowsOK /\ CallsOK /\ LocksOK
           Answered == answer \in [Call -> {"none"} \union Active \union Settled \union Errors]
<1>1. ASSUME NEW c \in Call, NEW k \in Kinds, NEW r \in Requests, NEW i \in Inputs, Submit(c, k, r, i) PROVE TypeOK'
  <2>1. Moved(c, "admit") /\ pc[c] = "idle" /\ UNCHANGED <<status, result, admission, writer>>
    BY <1>1, Moves DEF Submit, IsNext, Steps
  <2>2. \E e \in CallSet : e.kind # "none" /\ e.root \in Call /\ call' = [call EXCEPT ![c] = e]
    BY <1>1, WritesAssumption DEF Submit, TypeOK, CallsOK, CallSet
  <2>3. RowsOK'
    BY <2>1, RowsMove DEF Stages, Before
  <2>4. CallsOK'
    BY <2>1, <2>2 DEF TypeOK, CallsOK, Moved
  <2>5. LocksOK'
    BY <2>1, <2>2 DEF TypeOK, LocksOK, CallsOK, Moved
  <2> QED
    BY <1>1, <2>3, <2>4, <2>5 DEF Submit, TypeOK
<1>2. ASSUME NEW c \in Call, NEW p \in Call, SubmitChild(c, p) PROVE TypeOK'
  <2>1. Moved(c, "admit") /\ pc[c] = "idle" /\ UNCHANGED <<status, result, admission, writer>>
    BY <1>2, Moves DEF SubmitChild, IsNext, Steps
  <2>2. \E e \in CallSet : e.kind # "none" /\ e.root \in Call /\ call' = [call EXCEPT ![c] = e]
    BY <1>2 DEF SubmitChild, TypeOK, CallsOK, CallSet
  <2>3. RowsOK'
    BY <2>1, RowsMove DEF Stages, Before
  <2>4. CallsOK'
    BY <2>1, <2>2 DEF TypeOK, CallsOK, Moved
  <2>5. LocksOK'
    BY <2>1, <2>2 DEF TypeOK, LocksOK, CallsOK, Moved
  <2> QED
    BY <1>2, <2>3, <2>4, <2>5 DEF SubmitChild, TypeOK
<1>3. ASSUME NEW c \in Call, Replay(c) PROVE TypeOK'
  <2>1. CASE \E d \in Prior(c) : Return(c, Replayed(c, d))
    <3>1. PICK d \in Prior(c) : Return(c, Replayed(c, d))
      BY <2>1
    <3>2. Tables' /\ Answered'
      BY <1>3, <3>1, Replays, EndsWell DEF Replay, Gone
    <3> QED
      BY <1>3, <3>2 DEF Replay, TypeOK
  <2>2. CASE ~ \E d \in Prior(c) : Return(c, Replayed(c, d))
    <3>1. /\ Moved(c, "lease") /\ pc[c] = "admit" /\ UNCHANGED <<status, call, result, writer>>
          /\ admission' = [admission EXCEPT ![call[c].kind] = c]
      BY <1>3, <2>2, Moves DEF Replay, Steps
    <3>2. RowsOK'
      BY <3>1, RowsMove DEF Stages, Before
    <3>3. CallsOK'
      BY <3>1, CallsMove
    <3>4. call[c].kind \in {"write", "task"}
      BY <3>1 DEF TypeOK, CallsOK, CallSet
    <3>5. LocksOK'
      BY <3>1, <3>4 DEF TypeOK, LocksOK, Moved
    <3> QED
      BY <1>3, <2>2, <3>2, <3>3, <3>5 DEF Replay, TypeOK
  <2> QED
    BY <2>1, <2>2
<1>4. ASSUME NEW c \in Call, ReplayRequested(c) PROVE TypeOK'
  <2>1. PICK d \in Prior(c) : Return(c, Replayed(c, d))
    BY <1>4 DEF ReplayRequested
  <2>2. Tables' /\ Answered'
    BY <1>4, <2>1, Replays, EndsWell DEF ReplayRequested, Gone
  <2> QED
    BY <1>4, <2>2 DEF ReplayRequested, TypeOK
<1>5. ASSUME NEW c \in Call, TakeWriter(c) PROVE TypeOK'
  <2>1. CASE writer = 0
    <3>1. Tables'
      BY <1>5, <2>1, GoesOn DEF TakeWriter, Gone, Steps, Stages, Before, Admission, TypeOK, LocksOK
    <3> QED
      BY <1>5, <2>1, <3>1 DEF TakeWriter, TypeOK
  <2>2. CASE writer # 0
    <3>1. Tables' /\ Answered'
      BY <1>5, <2>2, EndsWell DEF TakeWriter, Gone, Errors
    <3> QED
      BY <1>5, <2>2, <3>1 DEF TakeWriter, TypeOK
  <2> QED
    BY <1>5, <2>1, <2>2 DEF TakeWriter
<1>6. ASSUME NEW c \in Call, InheritLease(c) PROVE TypeOK'
  <2>1. CASE ~Requested(call[c].parent)
    <3>1. Moved(c, "insert") /\ pc[c] = "lease" /\ UNCHANGED <<status, call, result, writer>>
          /\ admission' = Released(c)
      BY <1>6, <2>1, Moves DEF InheritLease, Steps
    <3>2. RowsOK' /\ CallsOK'
      BY <3>1, RowsMove, CallsMove DEF Stages, Before
    <3>3. LocksOK'
      BY <3>1, LocksRelease DEF TypeOK, LocksOK
    <3> QED
      BY <1>6, <2>1, <3>2, <3>3 DEF InheritLease, TypeOK
  <2>2. CASE Requested(call[c].parent)
    <3>1. Tables' /\ Answered'
      BY <1>6, <2>2, EndsWell DEF InheritLease, Gone, Errors
    <3> QED
      BY <1>6, <2>2, <3>1 DEF InheritLease, TypeOK
  <2> QED
    BY <1>6, <2>1, <2>2 DEF InheritLease
<1>7. ASSUME NEW c \in Call, CheckPending(c) PROVE TypeOK'
  <2>1. CASE Pending = {}
    <3>1. Moved(c, "insert") /\ pc[c] = "pending" /\ UNCHANGED <<status, call, result, writer>>
      BY <1>7, <2>1, Moves DEF CheckPending, Steps
    <3>2. RowsOK' /\ CallsOK'
      BY <3>1, RowsMove, CallsMove DEF Stages, Before
    <3>3. LocksOK'
      BY <1>7, <2>1, <3>1, LocksMove, LocksRelease DEF CheckPending, Admission, TypeOK, LocksOK
    <3> QED
      BY <1>7, <2>1, <3>2, <3>3 DEF CheckPending, TypeOK
  <2>2. CASE Pending # {}
    <3>1. Tables' /\ Answered'
      BY <1>7, <2>2, EndsWell DEF CheckPending, Gone, Errors
    <3> QED
      BY <1>7, <2>2, <3>1 DEF CheckPending, TypeOK
  <2> QED
    BY <1>7, <2>1, <2>2 DEF CheckPending
<1>8. ASSUME NEW c \in Call, Insert(c) PROVE TypeOK'
  <2>1. CASE Prior(c) = {}
    <3>1. Moved(c, "awaiting") /\ pc[c] = "insert" /\ UNCHANGED <<call, result, writer>>
          /\ admission' = Released(c) /\ SetStatus(c, "awaiting_approval")
      BY <1>8, <2>1, Moves DEF Insert, Steps
    <3>2. RowsOK'
      BY <3>1, RowsSet DEF Asking, Active
    <3>3. CallsOK' /\ LocksOK'
      BY <3>1, CallsMove, LocksRelease DEF TypeOK, LocksOK
    <3> QED
      BY <1>8, <2>1, <3>2, <3>3 DEF Insert, TypeOK
  <2>2. CASE Prior(c) # {}
    <3>1. PICK d \in Prior(c) : Return(c, Replayed(c, d))
      BY <1>8, <2>2 DEF Insert
    <3>2. Tables' /\ Answered'
      BY <1>8, <2>2, <3>1, Replays, EndsWell DEF Insert, Gone
    <3> QED
      BY <1>8, <2>2, <3>2 DEF Insert, TypeOK
  <2> QED
    BY <1>8, <2>1, <2>2 DEF Insert
<1>9. ASSUME NEW c \in Call, PrepareFails(c) PROVE TypeOK'
  <2>1. pc[c] \notin Gone
    BY <1>9 DEF PrepareFails, Gone
  <2>2. Tables' /\ Answered'
    BY <1>9, <2>1, EndsWell DEF PrepareFails, Errors
  <2> QED
    BY <1>9, <2>2 DEF PrepareFails, TypeOK
<1>10. ASSUME NEW c \in Call, Decide(c) PROVE TypeOK'
  <2>1. Tables'
    BY <1>10, GoesOn DEF Decide, Gone, Steps, Stages, Asking, Admission, TypeOK, LocksOK
  <2> QED
    BY <1>10, <2>1 DEF Decide, TypeOK
<1>11. ASSUME NEW c \in Call, Revalidate(c) PROVE TypeOK'
  <2>1. Tables'
    BY <1>11, GoesOn DEF Revalidate, Gone, Steps, Stages, Asking, Admission, TypeOK, LocksOK
  <2> QED
    BY <1>11, <2>1 DEF Revalidate, TypeOK
<1>12. ASSUME NEW c \in Call, Start(c) PROVE TypeOK'
  <2>1. CASE Startable(c)
    <3>1. PICK s \in {"check", "dispatch"} : GoTo(c, s)
      BY <1>12, <2>1 DEF Start, AfterStart
    <3>2. Moved(c, s) /\ pc[c] = "start" /\ UNCHANGED <<call, result, admission, writer>> /\ SetStatus(c, "running")
      BY <1>12, <2>1, <3>1, Moves DEF Start, Steps
    <3>3. RowsOK'
      BY <3>2, RowsSet DEF Executing, Active
    <3>4. CallsOK' /\ LocksOK'
      BY <3>2, CallsMove, LocksMove DEF Admission, TypeOK, LocksOK
    <3> QED
      BY <1>12, <2>1, <3>3, <3>4 DEF Start, TypeOK
  <2>2. CASE ~Startable(c)
    <3>1. Tables'
      BY <1>12, <2>2, GoesOn DEF Start, Gone, Steps, Stages, Asking, Admission, TypeOK, LocksOK
    <3> QED
      BY <1>12, <2>2, <3>1 DEF Start, TypeOK
  <2> QED
    BY <1>12, <2>1, <2>2 DEF Start
<1>13. ASSUME NEW c \in Call, Reject(c) PROVE TypeOK'
  <2>1. Moved(c, "ended") /\ LocksOK' /\ pc[c] \notin Gone /\ SetStatus(c, "rejected") /\ "rejected" \in Settled
    BY <1>13, Ends DEF Reject, Gone, Settled
  <2>2. RowsOK' /\ CallsOK'
    BY <1>13, <2>1, RowsSet, CallsMove DEF Reject, Gone
  <2>3. Answered'
    BY <1>13, <2>1, Ends DEF Reject
  <2> QED
    BY <1>13, <2>1, <2>2, <2>3 DEF Reject, TypeOK
<1>14. ASSUME NEW c \in Call, Check(c) PROVE TypeOK'
  <2>1. CASE Requested(c)
    <3>1. Tables'
      BY <1>14, <2>1, Returns DEF Check, Executing
    <3> QED
      BY <1>14, <2>1, <3>1 DEF Check, TypeOK
  <2>2. CASE ~Requested(c)
    <3>1. Tables'
      BY <1>14, <2>2, GoesOn DEF Check, Gone, Steps, Stages, Executing, Admission, TypeOK, LocksOK
    <3> QED
      BY <1>14, <2>2, <3>1 DEF Check, TypeOK
  <2> QED
    BY <1>14, <2>1, <2>2 DEF Check
<1>15. ASSUME NEW c \in Call, Dispatch(c) PROVE TypeOK'
  <2>1. Tables'
    BY <1>15, GoesOn DEF Dispatch, Gone, Steps, Stages, Executing, Admission, TypeOK, LocksOK
  <2> QED
    BY <1>15, <2>1 DEF Dispatch, TypeOK
<1>16. ASSUME NEW c \in Call, Finish(c) PROVE TypeOK'
  <2>1. Tables'
    BY <1>16, Returns DEF Finish, Executing
  <2> QED
    BY <1>16, <2>1 DEF Finish, TypeOK
<1>17. ASSUME NEW c \in Call, Fail(c) PROVE TypeOK'
  <2>1. Tables'
    BY <1>17, Returns DEF Fail, Executing
  <2> QED
    BY <1>17, <2>1 DEF Fail, FailMark, CallsOK, TypeOK
<1>18. ASSUME NEW c \in Call, Settle(c) PROVE TypeOK'
  <2>1. Moved(c, "ended") /\ LocksOK' /\ pc[c] \notin Gone /\ SetStatus(c, result[c]) /\ result[c] \in Settled
    BY <1>18, Ends DEF Settle, Gone, Settled, TypeOK, CallsOK
  <2>2. RowsOK' /\ CallsOK'
    BY <1>18, <2>1, RowsSet, CallsMove DEF Settle, Gone
  <2>3. Answered'
    BY <1>18, <2>1, Ends DEF Settle
  <2> QED
    BY <1>18, <2>1, <2>2, <2>3 DEF Settle, TypeOK
<1>19. ASSUME NEW c \in Call, Cancel(c) PROVE TypeOK'
  BY <1>19 DEF Cancel, Affected, TypeOK, RowsOK, CallsOK, LocksOK
<1>20. ASSUME NEW c \in Call, Halt(c) PROVE TypeOK'
  BY <1>20 DEF Halt, TypeOK, RowsOK, CallsOK, LocksOK
<1>21. ASSUME NEW c \in Call, DatabaseError(c) PROVE TypeOK'
  <2>1. pc[c] \notin Gone
    BY <1>21 DEF DatabaseError, Gone
  <2>2. ErrorAnswer(c) \in Active \union Settled \union Errors
    BY DEF ErrorAnswer, Settled, Errors
  <2>3. Tables' /\ Answered'
    BY <1>21, <2>1, <2>2, EndsWell DEF DatabaseError
  <2>4. errors' \in 0..MaxErrors
    BY <1>21, WritesAssumption DEF DatabaseError, TypeOK
  <2>5. uncertain' \subseteq Call
    BY <1>21 DEF DatabaseError, Doubt, FailMark, TypeOK, CallsOK
  <2> QED
    BY <1>21, <2>3, <2>4, <2>5 DEF DatabaseError, TypeOK
<1>22. ASSUME Restart PROVE TypeOK'
  <2>1. status' \in [Call -> {"none"} \union Active \union Settled]
    BY <1>22 DEF Restart, Recovered, TypeOK, RowsOK, Active, Settled
  <2>2. \A c \in Call : pc'[c] \in {"idle", "ended"} /\ (pc'[c] = "idle" => pc[c] = "idle")
    BY <1>22 DEF Restart, Live, Gone, TypeOK, CallsOK
  <2>3. \A c \in Call : status[c] = "none" => status'[c] = "none"
    BY <1>22 DEF Restart, Recovered
  <2>4. RowsOK'
    BY <2>1, <2>2, <2>3 DEF TypeOK, RowsOK, Before, Asking, Executing
  <2>5. CallsOK'
    BY <1>22, <2>2 DEF Restart, TypeOK, CallsOK, Gone, Live
  <2>6. LocksOK'
    BY <1>22 DEF Restart, TypeOK, LocksOK
  <2>7. restarts' \in 0..MaxRestarts
    BY <1>22, WritesAssumption DEF Restart, TypeOK
  <2> QED
    BY <1>22, <2>4, <2>5, <2>6, <2>7 DEF Restart, Errors, TypeOK
<1>23. ASSUME UNCHANGED vars PROVE TypeOK'
  BY <1>23 DEF vars, TypeOK, RowsOK, CallsOK, LocksOK, Before
<1> QED
  BY <1>1, <1>2, <1>3, <1>4, <1>5, <1>6, <1>7, <1>8, <1>9, <1>10, <1>11, <1>12, <1>13, <1>14, <1>15, <1>16, <1>17, <1>18, <1>19, <1>20, <1>21, <1>22, <1>23 DEF Next, Advance

\* The types hold in every reachable state of the writes of a workspace.
THEOREM TypeCorrect == Spec => []TypeOK
<1>1. Init => TypeOK
  BY TypeInit
<1>2. TypeOK /\ [Next]_vars => TypeOK'
  BY TypeStep
<1> QED
  BY <1>1, <1>2, PTL DEF Spec

----------------------------------------------------------------------------
(* The shapes a step can have.  What follows looks at a step only through  *)
(* them: who moves, what becomes of the mover's row, and of the writer.    *)

OnlyRowOf(c) == \A d \in Call : d # c => status'[d] = status[d]

\* A call arrives, from a window or from the call that executes.
Arrives(c) ==
    /\ pc[c] = "idle" /\ Moved(c, "admit") /\ UNCHANGED <<status, writer>>
    /\ \/ call'[c].parent = 0 /\ call'[c].root = c /\ call'[c].line = {c}
       \/ \E p \in Call :
             /\ pc[p] = "working" /\ call[p].kind # "task"
             /\ call'[c].kind = "write" /\ call'[c].parent = p
             /\ call'[c].root = call[p].root /\ call'[c].line = call[p].line \union {c}
    /\ \A d \in Call : d # c => call'[d] = call[d]

\* A call ends: only a failed statement leaves its row under way.
Leaves(c) ==
    /\ pc[c] \notin Gone \union {"working"} /\ Moved(c, "ended") /\ UNCHANGED call
    /\ writer' = Freed(c)
    /\ OnlyRowOf(c)
    /\ \/ status'[c] = status[c] /\ (IsActive(c) => errors' # 0)
       \/ IsActive(c) /\ status'[c] \in Settled

\* A call goes on.  It becomes writer, or is known to belong to the writer,
\* before it goes past its lease; it starts only if nobody has cancelled it.
Proceeds(c, s) ==
    /\ pc[c] \notin Gone /\ s \in Steps /\ Moved(c, s) /\ UNCHANGED call
    /\ pc[c] = "working" => Children(c) = {}
    /\ OnlyRowOf(c)
    /\ \/ pc[c] = "admit" /\ s = "lease" /\ UNCHANGED <<status, writer>>
       \/ pc[c] = "lease" /\ s = "pending" /\ ~IsChild(c) /\ writer = 0 /\ writer' = c /\ UNCHANGED status
       \/ pc[c] = "lease" /\ s = "insert" /\ IsChild(c) /\ UNCHANGED <<status, writer>>
       \/ pc[c] = "pending" /\ s = "insert" /\ Pending = {} /\ UNCHANGED <<status, writer>>
       \/ /\ pc[c] = "insert" /\ s = "awaiting" /\ Prior(c) = {}
          /\ status'[c] = "awaiting_approval" /\ UNCHANGED writer
       \/ /\ pc[c] \notin Before /\ s \notin Before /\ UNCHANGED writer
          /\ \/ UNCHANGED status
             \/ status[c] = "awaiting_approval" /\ status'[c] = "running" /\ c \notin cancelled

Shape ==
    \/ UNCHANGED <<pc, call, status, writer>>
    \/ Restart
    \/ \E c \in Call : Arrives(c) \/ Leaves(c) \/ \E s \in Steps : Proceeds(c, s)

\* A call that answers without touching its row leaves, if it has none yet.
LEMMA Answers ==
    ASSUME TypeOK, NEW c \in Call, NEW a, Return(c, a), UNCHANGED <<call, status>>, pc[c] \notin Gone \union {"working"},
           IsActive(c) => errors' # 0
    PROVE  Leaves(c)
  BY Ends DEF Leaves, OnlyRowOf

\* Every step has one of the shapes.
LEMMA Shapes == TypeOK /\ [Next]_vars => Shape
<1> SUFFICES ASSUME TypeOK, [Next]_vars PROVE Shape
  OBVIOUS
<1> USE DEF rows, locks, flags, history, counters
<1>1. ASSUME NEW c \in Call, NEW k \in Kinds, NEW r \in Requests, NEW i \in Inputs, Submit(c, k, r, i) PROVE Shape
  <2>1. Moved(c, "admit") /\ pc[c] = "idle"
    BY <1>1, Moves DEF Submit, IsNext, Steps
  <2>2. Arrives(c)
    BY <1>1, <2>1 DEF Submit, Arrives, IsTask, TypeOK, CallsOK
  <2> QED
    BY <2>2 DEF Shape
<1>2. ASSUME NEW c \in Call, NEW p \in Call, SubmitChild(c, p) PROVE Shape
  <2>1. Moved(c, "admit") /\ pc[c] = "idle"
    BY <1>2, Moves DEF SubmitChild, IsNext, Steps
  <2>2. Arrives(c)
    BY <1>2, <2>1 DEF SubmitChild, Arrives, IsTask, TypeOK, CallsOK
  <2> QED
    BY <2>2 DEF Shape
<1>3. ASSUME NEW c \in Call, Replay(c) PROVE Shape
  <2>1. CASE \E d \in Prior(c) : Return(c, Replayed(c, d))
    <3>1. PICK d \in Prior(c) : Return(c, Replayed(c, d))
      BY <1>3, <2>1 DEF Replay
    <3>2. Leaves(c)
      BY <1>3, <2>1, <3>1, Answers DEF Replay, Gone, IsActive, Active, TypeOK, RowsOK, Before
    <3> QED
      BY <3>2 DEF Shape
  <2>2. CASE ~ \E d \in Prior(c) : Return(c, Replayed(c, d))
    <3>1. Moved(c, "lease")
      BY <1>3, <2>2, Moves DEF Replay, Steps
    <3>2. Proceeds(c, "lease")
      BY <1>3, <2>2, <3>1 DEF Replay, Proceeds, OnlyRowOf, Gone, Steps, Before
    <3> QED
      BY <3>2 DEF Shape, Steps
  <2> QED
    BY <1>3, <2>1, <2>2 DEF Replay
<1>4. ASSUME NEW c \in Call, ReplayRequested(c) PROVE Shape
  <2>1. PICK d \in Prior(c) : Return(c, Replayed(c, d))
    BY <1>4 DEF ReplayRequested
  <2>2. Leaves(c)
    BY <1>4, <2>1, Answers DEF ReplayRequested, Gone, IsActive, Active, TypeOK, RowsOK, Before
  <2> QED
    BY <2>2 DEF Shape
<1>5. ASSUME NEW c \in Call, TakeWriter(c) PROVE Shape
  <2>1. CASE writer = 0
    <3>1. Moved(c, "pending")
      BY <1>5, <2>1, Moves DEF TakeWriter, Steps
    <3>2. Proceeds(c, "pending")
      BY <1>5, <2>1, <3>1 DEF TakeWriter, Proceeds, OnlyRowOf, Gone, Steps, Before
    <3> QED
      BY <3>2 DEF Shape, Steps
  <2>2. CASE writer # 0
    <3>1. Leaves(c)
      BY <1>5, <2>2, Answers DEF TakeWriter, Gone, IsActive, Active, TypeOK, RowsOK, Before
    <3> QED
      BY <3>1 DEF Shape
  <2> QED
    BY <1>5, <2>1, <2>2 DEF TakeWriter
<1>6. ASSUME NEW c \in Call, InheritLease(c) PROVE Shape
  <2>1. CASE ~Requested(call[c].parent)
    <3>1. Moved(c, "insert")
      BY <1>6, <2>1, Moves DEF InheritLease, Steps
    <3>2. Proceeds(c, "insert")
      BY <1>6, <2>1, <3>1 DEF InheritLease, Proceeds, OnlyRowOf, Gone, Steps, Before
    <3> QED
      BY <3>2 DEF Shape, Steps
  <2>2. CASE Requested(call[c].parent)
    <3>1. Leaves(c)
      BY <1>6, <2>2, Answers DEF InheritLease, Gone, IsActive, Active, TypeOK, RowsOK, Before
    <3> QED
      BY <3>1 DEF Shape
  <2> QED
    BY <1>6, <2>1, <2>2 DEF InheritLease
<1>7. ASSUME NEW c \in Call, CheckPending(c) PROVE Shape
  <2>1. CASE Pending = {}
    <3>1. Moved(c, "insert")
      BY <1>7, <2>1, Moves DEF CheckPending, Steps
    <3>2. Proceeds(c, "insert")
      BY <1>7, <2>1, <3>1 DEF CheckPending, Proceeds, OnlyRowOf, Gone, Steps, Before
    <3> QED
      BY <3>2 DEF Shape, Steps
  <2>2. CASE Pending # {}
    <3>1. Leaves(c)
      BY <1>7, <2>2, Answers DEF CheckPending, Gone, IsActive, Active, TypeOK, RowsOK, Before
    <3> QED
      BY <3>1 DEF Shape
  <2> QED
    BY <1>7, <2>1, <2>2 DEF CheckPending
<1>8. ASSUME NEW c \in Call, Insert(c) PROVE Shape
  <2>1. CASE Prior(c) = {}
    <3>1. Moved(c, "awaiting")
      BY <1>8, <2>1, Moves DEF Insert, Steps, SetStatus, TypeOK, RowsOK
    <3>2. Proceeds(c, "awaiting")
      BY <1>8, <2>1, <3>1 DEF Insert, Proceeds, OnlyRowOf, Gone, Steps, Before, SetStatus, TypeOK, RowsOK
    <3> QED
      BY <3>2 DEF Shape, Steps
  <2>2. CASE Prior(c) # {}
    <3>1. PICK d \in Prior(c) : Return(c, Replayed(c, d))
      BY <1>8, <2>2 DEF Insert
    <3>2. Leaves(c)
      BY <1>8, <2>2, <3>1, Answers DEF Insert, Gone, IsActive, Active, TypeOK, RowsOK, Before
    <3> QED
      BY <3>2 DEF Shape
  <2> QED
    BY <1>8, <2>1, <2>2 DEF Insert
<1>9. ASSUME NEW c \in Call, PrepareFails(c) PROVE Shape
  <2>1. Leaves(c)
    BY <1>9, Answers DEF PrepareFails, Gone, IsActive, Active, TypeOK, RowsOK, Before
  <2> QED
    BY <2>1 DEF Shape
<1>10. ASSUME NEW c \in Call, Decide(c) PROVE Shape
  <2>1. PICK s \in {"revalidate", "reject"} : GoTo(c, s)
    BY <1>10 DEF Decide
  <2>2. Moved(c, s)
    BY <2>1, Moves DEF Steps
  <2>3. Proceeds(c, s)
    BY <1>10, <2>1, <2>2 DEF Decide, Proceeds, OnlyRowOf, Gone, Steps, Before, SetStatus, Startable, TypeOK, RowsOK
  <2> QED
    BY <2>3 DEF Shape, Steps
<1>11. ASSUME NEW c \in Call, Revalidate(c) PROVE Shape
  <2>1. PICK s \in {"start", "reject"} : GoTo(c, s)
    BY <1>11 DEF Revalidate
  <2>2. Moved(c, s)
    BY <2>1, Moves DEF Steps
  <2>3. Proceeds(c, s)
    BY <1>11, <2>1, <2>2 DEF Revalidate, Proceeds, OnlyRowOf, Gone, Steps, Before, SetStatus, Startable, TypeOK, RowsOK
  <2> QED
    BY <2>3 DEF Shape, Steps
<1>12. ASSUME NEW c \in Call, Start(c) PROVE Shape
  <2>1. CASE Startable(c)
    <3>1. PICK s \in {"check", "dispatch"} : GoTo(c, s)
      BY <1>12, <2>1 DEF Start, AfterStart
    <3>2. Moved(c, s)
      BY <3>1, Moves DEF Steps
    <3>3. Proceeds(c, s)
      BY <1>12, <2>1, <3>1, <3>2 DEF Start, Proceeds, OnlyRowOf, Gone, Steps, Before, SetStatus, Startable, TypeOK, RowsOK
    <3> QED
      BY <3>3 DEF Shape, Steps
  <2>2. CASE ~Startable(c)
    <3>1. Moved(c, "reject")
      BY <1>12, <2>2, Moves DEF Start, Steps
    <3>2. Proceeds(c, "reject")
      BY <1>12, <2>2, <3>1 DEF Start, Proceeds, OnlyRowOf, Gone, Steps, Before
    <3> QED
      BY <3>2 DEF Shape, Steps
  <2> QED
    BY <1>12, <2>1, <2>2 DEF Start
<1>13. ASSUME NEW c \in Call, Reject(c) PROVE Shape
  <2>1. Moved(c, "ended") /\ writer' = Freed(c)
    BY <1>13, Ends DEF Reject
  <2>2. OnlyRowOf(c) /\ IsActive(c) /\ status'[c] \in Settled
    BY <1>13 DEF Reject, OnlyRowOf, SetStatus, IsActive, Active, Settled, Asking, Executing, TypeOK, RowsOK
  <2>3. Leaves(c)
    BY <1>13, <2>1, <2>2 DEF Reject, Leaves, Gone
  <2> QED
    BY <2>3 DEF Shape
<1>14. ASSUME NEW c \in Call, Check(c) PROVE Shape
  <2>1. CASE Requested(c)
    <3>1. Moved(c, "settle")
      BY <1>14, <2>1, Moves DEF Check, Steps, Resulting
    <3>2. Proceeds(c, "settle")
      BY <1>14, <2>1, <3>1 DEF Check, Proceeds, OnlyRowOf, Gone, Steps, Before, Resulting
    <3> QED
      BY <3>2 DEF Shape, Steps
  <2>2. CASE ~Requested(c)
    <3>1. Moved(c, "dispatch")
      BY <1>14, <2>2, Moves DEF Check, Steps
    <3>2. Proceeds(c, "dispatch")
      BY <1>14, <2>2, <3>1 DEF Check, Proceeds, OnlyRowOf, Gone, Steps, Before
    <3> QED
      BY <3>2 DEF Shape, Steps
  <2> QED
    BY <1>14, <2>1, <2>2 DEF Check
<1>15. ASSUME NEW c \in Call, Dispatch(c) PROVE Shape
  <2>1. Moved(c, "working")
    BY <1>15, Moves DEF Dispatch, Steps
  <2>2. Proceeds(c, "working")
    BY <1>15, <2>1 DEF Dispatch, Proceeds, OnlyRowOf, Gone, Steps, Before
  <2> QED
    BY <2>2 DEF Shape, Steps
<1>16. ASSUME NEW c \in Call, Finish(c) PROVE Shape
  <2>1. Moved(c, "settle")
    BY <1>16, Moves DEF Finish, Steps, Resulting
  <2>2. Proceeds(c, "settle")
    BY <1>16, <2>1 DEF Finish, Proceeds, OnlyRowOf, Gone, Steps, Before, Resulting
  <2> QED
    BY <2>2 DEF Shape, Steps
<1>17. ASSUME NEW c \in Call, Fail(c) PROVE Shape
  <2>1. Moved(c, "settle")
    BY <1>17, Moves DEF Fail, Steps, Resulting
  <2>2. Proceeds(c, "settle")
    BY <1>17, <2>1 DEF Fail, Proceeds, OnlyRowOf, Gone, Steps, Before, Resulting
  <2> QED
    BY <2>2 DEF Shape, Steps
<1>18. ASSUME NEW c \in Call, Settle(c) PROVE Shape
  <2>1. Moved(c, "ended") /\ writer' = Freed(c)
    BY <1>18, Ends DEF Settle
  <2>2. OnlyRowOf(c) /\ IsActive(c) /\ status'[c] \in Settled
    BY <1>18 DEF Settle, OnlyRowOf, SetStatus, IsActive, Active, Settled, Asking, Executing, TypeOK, RowsOK, CallsOK
  <2>3. Leaves(c)
    BY <1>18, <2>1, <2>2 DEF Settle, Leaves, Gone
  <2> QED
    BY <2>3 DEF Shape
<1>19. ASSUME NEW c \in Call, Cancel(c) PROVE Shape
  BY <1>19 DEF Cancel, Shape
<1>20. ASSUME NEW c \in Call, Halt(c) PROVE Shape
  BY <1>20 DEF Halt, Shape
<1>21. ASSUME NEW c \in Call, DatabaseError(c) PROVE Shape
  <2>1. errors' # 0
    BY <1>21, WritesAssumption DEF DatabaseError, TypeOK
  <2>2. Leaves(c)
    BY <1>21, <2>1, Answers DEF DatabaseError, Gone
  <2> QED
    BY <2>2 DEF Shape
<1>22. ASSUME Restart PROVE Shape
  BY <1>22 DEF Shape
<1>23. ASSUME UNCHANGED vars PROVE Shape
  BY <1>23 DEF vars, Shape
<1> QED
  BY <1>1, <1>2, <1>3, <1>4, <1>5, <1>6, <1>7, <1>8, <1>9, <1>10, <1>11, <1>12, <1>13, <1>14, <1>15, <1>16, <1>17, <1>18, <1>19, <1>20, <1>21, <1>22, <1>23 DEF Next, Advance

----------------------------------------------------------------------------
(* Mutual exclusion.                                                       *)

\* Who belongs to whom: a call asked for by a window is its own root; a nested
\* call belongs to the line of its parent.
Lineage ==
    \A c \in Call : pc[c] # "idle" =>
        /\ c \in call[c].line /\ call[c].root \in call[c].line
        /\ \A a \in call[c].line : pc[a] # "idle"
        /\ ~IsChild(c) => call[c].root = c /\ call[c].line = {c}
        /\ IsChild(c) => /\ ~IsTask(c)
                         /\ call[c].parent \in call[c].line \ {c}
                         /\ call[call[c].parent].root = call[c].root

\* All a live call belongs to is executing, and waits for a call of its line.
Waits ==
    \A c \in Call : Live(c) =>
        \A a \in call[c].line \ {c} :
            pc[a] = "working" /\ \E e \in call[c].line : call[e].parent = a

\* The workspace belongs to the root of every call that is past its lease: the
\* second half of OneWriter.
Holds == \A c \in Call : pc[c] \in Steps \ {"admit", "lease"} => writer = call[c].root

\* Once its holder has looked for rows of others there are none but its own.
Checked ==
    writer # 0 /\ pc[writer] # "pending" =>
        \A c \in Call : IsActive(c) => call[c].root = writer

\* What makes OneWriter inductive.
Exclusion == TypeOK /\ Lineage /\ Waits /\ Holds /\ Checked /\ OneWriter

\* Nobody is there yet.
LEMMA ExclusionInit == Init => Exclusion
<1> SUFFICES ASSUME Init PROVE Exclusion
  OBVIOUS
<1>1. TypeOK
  BY TypeInit
<1>2. \A c \in Call : pc[c] = "idle" /\ status[c] = "none"
  BY DEF Init
<1>3. Lineage /\ Waits /\ Holds
  BY <1>2 DEF Lineage, Waits, Holds, Live, Gone, Steps
<1>4. Checked /\ OneWriter
  BY <1>2 DEF Checked, OneWriter, IsActive, Active, Steps
<1> QED
  BY <1>1, <1>3, <1>4 DEF Exclusion

\* The lineage under a call that moves: nobody it belongs to is left behind.
LEMMA LineageMoves ==
    ASSUME TypeOK, Lineage, Waits, NEW c \in Call, NEW s, Moved(c, s), s # "idle", pc[c] \notin Gone,
           UNCHANGED call, pc[c] = "working" => Children(c) = {}
    PROVE  Lineage' /\ Waits'
<1>1. Lineage'
  <2>1. \A d \in Call : (pc'[d] = "idle" <=> pc[d] = "idle") /\ call[d].line \subseteq Call
    BY DEF Moved, Gone, TypeOK, CallsOK, CallSet
  <2> QED
    BY <2>1 DEF Lineage, IsChild, IsTask
<1>2. ASSUME NEW d \in Call, Live(d)', NEW a \in call[d].line \ {d}
      PROVE  pc'[a] = "working" /\ \E e \in call[d].line : call[e].parent = a
  <2>1. Live(d)
    BY <1>2 DEF Live, Moved
  <2>2. a \in Call /\ call[d].line \subseteq Call
    BY DEF TypeOK, CallsOK, CallSet
  <2>3. pc[a] = "working" /\ \E e \in call[d].line : call[e].parent = a
    BY <2>1 DEF Waits
  <2>4. PICK e \in call[d].line : call[e].parent = a
    BY <2>3
  <2>5. Live(e)
    BY <2>1 DEF Waits, Live, Gone
  <2>6. e \in Children(a)
    BY <2>2, <2>4, <2>5 DEF Children
  <2>7. a # c
    BY <2>3, <2>6
  <2> QED
    BY <2>2, <2>3, <2>7 DEF Moved
<1> QED
  BY <1>1, <1>2 DEF Waits

\* A call that arrives belongs to a line that executes.
LEMMA LineageArrives ==
    ASSUME TypeOK, Lineage, Waits, NEW c \in Call, Arrives(c)
    PROVE  Lineage' /\ Waits'
<1>1. \A d \in Call : d # c => call'[d] = call[d] /\ pc'[d] = pc[d]
  BY DEF Arrives, Moved
<1>2. pc[c] = "idle" /\ pc'[c] = "admit"
  BY DEF Arrives, Moved
<1>3. \A d \in Call : call[d].line \subseteq Call
  BY DEF TypeOK, CallsOK, CallSet
<1>4. \A d \in Call : pc[d] # "idle" => c \notin call[d].line /\ (IsChild(d) => call[d].parent # c)
  BY <1>2 DEF Lineage
<1>5. ASSUME NEW d \in Call, d # c, pc'[d] # "idle"
      PROVE  /\ d \in call'[d].line /\ call'[d].root \in call'[d].line
             /\ \A a \in call'[d].line : pc'[a] # "idle"
             /\ ~IsChild(d)' => call'[d].root = d /\ call'[d].line = {d}
             /\ IsChild(d)' => /\ ~IsTask(d)'
                               /\ call'[d].parent \in call'[d].line \ {d}
                               /\ call'[call'[d].parent].root = call'[d].root
  BY <1>1, <1>2, <1>3, <1>4, <1>5 DEF Lineage, IsChild, IsTask
<1>6. ASSUME NEW d \in Call, d # c, Live(d)', NEW a \in call'[d].line \ {d}
      PROVE  pc'[a] = "working" /\ \E e \in call'[d].line : call'[e].parent = a
  <2>1. Live(d) /\ pc[d] # "idle" /\ a \in call[d].line \ {d} /\ call'[d].line = call[d].line
    BY <1>1, <1>6 DEF Live, Gone
  <2>2. pc[a] = "working" /\ \E e \in call[d].line : call[e].parent = a
    BY <2>1 DEF Waits
  <2> QED
    BY <1>1, <1>3, <1>4, <2>1, <2>2
<1>7. CASE call'[c].parent = 0 /\ call'[c].root = c /\ call'[c].line = {c}
  <2>1. Lineage'
    BY <1>2, <1>5, <1>7 DEF Lineage, IsChild
  <2>2. Waits'
    BY <1>6, <1>7 DEF Waits
  <2> QED
    BY <2>1, <2>2
<1>8. ASSUME NEW p \in Call, pc[p] = "working", call[p].kind # "task",
             call'[c].kind = "write", call'[c].parent = p,
             call'[c].root = call[p].root, call'[c].line = call[p].line \union {c}
      PROVE  Lineage' /\ Waits'
  <2>1. p # c /\ p # 0 /\ Live(p) /\ call'[p] = call[p]
    BY <1>1, <1>2, <1>8, CallPositive DEF Live, Gone
  <2>2. /\ p \in call[p].line /\ call[p].root \in call[p].line
        /\ \A a \in call[p].line : pc[a] # "idle" /\ a \in Call /\ a # c
    BY <1>2, <1>3, <1>8 DEF Lineage
  <2>3. Lineage'
    BY <1>1, <1>2, <1>5, <1>8, <2>1, <2>2 DEF Lineage, IsChild, IsTask
  <2>4. ASSUME NEW a \in call'[c].line \ {c}
        PROVE  pc'[a] = "working" /\ \E e \in call'[c].line : call'[e].parent = a
    <3>1. CASE a = p
      BY <1>1, <1>8, <2>1, <3>1
    <3>2. CASE a # p
      <4>1. pc[a] = "working" /\ \E e \in call[p].line : call[e].parent = a
        BY <1>8, <2>1, <2>4, <3>2 DEF Waits
      <4> QED
        BY <1>1, <1>8, <2>2, <2>4, <4>1
    <3> QED
      BY <3>1, <3>2
  <2>5. Waits'
    BY <1>6, <2>4 DEF Waits
  <2> QED
    BY <2>3, <2>5
<1> QED
  BY <1>7, <1>8 DEF Arrives

\* The writer is released by its holder only, and never while nested calls run.
LEMMA ExclusionStep == Exclusion /\ [Next]_vars => Exclusion'
<1> SUFFICES ASSUME Exclusion, [Next]_vars PROVE Exclusion'
  OBVIOUS
<1>0. TypeOK /\ Lineage /\ Waits /\ Holds /\ Checked /\ OneWriter /\ TypeOK' /\ Shape
  BY TypeStep, Shapes DEF Exclusion
<1>. SUFFICES Lineage' /\ Waits' /\ Holds' /\ Checked' /\ OneWriter'
  BY <1>0 DEF Exclusion
<1>1. CASE UNCHANGED <<pc, call, status, writer>>
  <2>1. Lineage' /\ Waits'
    BY <1>0, <1>1 DEF Lineage, Waits, Live, IsChild, IsTask
  <2>2. Holds' /\ Checked' /\ OneWriter'
    BY <1>0, <1>1 DEF Holds, Checked, OneWriter, IsActive
  <2> QED
    BY <2>1, <2>2
<1>2. CASE Restart
  <2>1. \A c \in Call : (pc'[c] = "idle" <=> pc[c] = "idle") /\ pc'[c] \in {"idle", "ended"}
    BY <1>0, <1>2 DEF Restart, Live, Gone, TypeOK, CallsOK
  <2>2. \A c \in Call : status'[c] \notin Active
    BY <1>0, <1>2 DEF Restart, Recovered, TypeOK, RowsOK, Active, Settled
  <2>3. call' = call /\ writer' = 0 /\ \A c \in Call : call[c].line \subseteq Call
    BY <1>0, <1>2 DEF Restart, TypeOK, CallsOK, CallSet
  <2>4. Lineage'
    BY <1>0, <2>1, <2>3 DEF Lineage, IsChild, IsTask
  <2>5. Waits' /\ Holds'
    BY <2>1 DEF Waits, Holds, Live, Gone, Steps
  <2>6. Checked' /\ OneWriter'
    BY <1>0, <2>1, <2>2, <2>3 DEF Checked, OneWriter, IsActive, Steps
  <2> QED
    BY <2>4, <2>5, <2>6
<1>3. ASSUME NEW c \in Call, Arrives(c) PROVE Lineage' /\ Waits' /\ Holds' /\ Checked' /\ OneWriter'
  <2>1. \A d \in Call : d # c => call'[d] = call[d] /\ pc'[d] = pc[d]
    BY <1>3 DEF Arrives, Moved
  <2>2. pc[c] = "idle" /\ pc'[c] = "admit" /\ UNCHANGED <<status, writer>> /\ ~IsActive(c)
    BY <1>0, <1>3 DEF Arrives, Moved, TypeOK, RowsOK, Before, IsActive, Active
  <2>3. Lineage' /\ Waits'
    BY <1>0, <1>3, LineageArrives
  <2>4. Holds' /\ Checked'
    BY <1>0, <2>1, <2>2 DEF Holds, Checked, IsActive, TypeOK, LocksOK
  <2>5. OneWriter'
    BY <1>0, <2>1, <2>2, <2>4 DEF OneWriter, IsActive, Holds
  <2> QED
    BY <2>3, <2>4, <2>5
<1>4. ASSUME NEW c \in Call, Leaves(c) PROVE Lineage' /\ Waits' /\ Holds' /\ Checked' /\ OneWriter'
  <2>1. pc[c] \notin Gone \union {"working"} /\ Moved(c, "ended") /\ UNCHANGED call
    BY <1>4 DEF Leaves
  <2>2. Lineage' /\ Waits'
    BY <1>0, <2>1, LineageMoves DEF Gone
  <2>3. ASSUME NEW d \in Call, pc'[d] \in Steps \ {"admit", "lease"}
        PROVE  writer' = call[d].root
    <3>1. d # c /\ pc[d] = pc'[d] /\ pc[d] # "idle"
      BY <2>1, <2>3 DEF Moved, Steps
    <3>2. writer = call[d].root
      BY <1>0, <2>3, <3>1 DEF Holds
    <3>3. c \notin call[d].line
      BY <1>0, <2>1, <2>3, <3>1 DEF Waits, Live, Gone, Steps
    <3>4. writer # c
      BY <1>0, <3>1, <3>2, <3>3 DEF Lineage
    <3> QED
      BY <1>4, <3>2, <3>4 DEF Leaves, Freed
  <2>4. Holds'
    BY <2>1, <2>3 DEF Holds
  <2>5. \A d \in Call : IsActive(d)' => IsActive(d)
    BY <1>4 DEF Leaves, OnlyRowOf, IsActive, Active, Settled
  <2>6. Checked'
    BY <1>0, <1>4, <2>1, <2>5 DEF Checked, Leaves, Freed, Moved, TypeOK, LocksOK
  <2>7. OneWriter'
    BY <1>0, <2>1, <2>4, <2>5 DEF OneWriter, Holds
  <2> QED
    BY <2>2, <2>4, <2>6, <2>7
<1>5. ASSUME NEW c \in Call, NEW s \in Steps, Proceeds(c, s)
      PROVE  Lineage' /\ Waits' /\ Holds' /\ Checked' /\ OneWriter'
  <2>1. pc[c] \notin Gone /\ Moved(c, s) /\ UNCHANGED call /\ s # "idle" /\ (pc[c] = "working" => Children(c) = {})
    BY <1>5 DEF Proceeds, Steps
  <2>2. Lineage' /\ Waits'
    BY <1>0, <2>1, LineageMoves
  <2>3. \A d \in Call : d # c => pc'[d] = pc[d] /\ (IsActive(d)' <=> IsActive(d))
    BY <1>5 DEF Proceeds, Moved, OnlyRowOf, IsActive
  <2>4. pc'[c] = s /\ c \in Call /\ call[c].root \in Call /\ writer \in {0} \union Call
    BY <1>0, <2>1 DEF Moved, Gone, TypeOK, CallsOK, LocksOK
  <2>5. CASE pc[c] = "admit" /\ s = "lease" /\ UNCHANGED <<status, writer>>
    <3>1. Holds'
      BY <1>0, <2>1, <2>3, <2>4, <2>5 DEF Holds
    <3>2. Checked' /\ OneWriter'
      BY <1>0, <2>1, <2>3, <2>4, <2>5, <3>1 DEF Checked, OneWriter, IsActive, Holds
    <3> QED
      BY <2>2, <3>1, <3>2
  <2>6. CASE pc[c] = "lease" /\ s = "pending" /\ ~IsChild(c) /\ writer = 0 /\ writer' = c /\ UNCHANGED status
    <3>1. \A d \in Call : pc[d] \notin Steps \ {"admit", "lease"}
      BY <1>0, <2>6, CallPositive DEF Holds, TypeOK, CallsOK, Steps
    <3>2. call[c].root = c
      BY <1>0, <2>1, <2>6 DEF Lineage, Gone
    <3>3. Holds'
      BY <2>1, <2>3, <2>4, <2>6, <3>1, <3>2 DEF Holds
    <3>4. Checked' /\ OneWriter'
      BY <1>0, <2>1, <2>4, <2>6, <3>3 DEF Checked, OneWriter, IsActive, Holds
    <3> QED
      BY <2>2, <3>3, <3>4
  <2>7. CASE pc[c] = "lease" /\ s = "insert" /\ IsChild(c) /\ UNCHANGED <<status, writer>>
    <3>1. /\ pc[call[c].parent] = "working" /\ call[c].parent \in Call
          /\ call[call[c].parent].root = call[c].root
      BY <1>0, <2>1, <2>7 DEF Lineage, Waits, Live, Gone, TypeOK, CallsOK, CallSet
    <3>2. writer = call[c].root
      BY <1>0, <3>1 DEF Holds, Steps
    <3>3. Holds'
      BY <1>0, <2>1, <2>3, <2>4, <2>7, <3>2 DEF Holds
    <3>4. Checked' /\ OneWriter'
      BY <1>0, <2>1, <2>3, <2>4, <2>7, <3>2, <3>3 DEF Checked, OneWriter, IsActive, Holds
    <3> QED
      BY <2>2, <3>3, <3>4
  <2>8. CASE pc[c] = "pending" /\ s = "insert" /\ Pending = {} /\ UNCHANGED <<status, writer>>
    <3>1. \A d \in Call : ~IsActive(d) /\ ~IsActive(d)'
      BY <2>8 DEF Pending, IsActive
    <3>2. Holds'
      BY <1>0, <2>1, <2>3, <2>4, <2>8 DEF Holds, Steps
    <3>3. Checked' /\ OneWriter'
      BY <3>1, <3>2 DEF Checked, OneWriter, Holds
    <3> QED
      BY <2>2, <3>2, <3>3
  <2>9. CASE /\ pc[c] = "insert" /\ s = "awaiting" /\ Prior(c) = {}
             /\ status'[c] = "awaiting_approval" /\ UNCHANGED writer
    <3>1. writer = call[c].root
      BY <1>0, <2>9 DEF Holds, Steps
    <3>2. pc[writer] # "pending"
      BY <1>0, <2>1, <2>9, <3>1 DEF Lineage, Waits, Live, Gone
    <3>3. \A d \in Call : IsActive(d)' => call[d].root = writer
      BY <1>0, <2>3, <2>4, <3>1, <3>2, CallPositive DEF Checked
    <3>4. Holds'
      BY <1>0, <2>1, <2>3, <2>4, <2>9, <3>1 DEF Holds
    <3>5. Checked' /\ OneWriter'
      BY <2>1, <2>9, <3>3, <3>4 DEF Checked, OneWriter, Holds
    <3> QED
      BY <2>2, <3>4, <3>5
  <2>10. CASE /\ pc[c] \notin Before /\ s \notin Before /\ UNCHANGED writer
              /\ \/ UNCHANGED status
                 \/ status[c] = "awaiting_approval" /\ status'[c] = "running" /\ c \notin cancelled
    <3>1. \A d \in Call : IsActive(d)' => IsActive(d)
      BY <2>3, <2>10 DEF IsActive, Active
    <3>2. pc[c] \in Steps \ {"admit", "lease"}
      BY <1>0, <2>1, <2>10 DEF Before, Gone, TypeOK, CallsOK
    <3>3. Holds'
      BY <1>0, <2>1, <2>3, <2>4, <2>10, <3>2 DEF Holds
    <3>4. Checked' /\ OneWriter'
      BY <1>0, <2>1, <2>3, <2>4, <2>10, <3>1, <3>3 DEF Checked, OneWriter, Holds, Before
    <3> QED
      BY <2>2, <3>3, <3>4
  <2> QED
    BY <1>5, <2>5, <2>6, <2>7, <2>8, <2>9, <2>10 DEF Proceeds
<1> QED
  BY <1>0, <1>1, <1>2, <1>3, <1>4, <1>5 DEF Shape

\* One lineage writes at a time, whoever asked, failed or restarted.
THEOREM Exclusive == Spec => []OneWriter
<1>1. Init => Exclusion
  BY ExclusionInit
<1>2. Exclusion /\ [Next]_vars => Exclusion'
  BY ExclusionStep
<1>3. Exclusion => OneWriter
  BY DEF Exclusion
<1> QED
  BY <1>1, <1>2, <1>3, PTL DEF Spec

----------------------------------------------------------------------------
(* At most once, and never after a cancellation.                           *)

\* A row is made at most once for a request; what was performed has one that
\* was started.
Recorded ==
    /\ \A c \in performed : status[c] \notin {"none", "awaiting_approval"}
    /\ \A c, d \in Call :
          status[c] # "none" /\ status[d] # "none" /\ SameRequest(c, d) => c = d

\* A call withdrawn while it waited is not performed, and something it belongs
\* to stays cancelled.  A task looks at its own flag only, once, as it starts.
Withdrawn ==
    \A c \in early :
        /\ c \notin performed
        /\ status[c] # "none"
        /\ \E a \in call[c].line : a \in cancelled
        /\ IsTask(c) => status[c] # "running"

\* What makes PerformedOnce and CancelledNotPerformed inductive.
Careful == Exclusion /\ Recorded /\ Withdrawn

\* Who writes the histories and the counter of failures.
LEMMA Marks ==
    ASSUME TypeOK, [Next]_vars
    PROVE  /\ UNCHANGED performed \/ \E c \in Call : Dispatch(c)
           /\ UNCHANGED <<early, cancelled>> \/ \E c \in Call : Cancel(c)
           /\ UNCHANGED errors \/ errors' # 0
<1>1. ASSUME NEW c \in Call, Advance(c), ~Dispatch(c) PROVE UNCHANGED <<performed, early, cancelled, errors>>
  BY <1>1
  DEF Advance, ReplayRequested, TakeWriter, InheritLease, CheckPending, Insert, PrepareFails, Decide, Revalidate,
      Start, Reject, Check, Finish, Fail, Settle, rows, history, counters
<1>2. ASSUME NEW c \in Call, Dispatch(c) PROVE UNCHANGED <<early, cancelled, errors>>
  BY <1>2 DEF Dispatch, rows, counters
<1>3. ASSUME NEW c \in Call, Cancel(c) PROVE UNCHANGED <<performed, errors>>
  BY <1>3 DEF Cancel, counters
<1>4. ASSUME NEW c \in Call, Replay(c) \/ Halt(c) PROVE UNCHANGED <<performed, early, cancelled, errors>>
  BY <1>4 DEF Replay, Halt, rows, history, counters
<1>5. ASSUME NEW c \in Call, NEW k \in Kinds, NEW r \in Requests, NEW i \in Inputs, Submit(c, k, r, i)
      PROVE  UNCHANGED <<performed, early, cancelled, errors>>
  BY <1>5 DEF Submit, rows, history, counters
<1>6. ASSUME NEW c \in Call, NEW p \in Call, SubmitChild(c, p)
      PROVE  UNCHANGED <<performed, early, cancelled, errors>>
  BY <1>6 DEF SubmitChild, rows, history, counters
<1>7. ASSUME NEW c \in Call, DatabaseError(c)
      PROVE  UNCHANGED <<performed, early, cancelled>> /\ errors' # 0
  BY <1>7, WritesAssumption DEF DatabaseError, rows, history, TypeOK
<1>8. ASSUME Restart PROVE UNCHANGED <<performed, early, cancelled, errors>>
  BY <1>8 DEF Restart, history
<1>9. ASSUME UNCHANGED vars PROVE UNCHANGED <<performed, early, cancelled, errors>>
  BY <1>9 DEF vars, rows, history, counters
<1> QED
  BY <1>1, <1>2, <1>3, <1>4, <1>5, <1>6, <1>7, <1>8, <1>9 DEF Next

\* What a step does to one row: it is made for a call that has none and finds
\* none, started unless the call is cancelled, or settled; it is never unmade.
LEMMA RowSteps ==
    ASSUME TypeOK, Shape, NEW c \in Call
    PROVE  /\ status[c] # "none" => status'[c] # "none" /\ call'[c] = call[c]
           /\ status[c] \notin {"none", "awaiting_approval"} =>
                 status'[c] \notin {"none", "awaiting_approval"}
           /\ status'[c] = "running" /\ status[c] # "running" => c \notin cancelled
           /\ status[c] = "none" /\ status'[c] # "none" =>
                 /\ Prior(c) = {} /\ call' = call
                 /\ \A d \in Call : d # c => status'[d] = status[d]
<1>1. CASE UNCHANGED <<pc, call, status, writer>>
  BY <1>1
<1>2. CASE Restart
  BY <1>2 DEF Restart, Recovered
<1>3. ASSUME NEW d \in Call, Arrives(d)
      PROVE  status' = status /\ (status[c] # "none" => call'[c] = call[c])
  BY <1>3 DEF Arrives, TypeOK, RowsOK, Before
<1>4. ASSUME NEW d \in Call, Leaves(d)
      PROVE  /\ call' = call
             /\ \/ status'[c] = status[c]
                \/ status[c] \in Active /\ status'[c] \in Settled
  <2>1. call' = call
    BY <1>4 DEF Leaves
  <2>2. CASE c = d
    BY <1>4, <2>1, <2>2 DEF Leaves, IsActive
  <2>3. CASE c # d
    BY <1>4, <2>1, <2>3 DEF Leaves, OnlyRowOf
  <2> QED
    BY <2>2, <2>3
<1>5. ASSUME NEW d \in Call, NEW s \in Steps, Proceeds(d, s)
      PROVE  /\ call' = call
             /\ \/ status'[c] = status[c]
                \/ status[c] = "awaiting_approval" /\ status'[c] = "running" /\ c \notin cancelled
                \/ /\ status[c] = "none" /\ status'[c] = "awaiting_approval" /\ Prior(c) = {}
                   /\ \A e \in Call : e # c => status'[e] = status[e]
  BY <1>5 DEF Proceeds, OnlyRowOf, TypeOK, RowsOK, Before
<1> QED
  BY <1>1, <1>2, <1>3, <1>4, <1>5 DEF Shape, Active, Settled

\* No step makes a second row for a request or performs what was withdrawn.
LEMMA CarefulStep == Careful /\ [Next]_vars => Careful'
<1> SUFFICES ASSUME Careful, [Next]_vars PROVE Careful'
  OBVIOUS
<1>1. TypeOK /\ Lineage /\ Recorded /\ Withdrawn /\ Shape /\ Exclusion'
  BY ExclusionStep, Shapes DEF Careful, Exclusion
<1>2. performed \subseteq Call /\ early \subseteq Call /\ cancelled \subseteq cancelled'
  BY <1>1, Marks DEF Cancel, TypeOK
<1>3. Recorded'
  <2>1. ASSUME NEW c \in performed' PROVE status'[c] \notin {"none", "awaiting_approval"}
    <3>1. CASE c \in performed
      BY <1>1, <1>2, <3>1, RowSteps DEF Recorded
    <3>2. CASE c \notin performed
      <4>1. c \in Call /\ Dispatch(c)
        BY <1>1, <2>1, <3>2, Marks DEF Dispatch
      <4>2. status[c] = "running"
        BY <1>1, <4>1 DEF Dispatch, TypeOK, RowsOK, Executing
      <4> QED
        BY <1>1, <4>1, <4>2, RowSteps
    <3> QED
      BY <3>1, <3>2
  <2>2. ASSUME NEW c \in Call, NEW d \in Call, status'[c] # "none", status'[d] # "none", SameRequest(c, d)'
        PROVE  c = d
    <3>1. CASE status[c] # "none" /\ status[d] # "none"
      BY <1>1, <2>2, <3>1, RowSteps DEF Recorded, SameRequest, Key, IsChild
    <3>2. CASE status[c] = "none"
      <4>1. Prior(c) = {} /\ call' = call /\ (d # c => status'[d] = status[d])
        BY <1>1, <2>2, <3>2, RowSteps
      <4>2. SameRequest(c, d)
        BY <2>2, <4>1 DEF SameRequest, Key, IsChild
      <4> QED
        BY <2>2, <4>1, <4>2 DEF Prior
    <3>3. CASE status[d] = "none"
      <4>1. Prior(d) = {} /\ call' = call /\ (d # c => status'[c] = status[c])
        BY <1>1, <2>2, <3>3, RowSteps
      <4>2. SameRequest(d, c)
        BY <2>2, <4>1 DEF SameRequest, Key, IsChild
      <4> QED
        BY <2>2, <4>1, <4>2 DEF Prior
    <3> QED
      BY <3>1, <3>2, <3>3
  <2> QED
    BY <2>1, <2>2 DEF Recorded
<1>4. Withdrawn'
  <2>1. ASSUME NEW c \in early
        PROVE  /\ c \notin performed'
               /\ status'[c] # "none"
               /\ \E a \in call'[c].line : a \in cancelled'
               /\ IsTask(c)' => status'[c] # "running"
    <3>1. /\ c \in Call /\ c \notin performed /\ status[c] # "none"
          /\ IsTask(c) => status[c] # "running"
      BY <1>1, <1>2 DEF Withdrawn
    <3>2. PICK a \in call[c].line : a \in cancelled
      BY <1>1 DEF Withdrawn
    <3>3. status'[c] # "none" /\ call'[c] = call[c]
      BY <1>1, <3>1, RowSteps
    <3>4. IsTask(c) => c \in cancelled
      BY <1>1, <3>1, <3>2 DEF Lineage, TypeOK, RowsOK, Before
    <3>5. IsTask(c)' => status'[c] # "running"
      BY <1>1, <3>1, <3>3, <3>4, RowSteps DEF IsTask
    <3>6. ~Dispatch(c)
      BY <1>1, <3>1, <3>2 DEF Dispatch, MayDispatch, Stopped, Requested, TypeOK, RowsOK, Executing
    <3>7. c \notin performed'
      BY <1>1, <3>1, <3>6, Marks DEF Dispatch
    <3> QED
      BY <1>2, <3>2, <3>3, <3>5, <3>7
  <2>2. ASSUME NEW c \in early', c \notin early
        PROVE  /\ c \notin performed'
               /\ status'[c] # "none"
               /\ \E a \in call'[c].line : a \in cancelled'
               /\ IsTask(c)' => status'[c] # "running"
    <3>1. PICK b \in Call : Cancel(b)
      BY <1>1, <2>2, Marks
    <3>2. c \in Call /\ status[c] = "awaiting_approval" /\ b \in call[c].line
      BY <2>2, <3>1 DEF Cancel, Affected
    <3>3. UNCHANGED <<status, call, performed>> /\ b \in cancelled'
      BY <3>1 DEF Cancel
    <3>4. c \notin performed
      BY <1>1, <3>2 DEF Recorded
    <3> QED
      BY <3>2, <3>3, <3>4
  <2> QED
    BY <2>1, <2>2 DEF Withdrawn
<1> QED
  BY <1>1, <1>3, <1>4 DEF Careful

\* Initially nothing is recorded, performed or withdrawn.
LEMMA CarefulInit == Init => Careful
<1> SUFFICES ASSUME Init PROVE Careful
  OBVIOUS
<1>1. Recorded /\ Withdrawn
  BY DEF Init, Recorded, Withdrawn
<1> QED
  BY <1>1, ExclusionInit DEF Careful

\* A request is performed at most once, and what was withdrawn never.
THEOREM Once == Spec => [](PerformedOnce /\ CancelledNotPerformed)
<1>1. Init => Careful
  BY CarefulInit
<1>2. Careful /\ [Next]_vars => Careful'
  BY CarefulStep
<1>3. Careful => PerformedOnce /\ CancelledNotPerformed
  BY DEF Careful, Exclusion, TypeOK, Recorded, Withdrawn, PerformedOnce, CancelledNotPerformed
<1> QED
  BY <1>1, <1>2, <1>3, PTL DEF Spec

\* A call that was withdrawn while it waited for its approval is never performed.
THEOREM Withheld == Spec => []CancelledNotPerformed
<1> QED
  BY Once, PTL

----------------------------------------------------------------------------
(* The workspace comes free again.                                         *)

\* Only a failed statement separates a row, or the writer, from its call.
LEMMA ServedStep == TypeOK /\ NothingStranded /\ [Next]_vars => NothingStranded'
<1> SUFFICES ASSUME TypeOK, NothingStranded, [Next]_vars, errors' = 0
             PROVE  (\A c \in Call : IsActive(c)' => Live(c)') /\ (writer' # 0 => Live(writer)')
  BY DEF NothingStranded
<1>1. /\ \A c \in Call : IsActive(c) => Live(c)
      /\ writer # 0 => Live(writer)
      /\ Shape
  BY Marks, Shapes DEF NothingStranded
<1>2. CASE UNCHANGED <<pc, call, status, writer>>
  BY <1>1, <1>2 DEF IsActive, Live
<1>3. CASE Restart
  BY <1>3 DEF Restart, Recovered, TypeOK, RowsOK, IsActive, Active, Settled
<1>4. ASSUME NEW c \in Call, Arrives(c)
      PROVE  (\A d \in Call : IsActive(d)' => Live(d)') /\ (writer' # 0 => Live(writer)')
  BY <1>1, <1>4 DEF Arrives, Moved, IsActive, Live, Gone, TypeOK, LocksOK
<1>5. ASSUME NEW c \in Call, Leaves(c)
      PROVE  (\A d \in Call : IsActive(d)' => Live(d)') /\ (writer' # 0 => Live(writer)')
  BY <1>1, <1>5
  DEF Leaves, Freed, OnlyRowOf, Moved, IsActive, Live, Active, Settled, TypeOK, LocksOK
<1>6. ASSUME NEW c \in Call, NEW s \in Steps, Proceeds(c, s)
      PROVE  (\A d \in Call : IsActive(d)' => Live(d)') /\ (writer' # 0 => Live(writer)')
  <2>1. pc'[c] = s /\ s \notin Gone /\ \A d \in Call : d # c => pc'[d] = pc[d] /\ status'[d] = status[d]
    BY <1>6 DEF Proceeds, OnlyRowOf, Moved, Steps, Gone
  <2>2. writer' \in {writer, c} /\ (writer # 0 => writer \in Call)
    BY <1>6 DEF Proceeds, TypeOK, LocksOK
  <2> QED
    BY <1>1, <2>1, <2>2 DEF IsActive, Live
<1> QED
  BY <1>1, <1>2, <1>3, <1>4, <1>5, <1>6 DEF Shape

\* As long as no statement fails the workspace is never left blocked.
THEOREM NeverStranded == Spec => []NothingStranded
<1>1. Init => TypeOK /\ NothingStranded
  BY TypeInit DEF Init, NothingStranded, IsActive, Active
<1>2. TypeOK /\ NothingStranded /\ [Next]_vars => TypeOK' /\ NothingStranded'
  BY TypeStep, ServedStep
<1> QED
  BY <1>1, <1>2, PTL DEF Spec

=============================================================================
