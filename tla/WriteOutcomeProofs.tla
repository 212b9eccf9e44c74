------------------------- MODULE WriteOutcomeProofs -------------------------
(***************************************************************************)
(* More about WorkspaceWrites, for every value of the constants: what the  *)
(* callers of a write are told (Alike) is the recorded outcome of its one  *)
(* row, what was performed is never told not to have happened              *)
(* (NotDenied), and a write does not succeed over a nested write in doubt  *)
(* (NothingHidden); and, from all that, that the ledger implements         *)
(* WritePromise.                                                           *)
(***************************************************************************)
EXTENDS WorkspaceWritesProofs, FiniteSetTheorems

----------------------------------------------------------------------------
(* What a step leaves of the past, and what it says and finds out.         *)

\* A settled row keeps its status, a call that ended stays so, and only a crash
\* still moves its row; a call that has arrived stays what it is.
LEMMA Rests ==
    ASSUME TypeOK, Shape, NEW c \in Call
    PROVE  /\ status[c] \in Settled => status'[c] = status[c]
           /\ pc[c] = "ended" => pc'[c] = "ended" /\ (Restart \/ status'[c] = status[c])
           /\ pc[c] # "idle" => pc'[c] # "idle" /\ call'[c] = call[c]
           /\ pc[c] = "idle" => status'[c] = "none"
<1>0. /\ status[c] \notin Settled \/ ~IsActive(c)
      /\ pc[c] = "idle" => status[c] = "none"
  BY DEF Settled, Active, IsActive, TypeOK, RowsOK, Before
<1>1. CASE UNCHANGED <<pc, call, status, writer>>
  BY <1>0, <1>1
<1>2. CASE Restart
  BY <1>0, <1>2 DEF Restart, Recovered, Live, Gone, Settled
<1>3. ASSUME NEW d \in Call, Arrives(d)
      PROVE  /\ status' = status
             /\ c # d => pc'[c] = pc[c] /\ call'[c] = call[c]
             /\ c = d => pc[c] = "idle"
  BY <1>3 DEF Arrives, Moved
<1>4. ASSUME NEW d \in Call, Leaves(d)
      PROVE  /\ call' = call
             /\ c # d => pc'[c] = pc[c] /\ status'[c] = status[c]
             /\ c = d => pc[c] \notin Gone /\ pc'[c] = "ended" /\ (status[c] \in Settled => status'[c] = status[c])
  BY <1>0, <1>4 DEF Leaves, Moved, OnlyRowOf
<1>5. ASSUME NEW d \in Call, NEW s \in Steps, Proceeds(d, s)
      PROVE  /\ call' = call
             /\ c # d => pc'[c] = pc[c] /\ status'[c] = status[c]
             /\ c = d => pc[c] \notin Gone /\ pc'[c] # "idle" /\ (status[c] \in Settled => status'[c] = status[c])
  BY <1>0, <1>5 DEF Proceeds, Moved, OnlyRowOf, Steps, Settled, TypeOK, RowsOK, Before
<1> QED
  BY <1>0, <1>1, <1>2, <1>3, <1>4, <1>5 DEF Shape, Gone

\* A call that answers a hears of an outcome only what a row of its request and
\* input shows, what its own row becomes, or that nobody knows.
Telling(c, a) ==
    /\ pc[c] \notin Gone /\ pc'[c] = "ended" /\ call' = call
    /\ answer' = [answer EXCEPT ![c] = a]
    /\ \/ a \notin Settled
       \/ UNCHANGED status /\ \E d \in Prior(c) : status[d] = a /\ call[c].input = call[d].input
       \/ status'[c] = a
       \/ a = "outcome_unknown" /\ status[c] = "running" /\ UNCHANGED status

\* A replay tells what the row shows.
LEMMA ReplayTells ==
    ASSUME TypeOK, NEW c \in Call, NEW d \in Prior(c), Return(c, Replayed(c, d)),
           UNCHANGED <<call, status>>, pc[c] \notin Gone
    PROVE  Telling(c, Replayed(c, d))
<1>1. Replayed(c, d) \in Settled => Replayed(c, d) = status[d] /\ call[c].input = call[d].input
  BY DEF Replayed, Settled
<1>2. pc'[c] = "ended"
  BY Ends DEF Moved
<1> QED
  BY <1>1, <1>2 DEF Telling, Return

\* Nobody answers but a call that ends.
LEMMA Tells ==
    ASSUME TypeOK, [Next]_vars
    PROVE  UNCHANGED answer \/ Restart \/ \E c \in Call, a \in Active \union Settled \union Errors : Telling(c, a)
<1> USE DEF rows, locks, flags, history, counters
<1>1. ASSUME NEW c \in Call, NEW d \in Prior(c), Return(c, Replayed(c, d)),
             Replay(c) \/ ReplayRequested(c) \/ (Insert(c) /\ Prior(c) # {})
      PROVE  \E a \in Active \union Settled \union Errors : Telling(c, a)
  <2>1. UNCHANGED <<call, status>> /\ pc[c] \notin Gone
    BY <1>1 DEF Replay, ReplayRequested, Insert, Gone
  <2> QED
    BY <1>1, <2>1, ReplayTells, Replays
<1>2. ASSUME NEW c \in Call, Replay(c) \/ ReplayRequested(c) \/ Insert(c)
      PROVE  UNCHANGED answer \/ \E a \in Active \union Settled \union Errors : Telling(c, a)
  BY <1>1, <1>2 DEF Replay, ReplayRequested, Insert
<1>3. ASSUME NEW c \in Call, NEW a \in Errors, Return(c, a), UNCHANGED call, pc[c] \notin Gone
      PROVE  \E b \in Active \union Settled \union Errors : Telling(c, b)
  BY <1>3, Ends DEF Telling, Moved, Return, Errors, Settled
<1>4. ASSUME NEW c \in Call, TakeWriter(c) \/ InheritLease(c) \/ CheckPending(c) \/ PrepareFails(c)
      PROVE  UNCHANGED answer \/ \E a \in Active \union Settled \union Errors : Telling(c, a)
  <2>1. UNCHANGED answer \/ \E a \in Errors : Return(c, a)
    BY <1>4 DEF TakeWriter, InheritLease, CheckPending, PrepareFails, Errors
  <2>2. UNCHANGED call /\ pc[c] \notin Gone
    BY <1>4 DEF TakeWriter, InheritLease, CheckPending, PrepareFails, Gone
  <2> QED
    BY <1>3, <2>1, <2>2
<1>5. ASSUME NEW c \in Call, NEW a \in Settled, Return(c, a), SetStatus(c, a), UNCHANGED call, pc[c] \notin Gone
      PROVE  \E b \in Active \union Settled \union Errors : Telling(c, b)
  BY <1>5, Ends DEF Telling, Moved, Return, SetStatus, TypeOK, RowsOK
<1>6. ASSUME NEW c \in Call, Reject(c) PROVE \E a \in Active \union Settled \union Errors : Telling(c, a)
  BY <1>5, <1>6 DEF Reject, Settled, Gone
<1>7. ASSUME NEW c \in Call, Settle(c) PROVE \E a \in Active \union Settled \union Errors : Telling(c, a)
  <2>1. result[c] \in Settled
    BY <1>7 DEF Settle, TypeOK, CallsOK, Settled
  <2> QED
    BY <1>5, <1>7, <2>1 DEF Settle, Gone
<1>8. ASSUME NEW c \in Call, DatabaseError(c) PROVE \E a \in Active \union Settled \union Errors : Telling(c, a)
  <2>1. UNCHANGED <<call, status>> /\ pc[c] \notin Gone /\ Return(c, ErrorAnswer(c))
    BY <1>8 DEF DatabaseError, Gone
  <2>2. CASE Unstored(c)
    <3>1. ErrorAnswer(c) = "outcome_unknown" /\ status[c] = "running"
      BY <2>2 DEF ErrorAnswer, Unstored, TypeOK, RowsOK, Executing
    <3> QED
      BY <2>1, <3>1, Ends DEF Telling, Moved, Return, Settled
  <2>3. CASE ~Unstored(c)
    BY <1>3, <2>1, <2>3 DEF ErrorAnswer, Errors
  <2> QED
    BY <2>2, <2>3
<1>9. ASSUME NEW c \in Call,
             Decide(c) \/ Revalidate(c) \/ Start(c) \/ Check(c) \/ Dispatch(c) \/ Finish(c) \/ Fail(c) \/ Cancel(c) \/ Halt(c)
      PROVE  UNCHANGED answer
  BY <1>9 DEF Decide, Revalidate, Start, Check, Dispatch, Finish, Fail, Cancel, Halt
<1>10. ASSUME NEW c \in Call, NEW k \in Kinds, NEW r \in Requests, NEW i \in Inputs, Submit(c, k, r, i)
       PROVE  UNCHANGED answer
  BY <1>10 DEF Submit
<1>11. ASSUME NEW c \in Call, NEW p \in Call, SubmitChild(c, p) PROVE UNCHANGED answer
  BY <1>11 DEF SubmitChild
<1>12. ASSUME UNCHANGED vars PROVE UNCHANGED answer
  BY <1>12 DEF vars
<1> QED
  BY <1>2, <1>4, <1>6, <1>7, <1>8, <1>9, <1>10, <1>11, <1>12 DEF Next, Advance

\* Who has what kind of result, and how it came to it.
LEMMA Results ==
    ASSUME TypeOK, [Next]_vars, NEW c \in Call, pc'[c] = "settle"
    PROVE  \/ pc[c] = "settle" /\ result'[c] = result[c]
           \/ pc[c] = "check" /\ result'[c] = "failed"
           \/ Finish(c) /\ pc[c] = "working" /\ (result'[c] = "completed" \/ IsTask(c))
           \/ Fail(c) /\ result'[c] = "outcome_unknown"
<1> USE DEF rows, locks, flags, history, counters
<1>0. pc \in [Call -> Gone \union Steps] /\ result \in [Call -> {"none", "completed", "failed", "outcome_unknown"}]
  BY DEF TypeOK, CallsOK
<1>1. ASSUME NEW d \in Call, Check(d), Requested(d) \/ d # c
      PROVE  \/ d = c /\ pc[c] = "check" /\ result'[c] = "failed"
             \/ pc[c] = "settle" /\ result'[c] = result[c]
  BY <1>0, <1>1 DEF Check, Resulting, GoTo
<1>2. ASSUME NEW d \in Call, Finish(d)
      PROVE  \/ d = c /\ pc[c] = "working" /\ (result'[c] = "completed" \/ IsTask(c))
             \/ pc[c] = "settle" /\ result'[c] = result[c]
  BY <1>0, <1>2 DEF Finish, Resulting, GoTo
<1>3. ASSUME NEW d \in Call, Fail(d)
      PROVE  \/ d = c /\ result'[c] = "outcome_unknown"
             \/ pc[c] = "settle" /\ result'[c] = result[c]
  BY <1>0, <1>3 DEF Fail, Resulting, GoTo
<1>4. ASSUME UNCHANGED result, NEW d \in Call, NEW s \in Gone \union Steps, s # "settle", pc' = [pc EXCEPT ![d] = s]
      PROVE  pc[c] = "settle" /\ result'[c] = result[c]
  BY <1>0, <1>4
<1>5. ASSUME NEW d \in Call, Advance(d), ~Finish(d), ~Fail(d)
      PROVE  \/ pc[c] = "check" /\ result'[c] = "failed"
             \/ pc[c] = "settle" /\ result'[c] = result[c]
  <2>1. ASSUME NEW a, Return(d, a), UNCHANGED result PROVE pc[c] = "settle" /\ result'[c] = result[c]
    BY <1>4, <2>1 DEF Return, GoTo, Gone
  <2>2. CASE ReplayRequested(d) \/ TakeWriter(d) \/ InheritLease(d) \/ CheckPending(d) \/ Insert(d) \/ PrepareFails(d)
    BY <1>4, <2>1, <2>2
    DEF ReplayRequested, TakeWriter, InheritLease, CheckPending, Insert, PrepareFails, GoTo, Steps
  <2>3. CASE Decide(d) \/ Revalidate(d) \/ Start(d) \/ Dispatch(d)
    BY <1>4, <2>3 DEF Decide, Revalidate, Start, AfterStart, Dispatch, GoTo, Steps
  <2>4. CASE Reject(d) \/ Settle(d)
    BY <2>1, <2>4 DEF Reject, Settle
  <2>5. CASE Check(d)
    <3>1. CASE Requested(d) \/ d # c
      BY <1>1, <2>5, <3>1
    <3>2. CASE ~Requested(d) /\ d = c
      BY <1>4, <2>5, <3>2 DEF Check, GoTo, Steps
    <3> QED
      BY <3>1, <3>2
  <2> QED
    BY <1>5, <2>2, <2>3, <2>4, <2>5 DEF Advance
<1>6. ASSUME NEW d \in Call, Replay(d) \/ DatabaseError(d) PROVE pc[c] = "settle" /\ result'[c] = result[c]
  BY <1>4, <1>6 DEF Replay, DatabaseError, Return, GoTo, Gone, Steps
<1>7. ASSUME NEW d \in Call, Cancel(d) \/ Halt(d) PROVE pc[c] = "settle" /\ result'[c] = result[c]
  BY <1>7 DEF Cancel, Halt
<1>8. ASSUME NEW d \in Call, NEW k \in Kinds, NEW r \in Requests, NEW i \in Inputs, Submit(d, k, r, i)
      PROVE  pc[c] = "settle" /\ result'[c] = result[c]
  BY <1>4, <1>8 DEF Submit, GoTo, Steps
<1>9. ASSUME NEW d \in Call, NEW p \in Call, SubmitChild(d, p) PROVE pc[c] = "settle" /\ result'[c] = result[c]
  BY <1>4, <1>9 DEF SubmitChild, GoTo, Steps
<1>10. ASSUME Restart PROVE pc[c] = "settle" /\ result'[c] = result[c]
  BY <1>0, <1>10 DEF Restart, Live, Gone
<1>11. ASSUME UNCHANGED vars PROVE pc[c] = "settle" /\ result'[c] = result[c]
  BY <1>11 DEF vars
<1> QED
  BY <1>2, <1>3, <1>5, <1>6, <1>7, <1>8, <1>9, <1>10, <1>11 DEF Next

\* A call looks at its cancellation, or is about to be performed, only once it has
\* been started.
LEMMA Looks ==
    ASSUME TypeOK, [Next]_vars, NEW c \in Call, pc'[c] \in {"check", "dispatch"}
    PROVE  pc[c] \in {"start", "check", "dispatch"}
<1> USE DEF rows, locks, flags, history, counters
<1>0. pc \in [Call -> Gone \union Steps]
  BY DEF TypeOK, CallsOK
<1>1. ASSUME NEW d \in Call, NEW s \in (Gone \union Steps) \ {"check", "dispatch"}, pc' = [pc EXCEPT ![d] = s]
      PROVE  pc[c] \in {"check", "dispatch"}
  BY <1>0, <1>1
<1>2. ASSUME NEW d \in Call, Start(d) \/ Check(d) PROVE pc[c] \in {"start", "check", "dispatch"}
  BY <1>0, <1>2 DEF Start, Check, Resulting, GoTo
<1>3. ASSUME NEW d \in Call, Advance(d), ~Start(d), ~Check(d)
      PROVE  \E s \in (Gone \union Steps) \ {"check", "dispatch"} : pc' = [pc EXCEPT ![d] = s]
  BY <1>3
  DEF Advance, ReplayRequested, TakeWriter, InheritLease, CheckPending, Insert, PrepareFails, Decide, Revalidate,
      Reject, Dispatch, Finish, Fail, Settle, Resulting, Return, GoTo, Gone, Steps
<1>4. ASSUME NEW d \in Call, Replay(d) \/ DatabaseError(d)
      PROVE  \E s \in (Gone \union Steps) \ {"check", "dispatch"} : pc' = [pc EXCEPT ![d] = s]
  BY <1>4 DEF Replay, DatabaseError, Return, GoTo, Gone, Steps
<1>5. ASSUME NEW d \in Call, Cancel(d) \/ Halt(d) PROVE UNCHANGED pc
  BY <1>5 DEF Cancel, Halt
<1>6. ASSUME NEW d \in Call, NEW k \in Kinds, NEW r \in Requests, NEW i \in Inputs, Submit(d, k, r, i)
      PROVE  pc' = [pc EXCEPT ![d] = "admit"]
  BY <1>6 DEF Submit, GoTo
<1>7. ASSUME NEW d \in Call, NEW p \in Call, SubmitChild(d, p) PROVE pc' = [pc EXCEPT ![d] = "admit"]
  BY <1>7 DEF SubmitChild, GoTo
<1>8. ASSUME Restart PROVE pc[c] \in {"check", "dispatch"}
  BY <1>0, <1>8 DEF Restart
<1>9. ASSUME UNCHANGED vars PROVE UNCHANGED pc
  BY <1>9 DEF vars
<1>10. "admit" \in (Gone \union Steps) \ {"check", "dispatch"}
  BY DEF Steps
<1> QED
  BY <1>1, <1>2, <1>3, <1>4, <1>5, <1>6, <1>7, <1>8, <1>9, <1>10 DEF Next

\* A row under way becomes settled by the result of its own call, by the refusal
\* of its call, or by a crash; a call leaves its row running only if its result
\* could not be stored.
LEMMA Settling ==
    ASSUME TypeOK, [Next]_vars, ~Restart, NEW c \in Call
    PROVE  /\ \/ status'[c] = status[c] \/ status'[c] \in Active
              \/ status'[c] = "rejected" /\ pc[c] = "reject"
              \/ status'[c] = result[c] /\ pc[c] = "settle" /\ pc'[c] = "ended"
           /\ pc'[c] = "ended" /\ pc[c] # "ended" /\ status'[c] = "running" =>
                 DatabaseError(c) /\ (Unstored(c) \/ IsTask(c))
           /\ uncertain \subseteq uncertain'
<1> USE DEF rows, locks, flags, history, counters
<1> DEFINE Row == \/ status'[c] = status[c] \/ status'[c] \in Active
                  \/ status'[c] = "rejected" /\ pc[c] = "reject"
                  \/ status'[c] = result[c] /\ pc[c] = "settle" /\ pc'[c] = "ended"
           Left == pc'[c] = "ended" /\ pc[c] # "ended" /\ status'[c] = "running" =>
                      DatabaseError(c) /\ (Unstored(c) \/ IsTask(c))
           Goal == /\ Row
                   /\ Left
                   /\ uncertain \subseteq uncertain'
<1>0. /\ pc \in [Call -> Gone \union Steps] /\ status \in [Call -> {"none"} \union Active \union Settled]
      /\ result \in [Call -> {"none", "completed", "failed", "outcome_unknown"}]
      /\ pc[c] \in Executing \/ pc[c] = "ended" \/ status[c] # "running"
  BY DEF TypeOK, CallsOK, RowsOK, Before, Asking, Executing, Steps, Gone
<1>1. ASSUME NEW d \in Call, NEW s \in Gone \union Steps, s # "ended", pc' = [pc EXCEPT ![d] = s],
             UNCHANGED status \/ \E t \in Active : status' = [status EXCEPT ![d] = t], uncertain \subseteq uncertain'
      PROVE  Goal
  BY <1>0, <1>1
<1>2. ASSUME NEW d \in Call, NEW a, Return(d, a), UNCHANGED <<status, uncertain>>, pc[d] \notin Executing
      PROVE  Goal
  BY <1>0, <1>2 DEF Return, GoTo
<1>3. ASSUME NEW d \in Call, Advance(d) PROVE Goal
  <2>1. CASE ReplayRequested(d) \/ TakeWriter(d) \/ InheritLease(d) \/ CheckPending(d) \/ Insert(d) \/ PrepareFails(d)
    <3>1. UNCHANGED uncertain /\ pc[d] \notin Executing
      BY <2>1 DEF ReplayRequested, TakeWriter, InheritLease, CheckPending, Insert, PrepareFails, Executing
    <3>2. \/ UNCHANGED status /\ \E a : Return(d, a)
          \/ UNCHANGED status /\ \E s \in Steps : GoTo(d, s)
          \/ SetStatus(d, "awaiting_approval") /\ GoTo(d, "awaiting")
      BY <2>1 DEF ReplayRequested, TakeWriter, InheritLease, CheckPending, Insert, PrepareFails, Steps
    <3> QED
      BY <1>1, <1>2, <3>1, <3>2 DEF GoTo, SetStatus, Steps, Active
  <2>2. CASE Decide(d) \/ Revalidate(d) \/ Check(d) \/ Dispatch(d) \/ Finish(d) \/ Fail(d)
    <3>1. UNCHANGED status /\ uncertain \subseteq uncertain' /\ \E s \in Steps : GoTo(d, s)
      BY <2>2 DEF Decide, Revalidate, Check, Dispatch, Finish, Fail, FailMark, Resulting, Steps
    <3> QED
      BY <1>1, <3>1 DEF GoTo, Steps
  <2>3. CASE Start(d)
    <3>1. /\ UNCHANGED uncertain /\ (UNCHANGED status \/ SetStatus(d, "running"))
          /\ \E s \in Steps : GoTo(d, s)
      BY <2>3 DEF Start, AfterStart, Steps
    <3> QED
      BY <1>1, <3>1 DEF GoTo, SetStatus, Steps, Active
  <2>4. CASE Reject(d)
    BY <1>0, <2>4 DEF Reject, SetStatus, Return, GoTo
  <2>5. CASE Settle(d)
    BY <1>0, <2>5 DEF Settle, SetStatus, Return, GoTo
  <2> QED
    BY <1>3, <2>1, <2>2, <2>3, <2>4, <2>5 DEF Advance
<1>4. ASSUME NEW d \in Call, DatabaseError(d) PROVE Goal
  <2>1. UNCHANGED status /\ uncertain \subseteq uncertain' /\ pc' = [pc EXCEPT ![d] = "ended"]
    BY <1>4 DEF DatabaseError, Doubt, FailMark, Return, GoTo
  <2>2. pc[d] \in Executing => Unstored(d) \/ IsTask(d)
    BY <1>4 DEF DatabaseError, Unstored, Executing
  <2> QED
    BY <1>0, <1>4, <2>1, <2>2
<1>5. ASSUME NEW d \in Call, Replay(d) PROVE Goal
  <2>1. UNCHANGED <<status, uncertain>> /\ pc[d] \notin Executing /\ (GoTo(d, "lease") \/ \E a : Return(d, a))
    BY <1>5 DEF Replay, Executing
  <2> QED
    BY <1>1, <1>2, <2>1 DEF GoTo, Steps
<1>6. ASSUME NEW d \in Call, Cancel(d) \/ Halt(d) PROVE Goal
  BY <1>6 DEF Cancel, Halt
<1>7. ASSUME NEW d \in Call, NEW k \in Kinds, NEW r \in Requests, NEW i \in Inputs, Submit(d, k, r, i) PROVE Goal
  BY <1>1, <1>7 DEF Submit, GoTo, Steps
<1>8. ASSUME NEW d \in Call, NEW p \in Call, SubmitChild(d, p) PROVE Goal
  BY <1>1, <1>8 DEF SubmitChild, GoTo, Steps
<1>9. ASSUME UNCHANGED vars PROVE Goal
  BY <1>9 DEF vars
<1>10. Goal
  BY <1>3, <1>4, <1>5, <1>6, <1>7, <1>8, <1>9 DEF Next
<1> QED
  BY <1>10

----------------------------------------------------------------------------
(* What the callers hear.                                                  *)

\* A performed call is past its last look, and the row of a performed write does
\* not say, nor will it, that the write was refused or failed.
Done ==
    \A c \in performed :
        /\ pc[c] \notin {"check", "dispatch"}
        /\ ~IsTask(c) => /\ status[c] \in {"running", "completed", "outcome_unknown"}
                         /\ pc[c] = "settle" => result[c] # "failed"

\* Row c answers call d: it shows what d was told, or was left by a failed
\* statement of the call that told it.
AnswersTo(c, d) ==
    /\ status[c] # "none" /\ SameRequest(c, d) /\ call[c].input = call[d].input
    /\ \/ status[c] = answer[d]
       \/ answer[d] = "outcome_unknown" /\ status[c] = "running" /\ pc[c] = "ended"

\* Whoever was told an outcome has ended, and a row answers for it.
Told ==
    \A d \in Call : answer[d] \in Settled => pc[d] = "ended" /\ \E c \in Call : AnswersTo(c, d)

\* Performing, settling and crashing keep what is known of performed writes.
LEMMA DoneStep == Careful /\ Done /\ [Next]_vars => Done'
<1> SUFFICES ASSUME Careful, Done, [Next]_vars, NEW c \in performed'
             PROVE  /\ pc'[c] \notin {"check", "dispatch"}
                    /\ IsTask(c)' \/ /\ status'[c] \in {"running", "completed", "outcome_unknown"}
                                     /\ pc'[c] = "settle" => result'[c] # "failed"
  BY DEF Done
<1>0. TypeOK /\ Shape /\ Recorded /\ performed \subseteq Call
  BY Shapes DEF Careful, Exclusion, TypeOK
<1>1. CASE c \in performed
  <2>1. /\ c \in Call /\ status[c] \notin {"none", "awaiting_approval"} /\ pc[c] \notin {"check", "dispatch"}
        /\ ~IsTask(c) => status[c] \in {"running", "completed", "outcome_unknown"}
        /\ ~IsTask(c) /\ pc[c] = "settle" => result[c] # "failed"
    BY <1>0, <1>1 DEF Done, Recorded
  <2>2. pc[c] \in {"working", "settle", "ended"} /\ pc'[c] # "idle" /\ call'[c] = call[c]
    BY <1>0, <2>1, Rests DEF TypeOK, CallsOK, RowsOK, Before, Asking, Gone, Steps
  <2>3. pc'[c] \notin {"check", "dispatch"}
    BY <1>0, <2>1, <2>2, Looks
  <2>4. ASSUME ~IsTask(c) PROVE status'[c] \in {"running", "completed", "outcome_unknown"}
    <3>1. CASE Restart
      BY <2>1, <2>4, <3>1 DEF Restart, Recovered
    <3>2. CASE ~Restart
      <4>1. status'[c] \in {"none", "awaiting_approval"} => status[c] \in {"none", "awaiting_approval"}
        BY <1>0, <2>1, RowSteps
      <4> QED
        BY <1>0, <2>1, <2>2, <2>4, <3>2, <4>1, Settling DEF Active, TypeOK, CallsOK
    <3> QED
      BY <3>1, <3>2
  <2>5. ASSUME ~IsTask(c), pc'[c] = "settle" PROVE result'[c] # "failed"
    BY <1>0, <2>1, <2>5, Results
  <2> QED
    BY <2>2, <2>3, <2>4, <2>5 DEF IsTask
<1>2. CASE c \notin performed
  <2>1. c \in Call /\ Dispatch(c)
    BY <1>0, <1>2, Marks DEF Dispatch
  <2>2. pc'[c] = "working" /\ status'[c] = "running"
    BY <1>0, <2>1 DEF Dispatch, GoTo, rows, TypeOK, CallsOK, RowsOK, Executing
  <2> QED
    BY <2>2
<1> QED
  BY <1>1, <1>2

\* What was told stays true, and what is told is true.
LEMMA ToldStep == TypeOK /\ Told /\ [Next]_vars => Told'
<1> SUFFICES ASSUME TypeOK, Told, [Next]_vars, NEW d \in Call, answer'[d] \in Settled
             PROVE  pc'[d] = "ended" /\ \E c \in Call : AnswersTo(c, d)'
  BY DEF Told
<1>0. Shape /\ answer \in [Call -> {"none"} \union Active \union Settled \union Errors]
  BY Shapes DEF TypeOK
<1>1. CASE answer'[d] = answer[d]
  <2>1. pc[d] = "ended"
    BY <1>1 DEF Told
  <2>2. PICK c \in Call : AnswersTo(c, d)
    BY <1>1 DEF Told
  <2>3. pc[c] # "idle"
    BY <2>2 DEF AnswersTo, TypeOK, RowsOK, Before
  <2>4. pc'[d] = "ended" /\ call'[d] = call[d] /\ call'[c] = call[c]
    BY <1>0, <2>1, <2>3, Rests
  <2>5. SameRequest(c, d)' /\ call'[c].input = call'[d].input
    BY <2>2, <2>4 DEF AnswersTo, SameRequest, Key, IsChild
  <2>6. CASE status[c] = answer[d]
    BY <1>0, <1>1, <2>4, <2>5, <2>6, Rests DEF AnswersTo, Settled
  <2>7. CASE answer[d] = "outcome_unknown" /\ status[c] = "running" /\ pc[c] = "ended"
    <3>1. pc'[c] = "ended" /\ (status'[c] = "running" \/ status'[c] = "outcome_unknown")
      BY <1>0, <2>7, Rests DEF Restart, Recovered
    <3> QED
      BY <1>1, <2>4, <2>5, <2>7, <3>1 DEF AnswersTo
  <2> QED
    BY <2>2, <2>6, <2>7 DEF AnswersTo
<1>2. CASE answer'[d] # answer[d]
  <2>1. ~Restart
    BY <1>0, <1>2 DEF Restart, Settled
  <2>2. PICK e \in Call, a \in Active \union Settled \union Errors : Telling(e, a)
    BY <1>2, <2>1, Tells
  <2>3. e = d /\ answer'[d] = a /\ call' = call /\ pc'[d] = "ended" /\ pc[d] \notin Gone
    BY <1>0, <1>2, <2>2 DEF Telling
  <2>4. SameRequest(d, d)'
    BY DEF SameRequest
  <2>5. CASE UNCHANGED status /\ \E c \in Prior(d) : status[c] = a /\ call[d].input = call[c].input
    <3>1. PICK c \in Call : /\ status[c] # "none" /\ SameRequest(d, c) /\ status'[c] = a
                            /\ call[d].input = call[c].input /\ status'[c] # "none"
      BY <2>5 DEF Prior
    <3>2. AnswersTo(c, d)'
      BY <2>3, <3>1 DEF AnswersTo, SameRequest, Key, IsChild
    <3> QED
      BY <2>3, <3>2
  <2>6. CASE status'[d] = a
    BY <2>3, <2>4, <2>6 DEF AnswersTo, Settled
  <2>7. CASE a = "outcome_unknown" /\ status[d] = "running" /\ UNCHANGED status
    BY <2>3, <2>4, <2>7 DEF AnswersTo
  <2> QED
    BY <2>2, <2>3, <2>5, <2>6, <2>7 DEF Telling
<1> QED
  BY <1>1, <1>2

\* What SameOutcome and PerformedKnown rest on.
Honest == Careful /\ Done /\ Told

\* It holds of every reachable state.
LEMMA HonestAlways == Spec => []Honest
<1>1. Init => Honest
  BY CarefulInit DEF Init, Honest, Done, Told, Settled
<1>2. Honest /\ [Next]_vars => Honest'
  BY CarefulStep, DoneStep, ToldStep DEF Honest, Careful, Exclusion
<1> QED
  BY <1>1, <1>2, PTL DEF Spec

\* All who ask about a request with its input hear the same outcome; with
\* another input nobody is told an outcome.
THEOREM Alike == Spec => []SameOutcome
<1>1. Honest => SameOutcome
  <2> SUFFICES ASSUME Honest, NEW c \in Call, NEW d \in Call, SameRequest(c, d),
                      answer[c] \in Settled, answer[d] \in Settled
               PROVE  answer[c] = answer[d] /\ call[c].input = call[d].input
    BY DEF SameOutcome
  <2>1. PICK a \in Call : AnswersTo(a, c)
    BY DEF Honest, Told
  <2>2. PICK b \in Call : AnswersTo(b, d)
    BY DEF Honest, Told
  <2>3. a = b
    BY <2>1, <2>2 DEF AnswersTo, SameRequest, Honest, Careful, Recorded
  <2> QED
    BY <2>1, <2>2, <2>3 DEF AnswersTo, Settled
<1> QED
  BY <1>1, HonestAlways, PTL

\* Of a write that was performed nobody is told that it was refused or failed.
THEOREM NotDenied == Spec => []PerformedKnown
<1>1. Honest => PerformedKnown
  <2> SUFFICES ASSUME Honest, NEW c \in performed, NEW d \in Call, SameRequest(c, d), ~IsTask(c),
                      answer[d] \in {"rejected", "failed"}
               PROVE  FALSE
    BY DEF PerformedKnown
  <2>1. c \in Call /\ status[c] \in {"running", "completed", "outcome_unknown"}
    BY DEF Honest, Careful, Exclusion, TypeOK, Done
  <2>2. PICK a \in Call : AnswersTo(a, d)
    BY DEF Honest, Told, Settled
  <2>3. a = c
    BY <2>1, <2>2 DEF AnswersTo, SameRequest, Honest, Careful, Recorded
  <2> QED
    BY <2>1, <2>2, <2>3 DEF AnswersTo
<1> QED
  BY <1>1, HonestAlways, PTL

----------------------------------------------------------------------------
(* Nested writes.                                                          *)

\* All a call belongs to has its root.
Rooted == \A c \in Call : pc[c] # "idle" => \A a \in call[c].line : call[a].root = call[c].root

\* What nobody knows of a call, or will not once its result is stored.
InDoubt(d) ==
    \/ status[d] = "outcome_unknown"
    \/ status[d] = "running" /\ pc[d] = "ended"
    \/ pc[d] = "settle" /\ result[d] = "outcome_unknown"

\* A nested write in doubt has set the flag of its root, while that still runs.
Doubted == \A d \in Call : IsChild(d) /\ InDoubt(d) => call[d].root \in uncertain \/ ~Live(call[d].root)

\* A write that has succeeded, or is about to say so, has nothing running or in
\* doubt among the writes it asked for.
Succeeds(c) == status[c] = "completed" \/ (pc[c] = "settle" /\ result[c] = "completed")
Clean ==
    \A c \in Call : Succeeds(c) =>
        \A d \in Call : d # c /\ c \in call[d].line => status[d] \notin {"running", "outcome_unknown"}

Plain == Exclusion /\ Rooted /\ Doubted /\ Clean

\* Nobody arrives with another root than its parent's.
LEMMA RootedStep == Exclusion /\ Rooted /\ [Next]_vars => Rooted'
<1> SUFFICES ASSUME Exclusion, Rooted, [Next]_vars, NEW c \in Call, pc'[c] # "idle", NEW a \in call'[c].line
             PROVE  call'[a].root = call'[c].root
  BY DEF Rooted
<1>0. TypeOK /\ Lineage /\ Shape /\ call \in [Call -> CallSet]
  BY Shapes DEF Exclusion, TypeOK, CallsOK
<1>1. CASE pc[c] # "idle"
  <2>1. call'[c] = call[c]
    BY <1>0, <1>1, Rests
  <2>2. a \in Call /\ pc[a] # "idle" /\ call[a].root = call[c].root
    BY <1>0, <1>1, <2>1 DEF Lineage, Rooted, CallSet
  <2> QED
    BY <1>0, <2>1, <2>2, Rests
<1>2. CASE pc[c] = "idle"
  <2>1. Arrives(c)
    BY <1>0, <1>2 DEF Shape, Restart, Live, Gone, Arrives, Leaves, Proceeds, Moved
  <2>2. CASE call'[c].root = c /\ call'[c].line = {c}
    BY <2>2
  <2>3. ASSUME NEW p \in Call, pc[p] = "working", call'[c].root = call[p].root, call'[c].line = call[p].line \union {c}
        PROVE  call'[a].root = call'[c].root
    <3>1. CASE a = c
      BY <3>1
    <3>2. CASE a # c
      <4>1. a \in Call /\ call[a].root = call[p].root
        BY <1>0, <2>3, <3>2 DEF Rooted, CallSet
      <4> QED
        BY <2>1, <2>3, <3>2, <4>1 DEF Arrives
    <3> QED
      BY <3>1, <3>2
  <2> QED
    BY <2>1, <2>2, <2>3 DEF Arrives
<1> QED
  BY <1>1, <1>2

\* Whoever leaves a nested write in doubt says so to its root.
LEMMA DoubtedStep == Exclusion /\ Doubted /\ [Next]_vars => Doubted'
<1> SUFFICES ASSUME Exclusion, Doubted, [Next]_vars, NEW d \in Call, IsChild(d)', InDoubt(d)'
             PROVE  (call[d].root \in uncertain \/ ~Live(call[d].root))'
  BY DEF Doubted
<1>0. TypeOK /\ Lineage /\ Shape /\ call \in [Call -> CallSet]
  BY Shapes DEF Exclusion, TypeOK, CallsOK
<1>1. pc[d] # "idle"
  <2>1. pc[d] = "idle" => status'[d] = "none" /\ pc'[d] \in {"idle", "admit"}
    BY <1>0, Rests DEF Shape, Restart, Live, Gone, Arrives, Leaves, Proceeds, Moved
  <2> QED
    BY <2>1 DEF InDoubt
<1>2. call'[d] = call[d] /\ IsChild(d)
  BY <1>0, <1>1, Rests DEF IsChild
<1>3. call[d].root \in Call /\ pc[call[d].root] # "idle" /\ ~IsTask(d)
  BY <1>0, <1>1, <1>2 DEF Lineage, TypeOK, CallsOK
<1>4. CASE Restart
  BY <1>2, <1>3, <1>4 DEF Restart, Live, Gone
<1>5. ASSUME ~Restart, InDoubt(d) PROVE (call[d].root \in uncertain \/ ~Live(call[d].root))'
  BY <1>0, <1>2, <1>3, <1>5, Rests, Settling DEF Doubted, Live, Gone
<1>6. ASSUME ~Restart, ~InDoubt(d) PROVE call[d].root \in uncertain'
  <2>1. CASE status'[d] = "outcome_unknown"
    BY <1>0, <1>6, <2>1, Settling DEF InDoubt, Active
  <2>2. CASE status'[d] = "running" /\ pc'[d] = "ended"
    <3>1. pc[d] # "ended"
      BY <1>0, <1>6, <2>2, Rests DEF InDoubt
    <3>2. DatabaseError(d) /\ Unstored(d)
      BY <1>0, <1>3, <1>6, <2>2, <3>1, Settling
    <3> QED
      BY <1>2, <3>2 DEF DatabaseError, Doubt, FailMark
  <2>3. CASE pc'[d] = "settle" /\ result'[d] = "outcome_unknown"
    <3>1. Fail(d)
      BY <1>0, <1>3, <1>6, <2>3, Results DEF InDoubt
    <3> QED
      BY <1>2, <3>1 DEF Fail, FailMark
  <2> QED
    BY <2>1, <2>2, <2>3 DEF InDoubt
<1> QED
  BY <1>2, <1>4, <1>5, <1>6

\* No write of the line of a write that has stopped working is still live.
LEMMA LineQuiet ==
    ASSUME TypeOK, Lineage, Waits, NEW c \in Call, NEW d \in Call, d # c, c \in call[d].line, Live(d)
    PROVE  pc[c] = "working" /\ Children(c) # {}
<1>1. pc[c] = "working" /\ \E e \in call[d].line : call[e].parent = c
  BY DEF Waits
<1>2. PICK e \in call[d].line : call[e].parent = c
  BY <1>1
<1>3. e \in Call /\ Live(e)
  BY <1>2 DEF Waits, Live, Gone, TypeOK, CallsOK, CallSet
<1> QED
  BY <1>1, <1>2, <1>3 DEF Children

\* A write only succeeds once what it asked for has ended and nobody doubts it.
LEMMA CleanStep == Plain /\ [Next]_vars => Clean'
<1> SUFFICES ASSUME Plain, [Next]_vars, NEW c \in Call, Succeeds(c)', NEW d \in Call, d # c, c \in call'[d].line
             PROVE  status'[d] \notin {"running", "outcome_unknown"}
  BY DEF Clean
<1>0. /\ TypeOK /\ Lineage /\ Waits /\ Shape /\ Rooted /\ Doubted /\ Clean
      /\ call \in [Call -> CallSet] /\ pc \in [Call -> Gone \union Steps]
  BY Shapes DEF Plain, Exclusion, TypeOK, CallsOK
<1>1. CASE pc[d] = "idle"
  BY <1>0, <1>1, Rests
<1>2. CASE pc[d] # "idle" /\ Succeeds(c)
  <2>1. c \in call[d].line /\ status[d] \notin {"running", "outcome_unknown"}
    BY <1>0, <1>2, Rests DEF Clean
  <2>2. pc[c] # "working"
    BY <1>0, <1>2 DEF Succeeds, TypeOK, RowsOK, Executing
  <2>3. pc[d] = "ended"
    BY <1>0, <1>2, <2>1, <2>2, LineQuiet DEF Live, Gone
  <2>4. CASE Restart
    BY <2>1, <2>4 DEF Restart, Recovered
  <2> QED
    BY <1>0, <2>1, <2>3, <2>4, Rests
<1>3. CASE pc[d] # "idle" /\ ~Succeeds(c)
  <2>1. ~Restart
    BY <1>0, <1>3 DEF Succeeds, Restart, Recovered, Live, Gone
  <2>2. status'[c] # "completed" \/ status[c] = "completed" \/ Succeeds(c)
    BY <1>0, <2>1, Settling DEF Succeeds, Active
  <2>3. pc'[c] = "settle" /\ result'[c] = "completed"
    BY <1>3, <2>2 DEF Succeeds
  <2>4. Finish(c) /\ pc[c] = "working"
    BY <1>0, <1>3, <2>3, Results DEF Succeeds
  <2>5. Children(c) = {} /\ UNCHANGED <<status, call>>
    BY <2>4 DEF Finish, rows
  <2>6. call[c].root \notin uncertain
    BY <1>0, <2>3, <2>4 DEF Finish, Resulting, TypeOK, CallsOK
  <2>7. ~Live(d) /\ pc[d] = "ended"
    BY <1>0, <1>3, <2>5, LineQuiet DEF Live, Gone
  <2>8. IsChild(d) /\ call[d].root = call[c].root
    BY <1>0, <1>3, <2>5 DEF Lineage, Rooted
  <2>9. call[c].root \in call[c].line /\ (call[c].root # c => pc[call[c].root] = "working")
    BY <1>0, <2>4 DEF Lineage, Waits, Live, Gone
  <2>10. Live(call[c].root)
    BY <2>4, <2>9 DEF Live, Gone
  <2>11. ~InDoubt(d)
    BY <1>0, <2>6, <2>8, <2>10 DEF Doubted
  <2> QED
    BY <2>5, <2>7, <2>11 DEF InDoubt
<1> QED
  BY <1>1, <1>2, <1>3

\* A write does not succeed over a nested write whose outcome nobody knows.
THEOREM NothingHidden == Spec => []UnknownNotHidden
<1>1. Init => Plain
  BY ExclusionInit, CallPositive DEF Init, Plain, Rooted, Doubted, Clean, Succeeds, InDoubt
<1>2. Plain /\ [Next]_vars => Plain'
  BY ExclusionStep, RootedStep, DoubtedStep, CleanStep DEF Plain
<1>3. Plain => UnknownNotHidden
  BY DEF Plain, Clean, Succeeds, UnknownNotHidden
<1> QED
  BY <1>1, <1>2, <1>3, PTL DEF Spec

----------------------------------------------------------------------------
(* WorkspaceWrites implements WritePromise: whatever many callers, nested  *)
(* calls, failed statements and restarts do to the ledger, the record of   *)
(* one request moves as the promise allows, and the workspace is touched   *)
(* only where it may be.                                                   *)

----------------------------------------------------------------------------
(* Only what was performed is recorded as completed.                       *)

\* Whoever is being executed, or is about to say that it succeeded, was performed.
Reached ==
    \A c \in Call : pc[c] = "working" \/ (pc[c] = "settle" /\ result[c] = "completed") => c \in performed

\* A call comes to its execution by being dispatched.
LEMMA Works ==
    ASSUME TypeOK, [Next]_vars, NEW c \in Call, pc'[c] = "working"
    PROVE  pc[c] = "working" \/ Dispatch(c)
<1> USE DEF rows, locks, flags, history, counters
<1>0. pc \in [Call -> Gone \union Steps]
  BY DEF TypeOK, CallsOK
<1>1. ASSUME NEW d \in Call, NEW s \in (Gone \union Steps) \ {"working"}, pc' = [pc EXCEPT ![d] = s]
      PROVE  pc[c] = "working"
  BY <1>0, <1>1
<1>2. ASSUME NEW d \in Call, Dispatch(d) PROVE pc[c] = "working" \/ Dispatch(c)
  BY <1>0, <1>2 DEF Dispatch, GoTo
<1>3. ASSUME NEW d \in Call, Advance(d), ~Dispatch(d)
      PROVE  \E s \in (Gone \union Steps) \ {"working"} : pc' = [pc EXCEPT ![d] = s]
  BY <1>3
  DEF Advance, ReplayRequested, TakeWriter, InheritLease, CheckPending, Insert, PrepareFails, Decide, Revalidate,
      Start, AfterStart, Check, Reject, Finish, Fail, Settle, Resulting, Return, GoTo, Gone, Steps
<1>4. ASSUME NEW d \in Call, Replay(d) \/ DatabaseError(d)
      PROVE  \E s \in (Gone \union Steps) \ {"working"} : pc' = [pc EXCEPT ![d] = s]
  BY <1>4 DEF Replay, DatabaseError, Return, GoTo, Gone, Steps
<1>5. ASSUME NEW d \in Call, Cancel(d) \/ Halt(d) PROVE UNCHANGED pc
  BY <1>5 DEF Cancel, Halt
<1>6. ASSUME NEW d \in Call, NEW k \in Kinds, NEW r \in Requests, NEW i \in Inputs, Submit(d, k, r, i)
      PROVE  pc' = [pc EXCEPT ![d] = "admit"]
  BY <1>6 DEF Submit, GoTo
<1>7. ASSUME NEW d \in Call, NEW p \in Call, SubmitChild(d, p) PROVE pc' = [pc EXCEPT ![d] = "admit"]
  BY <1>7 DEF SubmitChild, GoTo
<1>8. ASSUME Restart PROVE pc[c] = "working"
  BY <1>0, <1>8 DEF Restart, Live, Gone
<1>9. ASSUME UNCHANGED vars PROVE UNCHANGED pc
  BY <1>9 DEF vars
<1>10. "admit" \in (Gone \union Steps) \ {"working"}
  BY DEF Steps
<1> QED
  BY <1>1, <1>2, <1>3, <1>4, <1>5, <1>6, <1>7, <1>8, <1>9, <1>10 DEF Next

\* Nothing is unperformed, and a result is brought back only from an execution.
LEMMA ReachedStep == TypeOK /\ Reached /\ [Next]_vars => Reached'
<1> SUFFICES ASSUME TypeOK, Reached, [Next]_vars, NEW c \in Call,
                    pc'[c] = "working" \/ (pc'[c] = "settle" /\ result'[c] = "completed")
             PROVE  c \in performed'
  BY DEF Reached
<1>1. performed \subseteq performed'
  BY Marks DEF Dispatch
<1>2. CASE pc'[c] = "working"
  BY <1>1, <1>2, Works DEF Reached, Dispatch
<1>3. CASE pc'[c] = "settle" /\ result'[c] = "completed"
  <2>1. \/ pc[c] = "settle" /\ result[c] = "completed"
        \/ pc[c] = "working"
    BY <1>3, Results
  <2> QED
    BY <1>1, <2>1 DEF Reached
<1> QED
  BY <1>2, <1>3

\* A row is made, approved or turned down, and ends; completed if it was performed.
LEMMA RowMoves ==
    ASSUME TypeOK, Reached, [Next]_vars, NEW c \in Call
    PROVE  \/ status'[c] = status[c]
           \/ status[c] = "none" /\ status'[c] = "awaiting_approval"
           \/ status[c] = "awaiting_approval" /\ status'[c] \in {"running", "rejected"}
           \/ status[c] = "running" /\ status'[c] \in {"failed", "outcome_unknown"}
           \/ status[c] = "running" /\ status'[c] = "completed" /\ c \in performed
<1>0. /\ status[c] \in {"none"} \union Active \union Settled
      /\ pc[c] = "reject" => status[c] = "awaiting_approval"
      /\ pc[c] = "settle" => status[c] = "running" /\ result[c] \in {"completed", "failed", "outcome_unknown"}
  BY DEF TypeOK, RowsOK, CallsOK, Asking, Executing
<1>1. Shape
  BY Shapes
<1>2. CASE Restart
  BY <1>2 DEF Restart, Recovered
<1>3. CASE status[c] = "none" /\ ~Restart
  <2>1. \/ status'[c] = status[c]
        \/ \E d \in Call, s \in Steps : Proceeds(d, s) /\ status'[c] # "none"
    BY <1>1, <1>3 DEF Shape, Arrives, Leaves, OnlyRowOf, IsActive, Active
  <2>2. ASSUME NEW d \in Call, NEW s \in Steps, Proceeds(d, s), status'[c] # "none"
        PROVE  status'[c] = "awaiting_approval"
    BY <1>3, <2>2 DEF Proceeds, OnlyRowOf
  <2> QED
    BY <1>3, <2>1, <2>2
<1>4. CASE status[c] # "none" /\ ~Restart
  <2>1. \/ status'[c] = status[c] \/ status'[c] \in Active
        \/ status'[c] = "rejected" /\ pc[c] = "reject"
        \/ status'[c] = result[c] /\ pc[c] = "settle"
    BY <1>4, Settling
  <2>2. /\ status[c] \in Settled => status'[c] = status[c]
        /\ status[c] = "running" => status'[c] \notin {"none", "awaiting_approval"}
    BY <1>1, Rests, RowSteps
  <2> QED
    BY <1>0, <1>4, <2>1, <2>2 DEF Active, Reached
<1> QED
  BY <1>2, <1>3, <1>4

----------------------------------------------------------------------------
(* What the record of a request shows.                                     *)

\* The words of the promise for the states of a row; how often a request was performed.
Shown(s) == IF s = "awaiting_approval" THEN "proposed" ELSE s
Times(w) == Cardinality({c \in performed : Key(c) = w})

\* The record of a request is its one row, which alone may have been performed.
Kept ==
    \A w \in Keys :
        /\ \A c \in Call : status[c] # "none" /\ Key(c) = w =>
              OutcomeOf(w) = Shown(status[c]) /\ Times(w) = IF c \in performed THEN 1 ELSE 0
        /\ (\A c \in Call : status[c] # "none" => Key(c) # w) => OutcomeOf(w) = "none" /\ Times(w) = 0

\* Rows of one request are one row, and what was performed has one.
LEMMA KeptAlways == Careful => Kept
<1> SUFFICES ASSUME Careful, NEW w \in Keys
             PROVE  /\ \A c \in Call : status[c] # "none" /\ Key(c) = w =>
                          OutcomeOf(w) = Shown(status[c]) /\ Times(w) = IF c \in performed THEN 1 ELSE 0
                    /\ (\A c \in Call : status[c] # "none" => Key(c) # w) => OutcomeOf(w) = "none" /\ Times(w) = 0
  BY DEF Kept
<1>0. performed \subseteq Call /\ Recorded
  BY DEF Careful, Exclusion, TypeOK
<1>1. ASSUME NEW c \in Call, status[c] # "none", Key(c) = w
      PROVE  OutcomeOf(w) = Shown(status[c]) /\ Times(w) = IF c \in performed THEN 1 ELSE 0
  <2>1. RowOf(w) = {c}
    BY <1>0, <1>1 DEF Recorded, SameRequest, RowOf
  <2>2. (CHOOSE d \in {c} : TRUE) = c
    OBVIOUS
  <2>3. OutcomeOf(w) = Shown(status[c])
    BY <2>1, <2>2 DEF OutcomeOf, Shown
  <2>4. {d \in performed : Key(d) = w} = IF c \in performed THEN {c} ELSE {}
    BY <1>0, <1>1 DEF Recorded, SameRequest
  <2> QED
    BY <2>3, <2>4, FS_Singleton, FS_EmptySet DEF Times
<1>2. ASSUME \A c \in Call : status[c] # "none" => Key(c) # w
      PROVE  OutcomeOf(w) = "none" /\ Times(w) = 0
  <2>1. RowOf(w) = {} /\ {d \in performed : Key(d) = w} = {}
    BY <1>0, <1>2 DEF Recorded, RowOf
  <2> QED
    BY <2>1, FS_EmptySet DEF OutcomeOf, Times
<1> QED
  BY <1>1, <1>2

\* A step that performs nothing moves a record as the promise allows.
RecordStep(w) ==
    LET moves(from, to) == OutcomeOf(w) = from /\ OutcomeOf(w)' = to IN
    \/ OutcomeOf(w)' = OutcomeOf(w)
    \/ Times(w) = 0 /\ moves("none", "proposed")
    \/ moves("proposed", "running")
    \/ Times(w) = 0 /\ moves("proposed", "rejected")
    \/ Times(w) = 1 /\ moves("running", "completed")
    \/ moves("running", "failed")
    \/ moves("running", "outcome_unknown")

\* Which kind of step it is follows from the one row of the request.
LEMMA Records ==
    ASSUME Careful, Reached, Kept, Kept', [Next]_vars, UNCHANGED performed, NEW w \in Keys
    PROVE  RecordStep(w) /\ Times(w)' = Times(w)
<1>0. TypeOK /\ Recorded /\ Shape
  BY Shapes DEF Careful, Exclusion
<1>1. ASSUME NEW c \in Call, status[c] # "none", Key(c) = w
      PROVE  RecordStep(w) /\ Times(w)' = Times(w)
  <2>1. status'[c] # "none" /\ Key(c)' = w
    BY <1>0, <1>1, RowSteps DEF Key, IsChild
  <2>2. /\ OutcomeOf(w) = Shown(status[c]) /\ OutcomeOf(w)' = Shown(status'[c])
        /\ Times(w) = (IF c \in performed THEN 1 ELSE 0) /\ Times(w)' = Times(w)
    BY <1>1, <2>1 DEF Kept, Shown
  <2>3. status[c] = "awaiting_approval" => c \notin performed
    BY <1>0 DEF Recorded
  <2> QED
    BY <1>0, <1>1, <2>2, <2>3, RowMoves DEF Shown, RecordStep
<1>2. ASSUME NEW c \in Call, status'[c] # "none", Key(c)' = w, \A d \in Call : status[d] # "none" => Key(d) # w
      PROVE  RecordStep(w) /\ Times(w)' = Times(w)
  <2>1. status[c] = "none"
    <3>1. status[c] # "none" => Key(c) = w
      BY <1>0, <1>2, RowSteps DEF Key, IsChild
    <3> QED
      BY <1>2, <3>1
  <2>2. status'[c] = "awaiting_approval" /\ c \notin performed
    BY <1>0, <1>2, <2>1, RowMoves DEF Recorded
  <2>3. OutcomeOf(w) = "none" /\ Times(w) = 0 /\ OutcomeOf(w)' = Shown(status'[c]) /\ Times(w)' = 0
    BY <1>2, <2>2 DEF Kept, Shown
  <2> QED
    BY <2>2, <2>3 DEF Shown, RecordStep
<1>3. ASSUME \A c \in Call : status[c] # "none" => Key(c) # w, \A c \in Call : status'[c] # "none" => Key(c)' # w
      PROVE  RecordStep(w) /\ Times(w)' = Times(w)
  BY <1>3 DEF Kept, RecordStep
<1> QED
  BY <1>1, <1>2, <1>3

\* The step that performs a write does so once, while its record says that it runs.
LEMMA Performs ==
    ASSUME Careful, Done, Kept, Kept', NEW c \in Call, Dispatch(c), NEW w \in Keys
    PROVE  /\ OutcomeOf(w)' = OutcomeOf(w)
           /\ Key(c) # w => Times(w)' = Times(w)
           /\ Key(c) = w => OutcomeOf(w) = "running" /\ Times(w) = 0 /\ Times(w)' = 1
<1>0. /\ UNCHANGED <<status, call>> /\ performed' = performed \union {c} /\ status[c] = "running"
      /\ c \notin performed
  BY DEF Dispatch, rows, Careful, Exclusion, TypeOK, RowsOK, Executing, Done
<1>1. OutcomeOf(w)' = OutcomeOf(w) /\ \A d \in Call : Key(d)' = Key(d)
  BY <1>0 DEF OutcomeOf, RowOf, Key, IsChild
<1>2. CASE Key(c) = w
  BY <1>0, <1>1, <1>2 DEF Kept, Shown
<1>3. CASE Key(c) # w
  <2>1. performed \subseteq Call
    BY DEF Careful, Exclusion, TypeOK
  <2>2. {d \in performed' : Key(d)' = w} = {d \in performed : Key(d) = w}
    BY <1>0, <1>1, <1>3, <2>1
  <2> QED
    BY <1>1, <1>3, <2>2 DEF Times
<1> QED
  BY <1>1, <1>2, <1>3

\* WorkspaceWrites keeps the promise of WritePromise about every request.
THEOREM ImplementsPromise == Spec => KeepsWritePromise
<1> DEFINE outcomes == [w \in Keys |-> OutcomeOf(w)]
           counts   == [w \in Keys |-> Times(w)]
<1>1. Init => Promise!Init
  <2> SUFFICES ASSUME Init PROVE Promise!Init
    OBVIOUS
  <2>1. \A w \in Keys : RowOf(w) = {} /\ {c \in performed : Key(c) = w} = {}
    BY DEF Init, RowOf
  <2> QED
    BY <2>1, FS_EmptySet DEF Promise!Init, OutcomeOf
<1>2. ASSUME Honest, Reached, Kept, Kept', [Next]_vars
      PROVE  [Promise!Next]_<<outcomes, counts>>
  <2>0. TypeOK /\ Careful /\ Done
    BY <1>2 DEF Honest, Careful, Exclusion
  <2>1. CASE UNCHANGED performed
    <3>1. \A w \in Keys : RecordStep(w) /\ Times(w)' = Times(w)
      BY <1>2, <2>0, <2>1, Records
    <3>2. counts' = counts
      BY <3>1
    <3>3. \A w \in Keys : outcomes'[w] = outcomes[w] \/ Promise!Settle(w)
      BY <3>1
      DEF RecordStep, Times, Promise!Settle, Promise!Propose, Promise!Allow, Promise!Refuse, Promise!Complete,
          Promise!Fail, Promise!Doubt, Promise!Records
    <3> QED
      BY <3>2, <3>3 DEF Promise!Next, Promise!Record, Times
  <2>2. ASSUME NEW c \in Call, Dispatch(c) PROVE [Promise!Next]_<<outcomes, counts>>
    <3>1. \A w \in Keys : /\ OutcomeOf(w)' = OutcomeOf(w)
                          /\ Key(c) # w => Times(w)' = Times(w)
                          /\ Key(c) = w => OutcomeOf(w) = "running" /\ Times(w) = 0 /\ Times(w)' = 1
      BY <1>2, <2>0, <2>2, Performs
    <3>2. outcomes' = outcomes
      BY <3>1
    <3>3. CASE Key(c) \in Keys
      <4>1. counts' = [counts EXCEPT ![Key(c)] = 1]
        BY <3>1, <3>3
      <4>2. outcomes[Key(c)] = "running" /\ counts[Key(c)] = 0
        BY <3>1, <3>3
      <4>3. Promise!Perform(Key(c))
        BY <3>2, <4>1, <4>2 DEF Promise!Perform, Times
      <4> QED
        BY <3>3, <4>3 DEF Promise!Next
    \* No call has such a key, which nothing here needs: the step would be a stutter.
    <3>4. CASE Key(c) \notin Keys
      BY <3>1, <3>2, <3>4
    <3> QED
      BY <3>3, <3>4
  <2> QED
    BY <1>2, <2>0, <2>1, <2>2, Marks
<1>3. Spec => [](Honest /\ Reached /\ Kept)
  <2>1. Init => Reached
    BY DEF Init, Reached
  <2>2. Honest => TypeOK /\ Kept
    BY KeptAlways DEF Honest, Careful, Exclusion
  <2> QED
    BY <2>1, <2>2, ReachedStep, HonestAlways, PTL DEF Spec
<1>4. Honest /\ Reached /\ Kept /\ Kept' /\ [Next]_vars
        => [Promise!Next]_<<[w \in Keys |-> OutcomeOf(w)], [w \in Keys |-> Cardinality({c \in performed : Key(c) = w})]>>
  BY <1>2 DEF Times
<1> QED
  BY <1>1, <1>3, <1>4, PTL DEF Spec, KeepsWritePromise, Promise!Spec
=============================================================================
