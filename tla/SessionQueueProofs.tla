------------------------- MODULE SessionQueueProofs -------------------------
(***************************************************************************)
(* Proofs about SessionQueue, for any number of messages, goals and wakes, *)
(* any offer of commands, and a provider that may or may not end its turns *)
(* before it answers:                                                      *)
(*   - the type invariant (TypeCorrect);                                   *)
(*   - a message is handed to the provider at most once (NeverTwice).      *)
(* AtMostOnce is not inductive: HandedOnce adds what the queue gate, the   *)
(* claim of a row and the phases of a turn contribute.  Each step lemma    *)
(* has one step per action, in the order in which Next lists them.         *)
(***************************************************************************)
EXTENDS SessionQueue, TLAPS

----------------------------------------------------------------------------
(* Numbers and the record of the queue gate.                               *)

\* 0, "no turn", is not the number of a turn.
LEMMA TurnPositive == 0 \notin Turn
  BY DEF Turn

\* 0, "no message", is not the number of a message.
LEMMA MessagePositive == 0 \notin Msg
  BY DEF Msg

\* Whatever a step writes into the gate is a value of the gate's type, at the
\* place it names.
LEMMA GateMoves ==
    /\ FreeGate \in GateSet /\ FreeGate.pc = "idle"
    /\ \A op \in GateOps, pc \in GatePcs, m \in Msg \union {0} :
          Hold(op, pc, m) => gate' \in GateSet /\ gate'.pc = pc
    /\ gate \in GateSet =>
          /\ \A pc \in GatePcs : At(pc) => gate' \in GateSet /\ gate'.pc = pc
          /\ \A pc \in GatePcs, t \in Turn \union {0} :
                Facing(pc, t) => gate' \in GateSet /\ gate'.pc = pc
          /\ \A t \in Turn : Reaches(t) => gate' \in GateSet /\ gate'.pc = "control"
          /\ \A a \in Answers : Answered(a) => gate' \in GateSet /\ gate'.pc = "answered"
<1>1. FreeGate \in GateSet /\ FreeGate.pc = "idle"
    BY DEF GateSet, GateOps, GatePcs, Answers, FreeGate
<1>2. ASSUME NEW op \in GateOps, NEW pc \in GatePcs, NEW m \in Msg \union {0}, Hold(op, pc, m)
      PROVE  gate' \in GateSet /\ gate'.pc = pc
    BY <1>2 DEF GateSet, Answers, FreeGate, Hold
<1>3. ASSUME gate \in GateSet, NEW pc \in GatePcs, At(pc)
      PROVE  gate' \in GateSet /\ gate'.pc = pc
    BY <1>3 DEF GateSet, At
<1>4. ASSUME gate \in GateSet, NEW pc \in GatePcs, NEW t \in Turn \union {0}, Facing(pc, t)
      PROVE  gate' \in GateSet /\ gate'.pc = pc
    BY <1>4 DEF GateSet, Facing
<1>5. ASSUME gate \in GateSet, NEW a \in Answers, Answered(a)
      PROVE  gate' \in GateSet /\ gate'.pc = "answered"
    BY <1>5 DEF GateSet, GatePcs, Answered
<1>6. ASSUME gate \in GateSet, NEW t \in Turn, Reaches(t)
      PROVE  gate' \in GateSet /\ gate'.pc = "control"
    BY <1>6 DEF GateSet, GatePcs, Reaches
<1> QED
    BY <1>1, <1>2, <1>3, <1>4, <1>5, <1>6

\* What each way of writing the gate leaves in its fields: only taking and
\* leaving the gate change whose operation and message it is.
LEMMA GateFields ==
    /\ FreeGate.pc = "idle"
    /\ \A op, pc, m : Hold(op, pc, m) => gate'.pc = pc /\ gate'.op = op /\ gate'.msg = m
    /\ gate \in GateSet =>
          /\ \A pc : At(pc) => gate'.pc = pc /\ gate'.op = gate.op /\ gate'.msg = gate.msg /\ gate'.answer = gate.answer
          /\ \A pc, t : Facing(pc, t) => gate'.pc = pc /\ gate'.op = gate.op /\ gate'.msg = gate.msg
          /\ \A t : Reaches(t) => gate'.pc = "control" /\ gate'.op = gate.op /\ gate'.msg = gate.msg
          /\ \A a : Answered(a) => gate'.pc = "answered" /\ gate'.op = gate.op /\ gate'.msg = gate.msg /\ gate'.answer = a
<1>1. FreeGate.pc = "idle"
    BY DEF FreeGate
<1>2. ASSUME NEW op, NEW pc, NEW m, Hold(op, pc, m)
      PROVE  gate'.pc = pc /\ gate'.op = op /\ gate'.msg = m
    BY <1>2 DEF FreeGate, Hold
<1>3. ASSUME gate \in GateSet, NEW pc, At(pc)
      PROVE  gate'.pc = pc /\ gate'.op = gate.op /\ gate'.msg = gate.msg /\ gate'.answer = gate.answer
    BY <1>3 DEF GateSet, At
<1>4. ASSUME gate \in GateSet, NEW pc, NEW t, Facing(pc, t)
      PROVE  gate'.pc = pc /\ gate'.op = gate.op /\ gate'.msg = gate.msg
    BY <1>4 DEF GateSet, Facing
<1>5. ASSUME gate \in GateSet, NEW a, Answered(a)
      PROVE  gate'.pc = "answered" /\ gate'.op = gate.op /\ gate'.msg = gate.msg /\ gate'.answer = a
    BY <1>5 DEF GateSet, Answered
<1>6. ASSUME gate \in GateSet, NEW t, Reaches(t)
      PROVE  gate'.pc = "control" /\ gate'.op = gate.op /\ gate'.msg = gate.msg
    BY <1>6 DEF GateSet, Reaches
<1> QED
    BY <1>1, <1>2, <1>3, <1>4, <1>5, <1>6

----------------------------------------------------------------------------
(* The type invariant.                                                     *)

\* Initially every column and every in-memory value is one the code uses.
LEMMA TypeInit == Init => TypeOK
<1> SUFFICES ASSUME Init PROVE TypeOK
    OBVIOUS
<1>1. RowsOK
    BY DEF Init, RowsOK, MsgStates, RowStates
<1>2. SessionOK /\ TurnsOK
    BY DEF Init, SessionOK, TurnsOK, Startable
<1>3. LiveOK /\ cancelled \in SUBSET Turn
    BY DEF Init, LiveOK, TaskPcs
<1>4. LocksOK
    BY GateMoves DEF Init, LocksOK, FreeAdm, AdmSet, NoStop, StopSet, StopPcs
<1>5. wakes \in 0..MaxWakes
    BY ConstantsAssumption DEF Init
<1> QED
    BY <1>1, <1>2, <1>3, <1>4, <1>5 DEF TypeOK

\* Every step of the session keeps them so.
LEMMA TypeStep == TypeOK /\ [Next]_vars => TypeOK'
<1> SUFFICES ASSUME TypeOK, [Next]_vars PROVE TypeOK'
    OBVIOUS
<1>1. ASSUME NEW m \in Msg, FollowUp(m) PROVE TypeOK'
  <2>1. RowsOK'
      BY <1>1
      DEF FollowUp, Enqueue, SetRow, TypeOK, rowVars, RowsOK, MsgStates, RowStates
  <2>2. wakes' \in 0..MaxWakes
      BY <1>1, ConstantsAssumption
      DEF FollowUp, Scheduled, TypeOK
  <2>3. SessionOK' /\ TurnsOK' /\ LiveOK' /\ LocksOK' /\ cancelled' \in SUBSET Turn
      BY <1>1
      DEF FollowUp, turnVars, TypeOK, SessionOK, TurnsOK, LiveOK, LocksOK
  <2> QED
      BY <2>1, <2>2, <2>3 DEF TypeOK
<1>2. ASSUME NEW m \in Msg, Steer(m) PROVE TypeOK'
  <2>1. RowsOK'
      BY <1>2
      DEF Steer, Enqueue, SetRow, TypeOK, rowVars, RowsOK, MsgStates, RowStates
  <2>2. LocksOK'
      BY <1>2, GateMoves
      DEF Steer, GateFree, GateOps, GatePcs, AdmSet, TypeOK, LocksOK
  <2>3.
        SessionOK' /\ TurnsOK' /\ LiveOK' /\ cancelled' \in SUBSET Turn /\ wakes' \in 0..MaxWakes
      BY <1>2
      DEF Steer, turnVars, TypeOK, SessionOK, TurnsOK, LiveOK
  <2> QED
      BY <2>1, <2>2, <2>3 DEF TypeOK
<1>3. ASSUME NEW m \in Msg, SendNow(m) PROVE TypeOK'
  <2>1. LocksOK'
      BY <1>3, GateMoves
      DEF SendNow, GateFree, GateOps, GatePcs, AdmSet, durable, TypeOK, LocksOK
  <2>2.
        RowsOK' /\ SessionOK' /\ TurnsOK' /\ LiveOK' /\ cancelled' \in SUBSET Turn /\ wakes' \in 0..MaxWakes
      BY <1>3
      DEF SendNow, durable, rowVars, turnVars, TypeOK, RowsOK, SessionOK, TurnsOK, LiveOK
  <2> QED
      BY <2>1, <2>2 DEF TypeOK
<1>4. ASSUME NEW m \in Msg, Send(m) PROVE TypeOK'
  <2>1. LocksOK'
      BY <1>4, GateMoves
      DEF Send, GateFree, GateOps, GatePcs, AdmSet, durable, TypeOK, LocksOK
  <2>2.
        RowsOK' /\ SessionOK' /\ TurnsOK' /\ LiveOK' /\ cancelled' \in SUBSET Turn /\ wakes' \in 0..MaxWakes
      BY <1>4
      DEF Send, durable, rowVars, turnVars, TypeOK, RowsOK, SessionOK, TurnsOK, LiveOK
  <2> QED
      BY <2>1, <2>2 DEF TypeOK
<1>5. ASSUME NEW m \in Msg, Remove(m) PROVE TypeOK'
  <2>1. RowsOK'
      BY <1>5
      DEF Remove, Withdraw, TypeOK, rowVars, RowsOK, MsgStates, RowStates
  <2>2.
        SessionOK' /\ TurnsOK' /\ LiveOK' /\ LocksOK' /\ cancelled' \in SUBSET Turn /\ wakes' \in 0..MaxWakes
      BY <1>5
      DEF Remove, Withdraw, turnVars, volatile, TypeOK, SessionOK, TurnsOK, LiveOK, LocksOK
  <2> QED
      BY <2>1, <2>2 DEF TypeOK
<1>6. ASSUME NEW op \in {"stop", "close", "archive"}, StopBegin(op) PROVE TypeOK'
  <2>1. LocksOK'
      BY <1>6
      DEF StopBegin, StopSet, StopPcs, NoStop, Stopping, TypeOK, LocksOK
  <2>2.
        RowsOK' /\ SessionOK' /\ TurnsOK' /\ LiveOK' /\ cancelled' \in SUBSET Turn /\ wakes' \in 0..MaxWakes
      BY <1>6
      DEF StopBegin, Stopping, rowVars, turnVars, TypeOK, RowsOK, SessionOK, TurnsOK, LiveOK
  <2> QED
      BY <2>1, <2>2 DEF TypeOK
<1>7. CASE Clear
  <2>1. RowsOK'
      BY <1>7
      DEF Clear, Withdraw, TypeOK, rowVars, RowsOK, MsgStates, RowStates
  <2>2.
        SessionOK' /\ TurnsOK' /\ LiveOK' /\ LocksOK' /\ cancelled' \in SUBSET Turn /\ wakes' \in 0..MaxWakes
      BY <1>7
      DEF Clear, Withdraw, turnVars, volatile, TypeOK, SessionOK, TurnsOK, LiveOK, LocksOK
  <2> QED
      BY <2>1, <2>2 DEF TypeOK
<1>8. CASE ResumeCheck
  <2>1. LocksOK'
      BY <1>8, GateMoves
      DEF ResumeCheck, GateFree, GateOps, GatePcs, AdmSet, durable, TypeOK, LocksOK
  <2>2.
        RowsOK' /\ SessionOK' /\ TurnsOK' /\ LiveOK' /\ cancelled' \in SUBSET Turn /\ wakes' \in 0..MaxWakes
      BY <1>8
      DEF ResumeCheck, durable, rowVars, turnVars, TypeOK, RowsOK, SessionOK, TurnsOK,
          LiveOK
  <2> QED
      BY <2>1, <2>2 DEF TypeOK
<1>9. CASE Goal
  <2>1. LocksOK'
      BY <1>9
      DEF Goal, AdmSet, AdmFree, durable, TypeOK, LocksOK
  <2>2.
        RowsOK' /\ SessionOK' /\ TurnsOK' /\ LiveOK' /\ cancelled' \in SUBSET Turn /\ wakes' \in 0..MaxWakes
      BY <1>9
      DEF Goal, durable, rowVars, turnVars, TypeOK, RowsOK, SessionOK, TurnsOK, LiveOK
  <2> QED
      BY <2>1, <2>2 DEF TypeOK
<1>10. CASE Unarchive
  <2>1. SessionOK'
      BY <1>10
      DEF Unarchive, Startable, Stopping, TypeOK, SessionOK
  <2>2.
        RowsOK' /\ TurnsOK' /\ LiveOK' /\ LocksOK' /\ cancelled' \in SUBSET Turn /\ wakes' \in 0..MaxWakes
      BY <1>10
      DEF Unarchive, Stopping, rowVars, turnVars, TypeOK, RowsOK, TurnsOK, LiveOK, LocksOK
  <2> QED
      BY <2>1, <2>2 DEF TypeOK
<1>11. CASE Wake
  <2>1. LocksOK'
      BY <1>11, GateMoves
      DEF Wake, GateFree, GateOps, GatePcs, AdmSet, durable, TypeOK, LocksOK
  <2>2. wakes' \in 0..MaxWakes
      BY <1>11, ConstantsAssumption
      DEF Wake, durable, TypeOK
  <2>3. RowsOK' /\ SessionOK' /\ TurnsOK' /\ LiveOK' /\ cancelled' \in SUBSET Turn
      BY <1>11
      DEF Wake, durable, rowVars, turnVars, TypeOK, RowsOK, SessionOK, TurnsOK, LiveOK
  <2> QED
      BY <2>1, <2>2, <2>3 DEF TypeOK
<1>12. CASE SendAdmit
  <2>1. RowsOK'
      BY <1>12
      DEF SendAdmit, Enqueue, SetRow, TypeOK, rowVars, RowsOK, MsgStates, RowStates
  <2>2. LocksOK'
      BY <1>12, GateMoves
      DEF SendAdmit, AdmFree, GatePcs, AdmSet, FreeAdm, TypeOK, LocksOK
  <2>3. wakes' \in 0..MaxWakes
      BY <1>12, ConstantsAssumption
      DEF SendAdmit, Scheduled, TypeOK
  <2>4. SessionOK' /\ TurnsOK' /\ LiveOK' /\ cancelled' \in SUBSET Turn
      BY <1>12
      DEF SendAdmit, turnVars, TypeOK, SessionOK, TurnsOK, LiveOK
  <2> QED
      BY <2>1, <2>2, <2>3, <2>4 DEF TypeOK
<1>13. CASE InvokeIdle
  <2>1. SessionOK'
      BY <1>13
      DEF InvokeIdle, Startable, TypeOK, SessionOK
  <2>2. LocksOK'
      BY <1>13, GateMoves
      DEF InvokeIdle, Answers, TypeOK, LocksOK
  <2>3.
        RowsOK' /\ TurnsOK' /\ LiveOK' /\ cancelled' \in SUBSET Turn /\ wakes' \in 0..MaxWakes
      BY <1>13
      DEF InvokeIdle, turnVars, rowVars, TypeOK, RowsOK, TurnsOK, LiveOK
  <2> QED
      BY <2>1, <2>2, <2>3 DEF TypeOK
<1>14. CASE StartAdmit
  <2>1. RowsOK'
      BY <1>14
      DEF StartAdmit, FailQueued, Restate, Delivering, TypeOK, rowVars, RowsOK, MsgStates,
          RowStates
  <2>2. SessionOK'
      BY <1>14
      DEF StartAdmit, FailQueued, Delivering, TypeOK, SessionOK
  <2>3. LocksOK'
      <3>1. stop' = stop
          BY <1>14 DEF StartAdmit, Delivering
      <3>2. CASE gate' = FreeGate /\ adm' = adm
          BY <1>14, <3>1, <3>2, GateMoves DEF StartAdmit, AdmFree, AdmSet, TypeOK, LocksOK
      <3>3. CASE gate' = gate /\ adm' = [by |-> "gate", pc |-> "open"]
          BY <1>14, <3>1, <3>3 DEF StartAdmit, AdmSet, TypeOK, LocksOK
      <3> QED
          BY <1>14, <3>2, <3>3 DEF StartAdmit
  <2>4. TurnsOK' /\ LiveOK' /\ cancelled' \in SUBSET Turn /\ wakes' \in 0..MaxWakes
      BY <1>14
      DEF StartAdmit, Delivering, turnVars, TypeOK, TurnsOK, LiveOK
  <2> QED
      BY <2>1, <2>2, <2>3, <2>4 DEF TypeOK
<1>15. CASE ResumeApply
  <2>1. RowsOK'
      BY <1>15
      DEF ResumeApply, Retried, TypeOK, rowVars, RowsOK, MsgStates, RowStates
  <2>2. SessionOK'
      BY <1>15
      DEF ResumeApply, TypeOK, SessionOK
  <2>3. LocksOK'
      BY <1>15, GateMoves
      DEF ResumeApply, TypeOK, LocksOK
  <2>4. wakes' \in 0..MaxWakes
      BY <1>15, ConstantsAssumption
      DEF ResumeApply, Scheduled, TypeOK
  <2>5. TurnsOK' /\ LiveOK' /\ cancelled' \in SUBSET Turn
      BY <1>15
      DEF ResumeApply, turnVars, TypeOK, TurnsOK, LiveOK
  <2> QED
      BY <2>1, <2>2, <2>3, <2>4, <2>5 DEF TypeOK
<1>16. CASE ReadRefused
  <2>1. RowsOK'
      BY <1>16
      DEF ReadRefused, DeliveryError, FailQueued, Restate, Delivering, TypeOK, rowVars,
          RowsOK, MsgStates, RowStates
  <2>2. SessionOK'
      BY <1>16
      DEF ReadRefused, DeliveryError, FailQueued, Delivering, TypeOK, SessionOK
  <2>3. LocksOK'
      BY <1>16, GateMoves
      DEF ReadRefused, DeliveryError, Delivering, TypeOK, LocksOK
  <2>4. TurnsOK' /\ LiveOK' /\ cancelled' \in SUBSET Turn /\ wakes' \in 0..MaxWakes
      BY <1>16
      DEF ReadRefused, Delivering, turnVars, TypeOK, TurnsOK, LiveOK
  <2> QED
      BY <2>1, <2>2, <2>3, <2>4 DEF TypeOK
<1>17. CASE ReadLive
  <2>1. RowsOK'
      BY <1>17
      DEF ReadLive, DeliveryError, FailQueued, Restate, Delivering, TypeOK, rowVars, RowsOK,
          MsgStates, RowStates
  <2>2. SessionOK'
      BY <1>17
      DEF ReadLive, DeliveryError, FailQueued, Delivering, TypeOK, SessionOK
  <2>3. LocksOK'
      BY <1>17, GateMoves
      DEF ReadLive, DeliveryError, GatePcs, LiveOK, Delivering, TypeOK, LocksOK
  <2>4. TurnsOK' /\ LiveOK' /\ cancelled' \in SUBSET Turn /\ wakes' \in 0..MaxWakes
      BY <1>17
      DEF ReadLive, Delivering, turnVars, TypeOK, TurnsOK, LiveOK
  <2> QED
      BY <2>1, <2>2, <2>3, <2>4 DEF TypeOK
<1>18. CASE Awaited
  <2>1. LocksOK'
      BY <1>18, GateMoves
      DEF Awaited, GatePcs, durable, TypeOK, LocksOK
  <2>2.
        RowsOK' /\ SessionOK' /\ TurnsOK' /\ LiveOK' /\ cancelled' \in SUBSET Turn /\ wakes' \in 0..MaxWakes
      BY <1>18
      DEF Awaited, durable, rowVars, turnVars, TypeOK, RowsOK, SessionOK, TurnsOK, LiveOK
  <2> QED
      BY <2>1, <2>2 DEF TypeOK
<1>19. CASE MarkSteer
  <2>1. RowsOK'
      BY <1>19
      DEF MarkSteer, SetRow, LocksOK, GateSet, TypeOK, rowVars, RowsOK, MsgStates, RowStates
  <2>2. LocksOK'
      BY <1>19, GateMoves
      DEF MarkSteer, GatePcs, TypeOK, LocksOK
  <2>3.
        SessionOK' /\ TurnsOK' /\ LiveOK' /\ cancelled' \in SUBSET Turn /\ wakes' \in 0..MaxWakes
      BY <1>19
      DEF MarkSteer, turnVars, TypeOK, SessionOK, TurnsOK, LiveOK
  <2> QED
      BY <2>1, <2>2, <2>3 DEF TypeOK
<1>20. CASE Invoke
  <2>1. LocksOK'
      BY <1>20, GateMoves
      DEF Invoke, Answers, LiveOK, durable, TypeOK, LocksOK
  <2>2.
        RowsOK' /\ SessionOK' /\ TurnsOK' /\ LiveOK' /\ cancelled' \in SUBSET Turn /\ wakes' \in 0..MaxWakes
      BY <1>20
      DEF Invoke, durable, rowVars, turnVars, TypeOK, RowsOK, SessionOK, TurnsOK, LiveOK
  <2> QED
      BY <2>1, <2>2 DEF TypeOK
<1>21. CASE Control
  <2>1. RowsOK'
      <3>1. rowVars' = rowVars
          BY <1>21 DEF Control, durable, rowVars
      <3>2. copies' = copies \/ copies' = [copies EXCEPT ![gate.msg] = @ + 1]
          BY <1>21 DEF Control
      <3>3. copies' \in [Msg -> Nat]
          BY <3>2 DEF TypeOK, RowsOK
      <3> QED
          BY <3>1, <3>3 DEF TypeOK, RowsOK, rowVars
  <2>2. LocksOK'
      BY <1>21, GateMoves
      DEF Control, Answers, durable, TypeOK, LocksOK
  <2>3.
        SessionOK' /\ TurnsOK' /\ LiveOK' /\ cancelled' \in SUBSET Turn /\ wakes' \in 0..MaxWakes
      BY <1>21
      DEF Control, durable, rowVars, turnVars, TypeOK, SessionOK, TurnsOK, LiveOK
  <2> QED
      BY <2>1, <2>2, <2>3 DEF TypeOK
<1>22. CASE Conclude
  <2>1. RowsOK'
      BY <1>22
      DEF Conclude, SetRow, FailQueued, Restate, Delivering, TypeOK, rowVars, RowsOK,
          MsgStates, RowStates
  <2>2. SessionOK'
      BY <1>22
      DEF Conclude, FailQueued, Delivering, TypeOK, SessionOK
  <2>3. LocksOK'
      BY <1>22, GateMoves
      DEF Conclude, GatePcs, Delivering, TypeOK, LocksOK
  <2>4. TurnsOK' /\ LiveOK' /\ cancelled' \in SUBSET Turn /\ wakes' \in 0..MaxWakes
      BY <1>22
      DEF Conclude, Delivering, turnVars, TypeOK, TurnsOK, LiveOK
  <2> QED
      BY <2>1, <2>2, <2>3, <2>4 DEF TypeOK
<1>23. CASE Drained
  <2>1. LocksOK'
      BY <1>23, GateMoves
      DEF Drained, GatePcs, durable, TypeOK, LocksOK
  <2>2.
        RowsOK' /\ SessionOK' /\ TurnsOK' /\ LiveOK' /\ cancelled' \in SUBSET Turn /\ wakes' \in 0..MaxWakes
      BY <1>23
      DEF Drained, durable, rowVars, turnVars, TypeOK, RowsOK, SessionOK, TurnsOK, LiveOK
  <2> QED
      BY <2>1, <2>2 DEF TypeOK
<1>24. CASE Open
  <2>1. RowsOK'
      BY <1>24
      DEF Open, Abort, FailQueued, Restate, TypeOK, rowVars, RowsOK, MsgStates, RowStates
  <2>2. SessionOK'
      BY <1>24
      DEF Open, Abort, FailQueued, Startable, TypeOK, SessionOK
  <2>3. LocksOK'
      <3>1. CASE Abort
          BY <1>24, <3>1, GateMoves DEF Open, Abort, Freed, FreeAdm, AdmSet, TypeOK, LocksOK
      <3>2. CASE adm' = [adm EXCEPT !.pc = "commit"] /\ gate' = gate
          BY <1>24, <3>2 DEF Open, AdmSet, TypeOK, LocksOK
      <3> QED
          BY <1>24, <3>1, <3>2 DEF Open
  <2>4. TurnsOK' /\ LiveOK' /\ cancelled' \in SUBSET Turn /\ wakes' \in 0..MaxWakes
      BY <1>24
      DEF Open, turnVars, TypeOK, TurnsOK, LiveOK
  <2> QED
      BY <2>1, <2>2, <2>3, <2>4 DEF TypeOK
<1>25. CASE Claim
  <2>1. RowsOK'
      BY <1>25
      DEF Claim, SetRow, TypeOK, rowVars, RowsOK, MsgStates, RowStates
  <2>2. SessionOK'
      BY <1>25
      DEF Claim, Startable, TypeOK, SessionOK
  <2>3. TurnsOK'
      BY <1>25
      DEF Claim, LocksOK, GateSet, TypeOK, TurnsOK
  <2>4. LiveOK'
      BY <1>25, TurnPositive
      DEF Claim, TaskPcs, Interactive, Settling, TypeOK, LiveOK
  <2>5. LocksOK'
      BY <1>25, GateMoves
      DEF Claim, FreeAdm, AdmSet, TypeOK, LocksOK
  <2>6. cancelled' \in SUBSET Turn /\ wakes' \in 0..MaxWakes
      BY <1>25
      DEF Claim, TypeOK
  <2> QED
      BY <2>1, <2>2, <2>3, <2>4, <2>5, <2>6 DEF TypeOK
<1>26. CASE NotIdle
  <2>1. RowsOK'
      BY <1>26
      DEF NotIdle, Abort, FailQueued, Restate, TypeOK, rowVars, RowsOK, MsgStates, RowStates
  <2>2. SessionOK'
      BY <1>26
      DEF NotIdle, Abort, FailQueued, TypeOK, SessionOK
  <2>3. LocksOK'
      BY <1>26, GateMoves
      DEF NotIdle, Abort, Freed, FreeAdm, AdmSet, TypeOK, LocksOK
  <2>4. TurnsOK' /\ LiveOK' /\ cancelled' \in SUBSET Turn /\ wakes' \in 0..MaxWakes
      BY <1>26
      DEF NotIdle, turnVars, TypeOK, TurnsOK, LiveOK
  <2> QED
      BY <2>1, <2>2, <2>3, <2>4 DEF TypeOK
<1>27. CASE TaskInvoke
  <2>1. LiveOK'
      BY <1>27
      DEF TaskInvoke, TaskPcs, Interactive, Settling, durable, TypeOK, LiveOK
  <2>2.
        RowsOK' /\ SessionOK' /\ TurnsOK' /\ LocksOK' /\ cancelled' \in SUBSET Turn /\ wakes' \in 0..MaxWakes
      BY <1>27
      DEF TaskInvoke, durable, rowVars, turnVars, TypeOK, RowsOK, SessionOK, TurnsOK,
          LocksOK
  <2> QED
      BY <2>1, <2>2 DEF TypeOK
<1>28. CASE MarkSent
  <2>1. TurnsOK'
      BY <1>28
      DEF MarkSent, PossiblySent, Elsewhere, TypeOK, TurnsOK
  <2>2. LiveOK'
      BY <1>28
      DEF MarkSent, TaskPcs, Interactive, Settling, Elsewhere, TypeOK, LiveOK
  <2>3.
        RowsOK' /\ SessionOK' /\ LocksOK' /\ cancelled' \in SUBSET Turn /\ wakes' \in 0..MaxWakes
      BY <1>28
      DEF MarkSent, Elsewhere, rowVars, TypeOK, RowsOK, SessionOK, LocksOK
  <2> QED
      BY <2>1, <2>2, <2>3 DEF TypeOK
<1>29. CASE Dispatch
  <2>1. RowsOK'
      BY <1>29
      DEF Dispatch, durable, Elsewhere, TypeOK, rowVars, RowsOK, MsgStates, RowStates
  <2>2. LiveOK'
      BY <1>29
      DEF Dispatch, TaskPcs, Interactive, Settling, durable, Elsewhere, TypeOK, LiveOK
  <2>3.
        SessionOK' /\ TurnsOK' /\ LocksOK' /\ cancelled' \in SUBSET Turn /\ wakes' \in 0..MaxWakes
      BY <1>29
      DEF Dispatch, durable, rowVars, turnVars, Elsewhere, TypeOK, SessionOK, TurnsOK,
          LocksOK
  <2> QED
      BY <2>1, <2>2, <2>3 DEF TypeOK
<1>30. CASE NativeStart
  <2>1. SessionOK'
      BY <1>30
      DEF NativeStart, Event, Startable, Elsewhere, TypeOK, SessionOK
  <2>2. TurnsOK'
      BY <1>30
      DEF NativeStart, Event, Elsewhere, TypeOK, TurnsOK
  <2>3. LiveOK'
      BY <1>30
      DEF NativeStart, Event, TaskPcs, Interactive, Settling, Elsewhere, TypeOK, LiveOK
  <2>4. RowsOK' /\ LocksOK' /\ cancelled' \in SUBSET Turn /\ wakes' \in 0..MaxWakes
      BY <1>30
      DEF NativeStart, Event, Elsewhere, rowVars, TypeOK, RowsOK, LocksOK
  <2> QED
      BY <2>1, <2>2, <2>3, <2>4 DEF TypeOK
<1>31. CASE Acknowledge
  <2>1. RowsOK'
      BY <1>31
      DEF Acknowledge, Acknowledged, Elsewhere, TypeOK, rowVars, RowsOK, MsgStates,
          RowStates
  <2>2. LiveOK'
      BY <1>31
      DEF Acknowledge, TaskPcs, Interactive, Settling, Elsewhere, TypeOK, LiveOK
  <2>3.
        SessionOK' /\ TurnsOK' /\ LocksOK' /\ cancelled' \in SUBSET Turn /\ wakes' \in 0..MaxWakes
      BY <1>31
      DEF Acknowledge, turnVars, Elsewhere, TypeOK, SessionOK, TurnsOK, LocksOK
  <2> QED
      BY <2>1, <2>2, <2>3 DEF TypeOK
<1>32. CASE Terminal
  <2>1. SessionOK'
      BY <1>32
      DEF Terminal, Event, Startable, Terminals, Elsewhere, TypeOK, SessionOK
  <2>2. TurnsOK'
      BY <1>32
      DEF Terminal, Event, Terminals, Elsewhere, TypeOK, TurnsOK
  <2>3. LiveOK'
      BY <1>32
      DEF Terminal, Event, TaskPcs, Interactive, Settling, Elsewhere, TypeOK, LiveOK
  <2>4. RowsOK' /\ LocksOK' /\ cancelled' \in SUBSET Turn /\ wakes' \in 0..MaxWakes
      BY <1>32
      DEF Terminal, Event, Elsewhere, rowVars, TypeOK, RowsOK, LocksOK
  <2> QED
      BY <2>1, <2>2, <2>3, <2>4 DEF TypeOK
<1>33. CASE Reply
  <2>1. TurnsOK'
      BY <1>33
      DEF Reply, Elsewhere, TypeOK, TurnsOK
  <2>2. LiveOK'
      BY <1>33
      DEF Reply, TaskPcs, Interactive, Settling, Elsewhere, TypeOK, LiveOK
  <2>3.
        RowsOK' /\ SessionOK' /\ LocksOK' /\ cancelled' \in SUBSET Turn /\ wakes' \in 0..MaxWakes
      BY <1>33
      DEF Reply, Elsewhere, rowVars, TypeOK, RowsOK, SessionOK, LocksOK
  <2> QED
      BY <2>1, <2>2, <2>3 DEF TypeOK
<1>34. CASE HostTerminal
  <2>1. SessionOK'
      BY <1>34
      DEF HostTerminal, Startable, Elsewhere, TypeOK, SessionOK
  <2>2. TurnsOK'
      BY <1>34
      DEF HostTerminal, Terminals, Elsewhere, TypeOK, TurnsOK
  <2>3. LiveOK'
      BY <1>34
      DEF HostTerminal, TaskPcs, Interactive, Settling, Elsewhere, TypeOK, LiveOK
  <2>4. RowsOK' /\ LocksOK' /\ cancelled' \in SUBSET Turn /\ wakes' \in 0..MaxWakes
      BY <1>34
      DEF HostTerminal, Elsewhere, rowVars, TypeOK, RowsOK, LocksOK
  <2> QED
      BY <2>1, <2>2, <2>3, <2>4 DEF TypeOK
<1>35. CASE SettleQueue
  <2>1. RowsOK'
      BY <1>35
      DEF SettleQueue, Unacknowledged, Elsewhere, TypeOK, rowVars, RowsOK, MsgStates,
          RowStates
  <2>2. SessionOK'
      BY <1>35
      DEF SettleQueue, TurnPauses, Unacknowledged, Elsewhere, TypeOK, SessionOK
  <2>3. LiveOK'
      BY <1>35
      DEF SettleQueue, TaskPcs, Interactive, Settling, Elsewhere, TypeOK, LiveOK
  <2>4. TurnsOK' /\ LocksOK' /\ cancelled' \in SUBSET Turn /\ wakes' \in 0..MaxWakes
      BY <1>35
      DEF SettleQueue, turnVars, Elsewhere, TypeOK, TurnsOK, LocksOK
  <2> QED
      BY <2>1, <2>2, <2>3, <2>4 DEF TypeOK
<1>36. CASE Release
  <2>1. LiveOK'
      BY <1>36
      DEF Release, TaskPcs, Interactive, Settling, durable, Elsewhere, TypeOK, LiveOK
  <2>2. wakes' \in 0..MaxWakes
      BY <1>36, ConstantsAssumption
      DEF Release, Scheduled, durable, Elsewhere, TypeOK
  <2>3. RowsOK' /\ SessionOK' /\ TurnsOK' /\ LocksOK' /\ cancelled' \in SUBSET Turn
      BY <1>36
      DEF Release, durable, rowVars, turnVars, Elsewhere, TypeOK, RowsOK, SessionOK,
          TurnsOK, LocksOK
  <2> QED
      BY <2>1, <2>2, <2>3 DEF TypeOK
<1>37. CASE StopLook
  <2>1. LocksOK'
      BY <1>37
      DEF StopLook, StopSet, StopPcs, AdmFree, AdmSet, Stopping, TypeOK, LocksOK
  <2>2.
        RowsOK' /\ SessionOK' /\ TurnsOK' /\ LiveOK' /\ cancelled' \in SUBSET Turn /\ wakes' \in 0..MaxWakes
      BY <1>37
      DEF StopLook, Stopping, rowVars, turnVars, TypeOK, RowsOK, SessionOK, TurnsOK, LiveOK
  <2> QED
      BY <2>1, <2>2 DEF TypeOK
<1>38. CASE StopAdmit
  <2>1. LocksOK'
      BY <1>38
      DEF StopAdmit, StopSet, StopPcs, AdmFree, AdmSet, Stopping, TypeOK, LocksOK
  <2>2.
        RowsOK' /\ SessionOK' /\ TurnsOK' /\ LiveOK' /\ cancelled' \in SUBSET Turn /\ wakes' \in 0..MaxWakes
      BY <1>38
      DEF StopAdmit, Stopping, rowVars, turnVars, TypeOK, RowsOK, SessionOK, TurnsOK, LiveOK
  <2> QED
      BY <2>1, <2>2 DEF TypeOK
<1>39. CASE StopRead
  <2>1. LocksOK'
      BY <1>39
      DEF StopRead, StopSet, StopPcs, LiveOK, Stopping, TypeOK, LocksOK
  <2>2.
        RowsOK' /\ SessionOK' /\ TurnsOK' /\ LiveOK' /\ cancelled' \in SUBSET Turn /\ wakes' \in 0..MaxWakes
      BY <1>39
      DEF StopRead, Stopping, rowVars, turnVars, TypeOK, RowsOK, SessionOK, TurnsOK, LiveOK
  <2> QED
      BY <2>1, <2>2 DEF TypeOK
<1>40. CASE StopFlag
  <2>1. SessionOK'
      BY <1>40
      DEF StopFlag, Stopping, TypeOK, SessionOK
  <2>2. LocksOK'
      <3>1. adm' \in AdmSet /\ gate' = gate /\ (adm'.by = "gate" => adm.by = "gate")
          BY <1>40 DEF StopFlag, AfterCancel, FreeAdm, AdmSet, Stopping, TypeOK, LocksOK
      <3>2. \/ stop' = [stop EXCEPT !.pc = "drain", !.run = 0]
            \/ stop' = NoStop
            \/ stop' = [stop EXCEPT !.pc = "admit", !.run = 0]
          BY <1>40 DEF StopFlag
      <3>3. stop' \in StopSet
        <4>1. \A pc \in StopPcs : [stop EXCEPT !.pc = pc, !.run = 0] \in StopSet
            BY DEF StopSet, TypeOK, LocksOK
        <4>2. NoStop \in StopSet
            BY DEF StopSet, StopPcs, NoStop
        <4> QED
            BY <3>2, <4>1, <4>2 DEF StopPcs
      <3> QED
          BY <3>1, <3>3 DEF TypeOK, LocksOK
  <2>3. cancelled' \in SUBSET Turn
      BY <1>40
      DEF StopFlag, LocksOK, StopSet, Stopping, TypeOK
  <2>4. RowsOK' /\ TurnsOK' /\ LiveOK' /\ wakes' \in 0..MaxWakes
      BY <1>40
      DEF StopFlag, Stopping, rowVars, turnVars, TypeOK, RowsOK, TurnsOK, LiveOK
  <2> QED
      BY <2>1, <2>2, <2>3, <2>4 DEF TypeOK
<1>41. CASE StopClose
  <2>1. SessionOK'
      BY <1>41
      DEF StopClose, Stopping, TypeOK, SessionOK
  <2>2. LocksOK'
      BY <1>41
      DEF StopClose, StopSet, StopPcs, NoStop, FreeAdm, AdmSet, Stopping, TypeOK, LocksOK
  <2>3.
        RowsOK' /\ TurnsOK' /\ LiveOK' /\ cancelled' \in SUBSET Turn /\ wakes' \in 0..MaxWakes
      BY <1>41
      DEF StopClose, Stopping, rowVars, turnVars, TypeOK, RowsOK, TurnsOK, LiveOK
  <2> QED
      BY <2>1, <2>2, <2>3 DEF TypeOK
<1>42. CASE StopArchive
  <2>1. SessionOK'
      BY <1>42
      DEF StopArchive, Stopping, TypeOK, SessionOK
  <2>2. LocksOK'
      BY <1>42
      DEF StopArchive, StopSet, StopPcs, NoStop, FreeAdm, AdmSet, Stopping, TypeOK, LocksOK
  <2>3.
        RowsOK' /\ TurnsOK' /\ LiveOK' /\ cancelled' \in SUBSET Turn /\ wakes' \in 0..MaxWakes
      BY <1>42
      DEF StopArchive, Stopping, rowVars, turnVars, TypeOK, RowsOK, TurnsOK, LiveOK
  <2> QED
      BY <2>1, <2>2, <2>3 DEF TypeOK
<1>43. CASE DrainTimeout
  <2>1. RowsOK'
      BY <1>43
      DEF DrainTimeout, DeliveryError, FailQueued, Restate, Delivering, TypeOK, rowVars,
          RowsOK, MsgStates, RowStates
  <2>2. SessionOK'
      BY <1>43
      DEF DrainTimeout, DeliveryError, FailQueued, Delivering, TypeOK, SessionOK
  <2>3. LocksOK'
      BY <1>43, GateMoves
      DEF DrainTimeout, DeliveryError, Delivering, TypeOK, LocksOK
  <2>4. TurnsOK' /\ LiveOK' /\ cancelled' \in SUBSET Turn /\ wakes' \in 0..MaxWakes
      BY <1>43
      DEF DrainTimeout, Delivering, turnVars, TypeOK, TurnsOK, LiveOK
  <2> QED
      BY <2>1, <2>2, <2>3, <2>4 DEF TypeOK
<1>44. CASE Ask
  <2>1. SessionOK'
      BY <1>44
      DEF Ask, Event, Startable, Elsewhere, TypeOK, SessionOK
  <2>2. TurnsOK'
      BY <1>44
      DEF Ask, Event, Elsewhere, TypeOK, TurnsOK
  <2>3.
        RowsOK' /\ LiveOK' /\ LocksOK' /\ cancelled' \in SUBSET Turn /\ wakes' \in 0..MaxWakes
      BY <1>44
      DEF Ask, Event, Elsewhere, rowVars, TypeOK, RowsOK, LiveOK, LocksOK
  <2> QED
      BY <2>1, <2>2, <2>3 DEF TypeOK
<1>45. CASE Resolve
  <2>1. SessionOK'
      BY <1>45
      DEF Resolve, Event, Startable, Elsewhere, TypeOK, SessionOK
  <2>2. TurnsOK'
      BY <1>45
      DEF Resolve, Event, Elsewhere, TypeOK, TurnsOK
  <2>3.
        RowsOK' /\ LiveOK' /\ LocksOK' /\ cancelled' \in SUBSET Turn /\ wakes' \in 0..MaxWakes
      BY <1>45
      DEF Resolve, Event, Elsewhere, rowVars, TypeOK, RowsOK, LiveOK, LocksOK
  <2> QED
      BY <2>1, <2>2, <2>3 DEF TypeOK
<1>46. CASE Fail
  <2>1. LiveOK'
      BY <1>46
      DEF Fail, TaskPcs, Interactive, Settling, durable, TypeOK, LiveOK
  <2>2.
        RowsOK' /\ SessionOK' /\ TurnsOK' /\ LocksOK' /\ cancelled' \in SUBSET Turn /\ wakes' \in 0..MaxWakes
      BY <1>46
      DEF Fail, durable, rowVars, turnVars, TypeOK, RowsOK, SessionOK, TurnsOK, LocksOK
  <2> QED
      BY <2>1, <2>2 DEF TypeOK
<1>47. CASE StopTimeout
  <2>1. LocksOK'
      BY <1>47
      DEF StopTimeout, StopSet, StopPcs, NoStop, FreeAdm, AdmSet, Stopping, TypeOK, LocksOK
  <2>2.
        RowsOK' /\ SessionOK' /\ TurnsOK' /\ LiveOK' /\ cancelled' \in SUBSET Turn /\ wakes' \in 0..MaxWakes
      BY <1>47
      DEF StopTimeout, Stopping, rowVars, turnVars, TypeOK, RowsOK, SessionOK, TurnsOK,
          LiveOK
  <2> QED
      BY <2>1, <2>2 DEF TypeOK
<1>48. CASE Restart
  <2>1. RowsOK'
      BY <1>48
      DEF Restart, Recovered, TypeOK, rowVars, RowsOK, MsgStates, RowStates
  <2>2. SessionOK'
      BY <1>48
      DEF Restart, Recoverable, Startable, TypeOK, SessionOK
  <2>3. TurnsOK'
      BY <1>48
      DEF Restart, Recoverable, Terminals, TypeOK, TurnsOK
  <2>4. LiveOK'
      BY <1>48
      DEF Restart, TaskPcs, Interactive, Settling, TypeOK, LiveOK
  <2>5. LocksOK'
      BY <1>48, GateMoves
      DEF Restart, FreeAdm, AdmSet, NoStop, StopSet, StopPcs, TypeOK, LocksOK
  <2>6. cancelled' \in SUBSET Turn
      BY <1>48
      DEF Restart, TypeOK
  <2>7. wakes' \in 0..MaxWakes
      BY <1>48, ConstantsAssumption
      DEF Restart, TypeOK
  <2> QED
      BY <2>1, <2>2, <2>3, <2>4, <2>5, <2>6, <2>7 DEF TypeOK
<1>49. CASE UNCHANGED vars
      BY <1>49
      DEF vars, durable, volatile, rowVars, turnVars, TypeOK, RowsOK, SessionOK, TurnsOK, LiveOK,
          LocksOK
<1> QED
      BY <1>1, <1>2, <1>3, <1>4, <1>5, <1>6, <1>7, <1>8, <1>9, <1>10, <1>11, <1>12, <1>13,
         <1>14, <1>15, <1>16, <1>17, <1>18, <1>19, <1>20, <1>21, <1>22, <1>23, <1>24, <1>25,
         <1>26, <1>27, <1>28, <1>29, <1>30, <1>31, <1>32, <1>33, <1>34, <1>35, <1>36, <1>37,
         <1>38, <1>39, <1>40, <1>41, <1>42, <1>43, <1>44, <1>45, <1>46, <1>47, <1>48, <1>49
      DEF Next, UserStep, QueueLocks, QueueStep, AdmissionStep, TaskStep, StopLocks, StopStep

\* In every reachable state every table column and every in-memory value is one
\* the code uses, the live map agrees with the spawned task, and a start for a
\* row happens under the queue gate (session_queue.rs, session_host.rs).
THEOREM TypeCorrect == Spec => []TypeOK
<1>1. Init => TypeOK
    BY TypeInit
<1>2. TypeOK /\ [Next]_vars => TypeOK'
    BY TypeStep
<1> QED
    BY <1>1, <1>2, PTL DEF Spec

----------------------------------------------------------------------------
(* At most one delivery.                                                   *)

\* Initially nothing has been submitted, carried or handed over.
LEMMA HandedInit == Init => HandedOnce
  BY DEF Init, HandedOnce, AtMostOnce, Unheard, Carried, Undispatched, SteerHolds, StartHolds,
         FreeGate, Steering, Deliverable

\* Every step keeps the reasons why a message is handed over at most once.
LEMMA HandedStep == TypeOK /\ HandedOnce /\ [Next]_vars => HandedOnce'
<1> SUFFICES ASSUME TypeOK, HandedOnce, [Next]_vars, TypeOK' PROVE HandedOnce'
    BY TypeStep
<1>0. gate \in GateSet /\ (adm.by = "gate" => gate.pc = "start") /\ (live = 0 <=> task = "none")
    BY DEF TypeOK, LocksOK, LiveOK
<1>1. ASSUME NEW m \in Msg, FollowUp(m) PROVE HandedOnce'
      BY <1>0, <1>1
      DEF FollowUp, Enqueue, SetRow, turnVars, GateFree, IsNextMsg, TypeOK, RowsOK, TurnsOK,
          Deliverable, Steering, HandedOnce, AtMostOnce, Unheard, Carried, Undispatched,
          SteerHolds, StartHolds
<1>2. ASSUME NEW m \in Msg, Steer(m) PROVE HandedOnce'
      BY <1>0, <1>2, GateFields
      DEF Steer, Enqueue, SetRow, turnVars, GateFree, IsNextMsg, TypeOK, RowsOK, TurnsOK,
          Deliverable, Steering, HandedOnce, AtMostOnce, Unheard, Carried, Undispatched,
          SteerHolds, StartHolds
<1>3. ASSUME NEW m \in Msg, SendNow(m) PROVE HandedOnce'
      BY <1>0, <1>3, GateFields
      DEF SendNow, durable, rowVars, turnVars, GateFree, TypeOK, RowsOK, TurnsOK,
          Deliverable, Steering, HandedOnce, AtMostOnce, Unheard, Carried, Undispatched,
          SteerHolds, StartHolds
<1>4. ASSUME NEW m \in Msg, Send(m) PROVE HandedOnce'
      BY <1>0, <1>4, GateFields
      DEF Send, durable, rowVars, turnVars, GateFree, IsNextMsg, TypeOK, RowsOK, TurnsOK,
          Deliverable, Steering, HandedOnce, AtMostOnce, Unheard, Carried, Undispatched,
          SteerHolds, StartHolds
<1>5. ASSUME NEW m \in Msg, Remove(m) PROVE HandedOnce'
      BY <1>0, <1>5
      DEF Remove, Withdraw, turnVars, volatile, GateFree, RowStates, TypeOK, RowsOK,
          TurnsOK, Deliverable, Steering, HandedOnce, AtMostOnce, Unheard, Carried,
          Undispatched, SteerHolds, StartHolds
<1>6. ASSUME NEW op \in {"stop", "close", "archive"}, StopBegin(op) PROVE HandedOnce'
      BY <1>0, <1>6
      DEF StopBegin, Stopping, rowVars, turnVars, TypeOK, RowsOK, TurnsOK, Deliverable,
          Steering, HandedOnce, AtMostOnce, Unheard, Carried, Undispatched, SteerHolds,
          StartHolds
<1>7. CASE Clear
      BY <1>0, <1>7
      DEF Clear, Withdraw, turnVars, volatile, GateFree, RowStates, TypeOK, RowsOK, TurnsOK,
          Deliverable, Steering, HandedOnce, AtMostOnce, Unheard, Carried, Undispatched,
          SteerHolds, StartHolds
<1>8. CASE ResumeCheck
      BY <1>0, <1>8, GateFields
      DEF ResumeCheck, durable, rowVars, turnVars, GateFree, TypeOK, RowsOK, TurnsOK,
          Deliverable, Steering, HandedOnce, AtMostOnce, Unheard, Carried, Undispatched,
          SteerHolds, StartHolds
<1>9. CASE Goal
      BY <1>0, <1>9, GateFields
      DEF Goal, durable, rowVars, turnVars, TypeOK, RowsOK, TurnsOK, Deliverable, Steering,
          HandedOnce, AtMostOnce, Unheard, Carried, Undispatched, SteerHolds, StartHolds
<1>10. CASE Unarchive
      BY <1>0, <1>10
      DEF Unarchive, Stopping, rowVars, turnVars, TypeOK, RowsOK, TurnsOK, Deliverable,
          Steering, HandedOnce, AtMostOnce, Unheard, Carried, Undispatched, SteerHolds,
          StartHolds
<1>11. CASE Wake
      BY <1>0, <1>11, GateFields
      DEF Wake, durable, rowVars, turnVars, GateFree, TypeOK, RowsOK, TurnsOK, Deliverable,
          Steering, HandedOnce, AtMostOnce, Unheard, Carried, Undispatched, SteerHolds,
          StartHolds
<1>12. CASE SendAdmit
      BY <1>0, <1>12, GateFields
      DEF SendAdmit, Enqueue, SetRow, turnVars, rowVars, FreeGate, TypeOK, RowsOK, TurnsOK,
          Deliverable, Steering, HandedOnce, AtMostOnce, Unheard, Carried, Undispatched,
          SteerHolds, StartHolds
<1>13. CASE InvokeIdle
      BY <1>0, <1>13, GateFields
      DEF InvokeIdle, turnVars, rowVars, TypeOK, RowsOK, TurnsOK, Deliverable, Steering,
          HandedOnce, AtMostOnce, Unheard, Carried, Undispatched, SteerHolds, StartHolds
<1>14. CASE StartAdmit
      BY <1>0, <1>14, GateFields
      DEF StartAdmit, FailQueued, Restate, rowVars, Delivering, turnVars, TypeOK, RowsOK,
          TurnsOK, Deliverable, Steering, HandedOnce, AtMostOnce, Unheard, Carried,
          Undispatched, SteerHolds, StartHolds
<1>15. CASE ResumeApply
      BY <1>0, <1>15, GateFields
      DEF ResumeApply, Retried, turnVars, TypeOK, RowsOK, TurnsOK, Deliverable, Steering,
          HandedOnce, AtMostOnce, Unheard, Carried, Undispatched, SteerHolds, StartHolds
<1>16. CASE ReadRefused
      BY <1>0, <1>16, GateFields
      DEF ReadRefused, DeliveryError, FailQueued, Restate, rowVars, Delivering, turnVars,
          TypeOK, RowsOK, TurnsOK, Deliverable, Steering, HandedOnce, AtMostOnce, Unheard,
          Carried, Undispatched, SteerHolds, StartHolds
<1>17. CASE ReadLive
      BY <1>0, <1>17, GateFields
      DEF ReadLive, DeliveryError, FailQueued, Restate, rowVars, Delivering, turnVars,
          TypeOK, RowsOK, TurnsOK, Deliverable, Steering, HandedOnce, AtMostOnce, Unheard,
          Carried, Undispatched, SteerHolds, StartHolds
<1>18. CASE Awaited
      BY <1>0, <1>18, GateFields
      DEF Awaited, durable, rowVars, turnVars, TypeOK, RowsOK, TurnsOK, Deliverable,
          Steering, HandedOnce, AtMostOnce, Unheard, Carried, Undispatched, SteerHolds,
          StartHolds
<1>19. CASE MarkSteer
  <2>1. /\ gate.pc = "mark" /\ gate'.pc = "invoke" /\ gate'.msg = gate.msg /\ gate'.op = gate.op
        /\ gate.msg \in Msg /\ status[gate.msg] \in Deliverable /\ gate.op # "send"
      BY <1>0, <1>19, GateFields DEF MarkSteer, HandedOnce, StartHolds
  <2>2. /\ status' = [status EXCEPT ![gate.msg] = "sending"]
        /\ via' = [via EXCEPT ![gate.msg] = "steer"]
        /\ carries' = carries /\ copies' = copies /\ live' = live /\ task' = task
      BY <1>19 DEF MarkSteer, SetRow, turnVars
  <2>3. SteerHolds'
      BY <2>1, <2>2, MessagePositive
      DEF TypeOK, RowsOK, TurnsOK, HandedOnce, SteerHolds, Unheard, Carried, Deliverable
  <2> QED
      BY <2>1, <2>2, <2>3
      DEF TypeOK, RowsOK, TurnsOK, HandedOnce, AtMostOnce, Unheard, Carried, Undispatched, StartHolds,
          Deliverable
<1>20. CASE Invoke
  <2>1. Reaches(live) \/ Answered("finished")
      BY <1>20 DEF Invoke
  <2>2. /\ gate'.op = gate.op /\ gate'.msg = gate.msg
        /\ \/ gate'.pc = "control"
           \/ gate'.pc = "answered" /\ gate'.answer = "finished"
      BY <1>0, <2>1, GateFields
  <2> QED
      BY <1>20, <2>2
      DEF Invoke, durable, rowVars, turnVars, Steering, HandedOnce, AtMostOnce, Unheard, Carried,
          Undispatched, SteerHolds, StartHolds
<1>21. CASE Control
      BY <1>0, <1>21, GateFields
      DEF Control, durable, rowVars, turnVars, BeforeSend, TypeOK, RowsOK, TurnsOK,
          Deliverable, Steering, HandedOnce, AtMostOnce, Unheard, Carried, Undispatched,
          SteerHolds, StartHolds
<1>22. CASE Conclude
  <2> DEFINE m == gate.msg
  <2>1. /\ m \in Msg /\ status[m] \in {"sending", "uncertain"} /\ \A t \in Turn : carries[t] # m
        /\ gate.op # "send"
        /\ gate.answer \notin {"ok", "lost"} => copies[m] = 0
      BY <1>22 DEF Conclude, Steering, HandedOnce, SteerHolds, StartHolds
  <2>2. carries' = carries /\ copies' = copies /\ live' = live /\ task' = task
      BY <1>22 DEF Conclude, Delivering, turnVars
  <2>3. \/ status' = [status EXCEPT ![m] = "gone"] /\ gate' = FreeGate
        \/ /\ status' = [status EXCEPT ![m] = "pending"] /\ At("drain")
           /\ gate.answer = "finished"
        \/ status' = [status EXCEPT ![m] = "uncertain"] /\ gate' = FreeGate
      BY <1>22 DEF Conclude, SetRow, FailQueued, Restate, HostError, SteeringRejection
  <2>4. \A n \in Msg : n # m => status'[n] = status[n]
      BY <2>3 DEF TypeOK, RowsOK
  <2>5. CASE gate' = FreeGate /\ \E s \in {"gone", "uncertain"} : status' = [status EXCEPT ![m] = s]
    <3>1. gate'.pc = "idle" /\ status'[m] \in {"gone", "uncertain"}
        BY <2>1, <2>5, GateFields DEF TypeOK, RowsOK
    <3> QED
        BY <2>1, <2>2, <2>4, <3>1
        DEF TypeOK, TurnsOK, Deliverable, Steering, HandedOnce, AtMostOnce, Unheard, Carried,
            Undispatched, SteerHolds, StartHolds
  <2>6. CASE At("drain") /\ gate.answer = "finished" /\ status' = [status EXCEPT ![m] = "pending"]
    <3>1. /\ gate'.pc = "drain" /\ gate'.msg = m /\ gate'.op = gate.op
          /\ status'[m] = "pending" /\ copies[m] = 0
        BY <1>0, <2>1, <2>6, GateFields DEF TypeOK, RowsOK
    <3> QED
        BY <2>1, <2>2, <2>4, <3>1
        DEF TypeOK, TurnsOK, Deliverable, Steering, HandedOnce, AtMostOnce, Unheard, Carried,
            Undispatched, SteerHolds, StartHolds
  <2> QED
      BY <2>3, <2>5, <2>6
<1>23. CASE Drained
      BY <1>0, <1>23, GateFields
      DEF Drained, durable, rowVars, turnVars, TypeOK, RowsOK, TurnsOK, Deliverable,
          Steering, HandedOnce, AtMostOnce, Unheard, Carried, Undispatched, SteerHolds,
          StartHolds
<1>24. CASE Open
      BY <1>0, <1>24, GateFields
      DEF Open, Abort, FailQueued, Restate, rowVars, turnVars, TypeOK, RowsOK, TurnsOK,
          Deliverable, Steering, HandedOnce, AtMostOnce, Unheard, Carried, Undispatched,
          SteerHolds, StartHolds
<1>25. CASE Claim
  <2>1. PICK t \in Turn :
            /\ carries' = [carries EXCEPT ![t] = IF adm.by = "gate" THEN gate.msg ELSE 0]
            /\ live' = t
            /\ \/ adm.by = "gate" /\ \E s \in {"sending", "gone"} : status' = [status EXCEPT ![gate.msg] = s]
               \/ adm.by = "goal" /\ status' = status /\ via' = via
      BY <1>25 DEF Claim, SetRow, rowVars
  <2>2. /\ copies' = copies /\ live' # 0
        /\ gate' = IF adm.by = "gate" THEN FreeGate ELSE gate
      BY <1>25, <2>1, TurnPositive DEF Claim
  <2>3. CASE adm.by = "gate"
    <3>1. gate.msg \in Msg /\ copies[gate.msg] = 0 /\ gate'.pc = "idle"
        BY <1>0, <2>2, <2>3, GateFields DEF HandedOnce, StartHolds, Unheard
    <3>2. /\ status'[gate.msg] \in {"sending", "gone"}
          /\ \A n \in Msg : n # gate.msg => status'[n] = status[n]
        BY <2>1, <2>3, <3>1 DEF TypeOK, RowsOK
    <3>3. carries'[t] = gate.msg /\ \A u \in Turn : u # t => carries'[u] = carries[u]
        BY <2>1, <2>3 DEF TypeOK, TurnsOK
    <3> QED
        BY <2>1, <2>2, <3>1, <3>2, <3>3
        DEF TypeOK, TurnsOK, Deliverable, Steering, HandedOnce, AtMostOnce, Unheard, Carried,
            Undispatched, SteerHolds, StartHolds
  <2>4. CASE adm.by = "goal"
    <3>1. carries'[t] = 0 /\ \A u \in Turn : u # t => carries'[u] = carries[u]
        BY <2>1, <2>4 DEF TypeOK, TurnsOK
    <3> QED
        BY <2>1, <2>2, <2>4, <3>1, MessagePositive
        DEF Steering, HandedOnce, AtMostOnce, Unheard, Carried, Undispatched, SteerHolds, StartHolds
  <2> QED
      BY <2>1, <2>3, <2>4
<1>26. CASE NotIdle
      BY <1>0, <1>26, GateFields
      DEF NotIdle, Abort, FailQueued, Restate, rowVars, turnVars, TypeOK, RowsOK, TurnsOK,
          Deliverable, Steering, HandedOnce, AtMostOnce, Unheard, Carried, Undispatched,
          SteerHolds, StartHolds
<1>27. CASE TaskInvoke
      BY <1>0, <1>27
      DEF TaskInvoke, durable, rowVars, turnVars, BeforeSend, TypeOK, RowsOK, TurnsOK,
          Deliverable, Steering, HandedOnce, AtMostOnce, Unheard, Carried, Undispatched,
          SteerHolds, StartHolds
<1>28. CASE MarkSent
      BY <1>0, <1>28
      DEF MarkSent, Elsewhere, rowVars, BeforeSend, TypeOK, RowsOK, TurnsOK, Deliverable,
          Steering, HandedOnce, AtMostOnce, Unheard, Carried, Undispatched, SteerHolds,
          StartHolds
<1>29. CASE Dispatch
  <2>1. /\ live # 0 /\ task = "marked" /\ task' = "sent"
        /\ status' = status /\ via' = via /\ carries' = carries /\ gate' = gate
        /\ copies' = [m \in Msg |-> IF m = carries[live] THEN copies[m] + 1 ELSE copies[m]]
      BY <1>0, <1>29 DEF Dispatch, durable, rowVars, turnVars
  <2>2. /\ \A m \in Msg : m # carries[live] => copies'[m] = copies[m]
        /\ carries[live] \in Msg => copies'[carries[live]] = 1
      BY <2>1, MessagePositive DEF HandedOnce, Undispatched, BeforeSend
  <2>3. carries[live] \in Msg => status[carries[live]] \notin Deliverable \union {"unsent"}
      BY <2>1, MessagePositive DEF TypeOK, LiveOK, HandedOnce, Carried, Deliverable
  <2>4. SteerHolds'
      BY <2>1, <2>2, MessagePositive
      DEF TypeOK, LiveOK, Steering, HandedOnce, SteerHolds, StartHolds
  <2> QED
      BY <2>1, <2>2, <2>3, <2>4
      DEF HandedOnce, AtMostOnce, Unheard, Carried, Undispatched, StartHolds, BeforeSend
<1>30. CASE NativeStart
      BY <1>0, <1>30
      DEF NativeStart, Event, Elsewhere, rowVars, BeforeSend, TypeOK, RowsOK, TurnsOK,
          Deliverable, Steering, HandedOnce, AtMostOnce, Unheard, Carried, Undispatched,
          SteerHolds, StartHolds
<1>31. CASE Acknowledge
      BY <1>0, <1>31
      DEF Acknowledge, Acknowledged, turnVars, Elsewhere, BeforeSend, TypeOK, RowsOK,
          TurnsOK, Deliverable, Steering, HandedOnce, AtMostOnce, Unheard, Carried,
          Undispatched, SteerHolds, StartHolds
<1>32. CASE Terminal
      BY <1>0, <1>32
      DEF Terminal, Event, Elsewhere, rowVars, BeforeSend, TypeOK, RowsOK, TurnsOK,
          Deliverable, Steering, HandedOnce, AtMostOnce, Unheard, Carried, Undispatched,
          SteerHolds, StartHolds
<1>33. CASE Reply
      BY <1>0, <1>33
      DEF Reply, Elsewhere, rowVars, BeforeSend, TypeOK, RowsOK, TurnsOK, Deliverable,
          Steering, HandedOnce, AtMostOnce, Unheard, Carried, Undispatched, SteerHolds,
          StartHolds
<1>34. CASE HostTerminal
      BY <1>0, <1>34
      DEF HostTerminal, Elsewhere, rowVars, BeforeSend, TypeOK, RowsOK, TurnsOK,
          Deliverable, Steering, HandedOnce, AtMostOnce, Unheard, Carried, Undispatched,
          SteerHolds, StartHolds
<1>35. CASE SettleQueue
      BY <1>0, <1>35
      DEF SettleQueue, Unacknowledged, turnVars, Elsewhere, BeforeSend, TypeOK, RowsOK,
          TurnsOK, Deliverable, Steering, HandedOnce, AtMostOnce, Unheard, Carried,
          Undispatched, SteerHolds, StartHolds
<1>36. CASE Release
      BY <1>0, <1>36
      DEF Release, durable, rowVars, turnVars, Elsewhere, TypeOK, RowsOK, TurnsOK,
          Deliverable, Steering, HandedOnce, AtMostOnce, Unheard, Carried, Undispatched,
          SteerHolds, StartHolds
<1>37. CASE StopLook
      BY <1>0, <1>37
      DEF StopLook, Stopping, rowVars, turnVars, TypeOK, RowsOK, TurnsOK, Deliverable,
          Steering, HandedOnce, AtMostOnce, Unheard, Carried, Undispatched, SteerHolds,
          StartHolds
<1>38. CASE StopAdmit
      BY <1>0, <1>38
      DEF StopAdmit, Stopping, rowVars, turnVars, TypeOK, RowsOK, TurnsOK, Deliverable,
          Steering, HandedOnce, AtMostOnce, Unheard, Carried, Undispatched, SteerHolds,
          StartHolds
<1>39. CASE StopRead
      BY <1>0, <1>39
      DEF StopRead, Stopping, rowVars, turnVars, TypeOK, RowsOK, TurnsOK, Deliverable,
          Steering, HandedOnce, AtMostOnce, Unheard, Carried, Undispatched, SteerHolds,
          StartHolds
<1>40. CASE StopFlag
      BY <1>0, <1>40
      DEF StopFlag, Stopping, rowVars, turnVars, TypeOK, RowsOK, TurnsOK, Deliverable,
          Steering, HandedOnce, AtMostOnce, Unheard, Carried, Undispatched, SteerHolds,
          StartHolds
<1>41. CASE StopClose
      BY <1>0, <1>41
      DEF StopClose, Stopping, rowVars, turnVars, TypeOK, RowsOK, TurnsOK, Deliverable,
          Steering, HandedOnce, AtMostOnce, Unheard, Carried, Undispatched, SteerHolds,
          StartHolds
<1>42. CASE StopArchive
      BY <1>0, <1>42
      DEF StopArchive, Stopping, rowVars, turnVars, TypeOK, RowsOK, TurnsOK, Deliverable,
          Steering, HandedOnce, AtMostOnce, Unheard, Carried, Undispatched, SteerHolds,
          StartHolds
<1>43. CASE DrainTimeout
      BY <1>0, <1>43, GateFields
      DEF DrainTimeout, DeliveryError, FailQueued, Restate, rowVars, Delivering, turnVars,
          TypeOK, RowsOK, TurnsOK, Deliverable, Steering, HandedOnce, AtMostOnce, Unheard,
          Carried, Undispatched, SteerHolds, StartHolds
<1>44. CASE Ask
      BY <1>0, <1>44
      DEF Ask, Event, Elsewhere, rowVars, TypeOK, RowsOK, TurnsOK, Deliverable, Steering,
          HandedOnce, AtMostOnce, Unheard, Carried, Undispatched, SteerHolds, StartHolds
<1>45. CASE Resolve
      BY <1>0, <1>45
      DEF Resolve, Event, Elsewhere, rowVars, TypeOK, RowsOK, TurnsOK, Deliverable,
          Steering, HandedOnce, AtMostOnce, Unheard, Carried, Undispatched, SteerHolds,
          StartHolds
<1>46. CASE Fail
      BY <1>0, <1>46
      DEF Fail, durable, rowVars, turnVars, BeforeSend, TypeOK, RowsOK, TurnsOK,
          Deliverable, Steering, HandedOnce, AtMostOnce, Unheard, Carried, Undispatched,
          SteerHolds, StartHolds
<1>47. CASE StopTimeout
      BY <1>0, <1>47
      DEF StopTimeout, Stopping, rowVars, turnVars, TypeOK, RowsOK, TurnsOK, Deliverable,
          Steering, HandedOnce, AtMostOnce, Unheard, Carried, Undispatched, SteerHolds,
          StartHolds
<1>48. CASE Restart
      BY <1>0, <1>48, GateFields
      DEF Restart, Recovered, TypeOK, RowsOK, TurnsOK, Deliverable, Steering, HandedOnce,
          AtMostOnce, Unheard, Carried, Undispatched, SteerHolds, StartHolds
<1>49. CASE UNCHANGED vars
      BY <1>49
      DEF vars, durable, volatile, rowVars, turnVars, HandedOnce, AtMostOnce, Unheard, Carried, Undispatched, SteerHolds, StartHolds
<1> QED
      BY <1>1, <1>2, <1>3, <1>4, <1>5, <1>6, <1>7, <1>8, <1>9, <1>10, <1>11, <1>12, <1>13,
         <1>14, <1>15, <1>16, <1>17, <1>18, <1>19, <1>20, <1>21, <1>22, <1>23, <1>24, <1>25,
         <1>26, <1>27, <1>28, <1>29, <1>30, <1>31, <1>32, <1>33, <1>34, <1>35, <1>36, <1>37,
         <1>38, <1>39, <1>40, <1>41, <1>42, <1>43, <1>44, <1>45, <1>46, <1>47, <1>48, <1>49
      DEF Next, UserStep, QueueLocks, QueueStep, AdmissionStep, TaskStep, StopLocks, StopStep

\* The provider is handed a message at most once, as a turn or as steering,
\* whatever is lost, retried, stopped or restarted: deliver_queued, run_admitted,
\* settle_queue_turn and recover_interrupted_sessions together.
THEOREM NeverTwice == Spec => []AtMostOnce
<1>1. Init => HandedOnce
    BY HandedInit
<1>2. TypeOK /\ HandedOnce /\ [Next]_vars => HandedOnce'
    BY HandedStep
<1>3. HandedOnce => AtMostOnce
    BY DEF HandedOnce
<1> QED
    BY <1>1, <1>2, <1>3, TypeCorrect, PTL DEF Spec
=============================================================================
