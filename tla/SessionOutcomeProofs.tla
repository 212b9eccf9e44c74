----------------------- MODULE SessionOutcomeProofs -----------------------
(***************************************************************************)
(* More about SessionQueue, for every value of the constants: who may be   *)
(* inside a session at the same time (Places), what is left of a turn when *)
(* its task is over (Ended), who answers for a claimed row (Claims) and    *)
(* what was handed over (Heard); from all that, that the queue implements  *)
(* MessageFate; that no wake-up is lost (Attended), when the queue stays   *)
(* paused, and in which order messages reach the provider (InTurn).  Each  *)
(* step lemma has one step per action, in the order in which Next lists    *)
(* them.                                                                   *)
(***************************************************************************)
EXTENDS SessionQueueProofs

----------------------------------------------------------------------------
(* Who writes what.                                                        *)

\* The steps that move a call at the session gate, a stop, or the session itself.
LEMMA PlacesMove ==
    ASSUME [Next]_vars
    PROVE
        \/ UNCHANGED <<adm, stop, session, archived, live>>
        \/ Goal \/ Unarchive \/ SendAdmit \/ InvokeIdle \/ StartAdmit \/ Open \/ Claim
        \/ NotIdle \/ Terminal \/ HostTerminal \/ Release \/ StopLook \/ StopAdmit \/ StopRead
        \/ StopFlag \/ StopClose \/ StopArchive \/ Ask \/ Resolve \/ StopTimeout \/ Restart
        \/ \E op \in {"stop", "close", "archive"} : StopBegin(op)
  BY DEF Next, UserStep, QueueLocks, QueueStep, AdmissionStep, TaskStep, StopLocks, StopStep, FollowUp,
      Enqueue, SetRow, turnVars, Steer, SendNow, durable, rowVars, Send, Remove, Withdraw, volatile,
      Stopping, Clear, ResumeCheck, Wake, FailQueued, Restate, Delivering, ResumeApply, ReadRefused,
      DeliveryError, ReadLive, Awaited, MarkSteer, Invoke, Control, Conclude, Drained, Abort,
      TaskInvoke, MarkSent, Elsewhere, Dispatch, NativeStart, Event, Acknowledge, Reply, SettleQueue,
      DrainTimeout, Fail, vars

\* The steps that move a turn, its task or its session.
LEMMA EndedMove ==
    ASSUME [Next]_vars
    PROVE
        \/ UNCHANGED <<turns, session, live, task>>
        \/ Unarchive \/ InvokeIdle \/ Open \/ Claim \/ TaskInvoke \/ MarkSent \/ Dispatch
        \/ NativeStart \/ Acknowledge \/ Terminal \/ Reply \/ HostTerminal \/ SettleQueue
        \/ Release \/ StopClose \/ Ask \/ Resolve \/ Fail \/ Restart
  BY DEF Next, UserStep, QueueLocks, QueueStep, AdmissionStep, TaskStep, StopLocks, StopStep, FollowUp,
      Enqueue, SetRow, turnVars, Steer, SendNow, durable, rowVars, Send, Remove, Withdraw, volatile,
      StopBegin, Stopping, Clear, ResumeCheck, Goal, Wake, SendAdmit, StartAdmit, FailQueued, Restate,
      Delivering, ResumeApply, ReadRefused, DeliveryError, ReadLive, Awaited, MarkSteer, Invoke,
      Control, Conclude, Drained, Abort, NotIdle, Elsewhere, Event, StopLook, StopAdmit, StopRead,
      StopFlag, StopArchive, DrainTimeout, StopTimeout, vars

\* The steps that move a row, the live turn or the queue gate.
LEMMA ClaimsMove ==
    ASSUME [Next]_vars
    PROVE
        \/ UNCHANGED <<status, via, bound, carries, live, task, gate>>
        \/ Clear \/ ResumeCheck \/ Wake \/ SendAdmit \/ InvokeIdle \/ StartAdmit \/ ResumeApply
        \/ ReadRefused \/ ReadLive \/ Awaited \/ MarkSteer \/ Invoke \/ Control \/ Conclude
        \/ Drained \/ Open \/ Claim \/ NotIdle \/ TaskInvoke \/ MarkSent \/ Dispatch
        \/ NativeStart \/ Acknowledge \/ Terminal \/ Reply \/ HostTerminal \/ SettleQueue
        \/ Release \/ DrainTimeout \/ Fail \/ Restart
        \/ \E m \in Msg : FollowUp(m) \/ Steer(m) \/ SendNow(m) \/ Send(m) \/ Remove(m)
  BY DEF Next, UserStep, QueueLocks, QueueStep, AdmissionStep, TaskStep, StopLocks, StopStep, Enqueue,
      SetRow, turnVars, durable, rowVars, Withdraw, volatile, StopBegin, Stopping, Goal, Unarchive,
      FailQueued, Restate, Delivering, DeliveryError, Abort, Elsewhere, Event, StopLook, StopAdmit,
      StopRead, StopFlag, StopClose, StopArchive, Ask, Resolve, StopTimeout, vars

\* The steps that move what shows that a message was handed over.
LEMMA HeardMove ==
    ASSUME [Next]_vars
    PROVE
        \/ UNCHANGED <<carries, delivery, copies, live, task, gate>>
        \/ ResumeCheck \/ Wake \/ SendAdmit \/ InvokeIdle \/ StartAdmit \/ ResumeApply
        \/ ReadRefused \/ ReadLive \/ Awaited \/ MarkSteer \/ Invoke \/ Control \/ Conclude
        \/ Drained \/ Open \/ Claim \/ NotIdle \/ TaskInvoke \/ MarkSent \/ Dispatch
        \/ NativeStart \/ Acknowledge \/ Terminal \/ Reply \/ HostTerminal \/ SettleQueue
        \/ Release \/ DrainTimeout \/ Ask \/ Resolve \/ Fail \/ Restart
        \/ \E m \in Msg : Steer(m) \/ SendNow(m) \/ Send(m)
  BY DEF Next, UserStep, QueueLocks, QueueStep, AdmissionStep, TaskStep, StopLocks, StopStep, FollowUp,
      Enqueue, SetRow, turnVars, durable, rowVars, Remove, Withdraw, volatile, StopBegin, Stopping,
      Clear, Goal, Unarchive, FailQueued, Restate, Delivering, DeliveryError, Abort, Elsewhere, Event,
      StopLook, StopAdmit, StopRead, StopFlag, StopClose, StopArchive, StopTimeout, vars

\* The steps that change the state of a row.
LEMMA RowsMove ==
    ASSUME [Next]_vars
    PROVE
        \/ UNCHANGED status
        \/ Clear \/ SendAdmit \/ StartAdmit \/ ResumeApply \/ ReadRefused \/ ReadLive
        \/ MarkSteer \/ Conclude \/ Open \/ Claim \/ NotIdle \/ Acknowledge \/ SettleQueue
        \/ DrainTimeout \/ Restart
        \/ \E m \in Msg : FollowUp(m) \/ Steer(m) \/ Remove(m)
  BY DEF Next, UserStep, QueueLocks, QueueStep, AdmissionStep, TaskStep, StopLocks, StopStep, Enqueue,
      SetRow, turnVars, SendNow, durable, rowVars, Send, Withdraw, volatile, StopBegin, Stopping,
      ResumeCheck, Goal, Unarchive, Wake, InvokeIdle, FailQueued, Restate, Delivering, DeliveryError,
      Awaited, Invoke, Control, Drained, Abort, TaskInvoke, MarkSent, Elsewhere, Dispatch, NativeStart,
      Event, Terminal, Reply, HostTerminal, Release, StopLook, StopAdmit, StopRead, StopFlag, StopClose,
      StopArchive, Ask, Resolve, Fail, StopTimeout, vars

\* The steps that write the status of a turn.
LEMMA TurnsMove ==
    ASSUME [Next]_vars
    PROVE
        \/ UNCHANGED turns
        \/ Claim \/ NativeStart \/ Terminal \/ HostTerminal \/ Ask \/ Resolve \/ Restart
  BY DEF Next, UserStep, QueueLocks, QueueStep, AdmissionStep, TaskStep, StopLocks, StopStep, FollowUp,
      Enqueue, SetRow, turnVars, Steer, SendNow, durable, rowVars, Send, Remove, Withdraw, volatile,
      StopBegin, Stopping, Clear, ResumeCheck, Goal, Unarchive, Wake, SendAdmit, InvokeIdle, StartAdmit,
      FailQueued, Restate, Delivering, ResumeApply, ReadRefused, DeliveryError, ReadLive, Awaited,
      MarkSteer, Invoke, Control, Conclude, Drained, Open, Abort, NotIdle, TaskInvoke, MarkSent,
      Elsewhere, Dispatch, Event, Acknowledge, Reply, SettleQueue, Release, StopLook, StopAdmit,
      StopRead, StopFlag, StopClose, StopArchive, DrainTimeout, Fail, StopTimeout, vars

\* The steps that move the queue gate.
LEMMA GateMove ==
    ASSUME [Next]_vars
    PROVE
        \/ UNCHANGED gate
        \/ ResumeCheck \/ Wake \/ SendAdmit \/ InvokeIdle \/ StartAdmit \/ ResumeApply
        \/ ReadRefused \/ ReadLive \/ Awaited \/ MarkSteer \/ Invoke \/ Control \/ Conclude
        \/ Drained \/ Open \/ Claim \/ NotIdle \/ DrainTimeout \/ Restart
        \/ \E m \in Msg : Steer(m) \/ SendNow(m) \/ Send(m)
  BY DEF Next, UserStep, QueueLocks, QueueStep, AdmissionStep, TaskStep, StopLocks, StopStep,
      FollowUp, Enqueue, SetRow, turnVars, Remove, Withdraw, volatile, StopBegin, Stopping, rowVars,
      Clear, Goal, durable, Unarchive, TaskInvoke, MarkSent, Elsewhere, Dispatch, NativeStart,
      Event, Acknowledge, Terminal, Reply, HostTerminal, SettleQueue, Release, StopLook, StopAdmit,
      StopRead, StopFlag, StopClose, StopArchive, Ask, Resolve, Fail, StopTimeout, vars

\* The steps that move a row or the pause of the queue.
LEMMA PauseMove ==
    ASSUME [Next]_vars
    PROVE
        \/ UNCHANGED <<status, paused>>
        \/ Clear \/ SendAdmit \/ StartAdmit \/ ResumeApply \/ ReadRefused \/ ReadLive
        \/ MarkSteer \/ Conclude \/ Open \/ Claim \/ NotIdle \/ Acknowledge \/ SettleQueue
        \/ StopFlag \/ DrainTimeout \/ Restart
        \/ \E m \in Msg : FollowUp(m) \/ Steer(m) \/ Remove(m)
  BY DEF Next, UserStep, QueueLocks, QueueStep, AdmissionStep, TaskStep, StopLocks, StopStep,
      SendNow, durable, rowVars, turnVars, Send, StopBegin, Stopping, ResumeCheck, Goal, Unarchive,
      Wake, InvokeIdle, Awaited, Invoke, Control, Drained, TaskInvoke, MarkSent, Elsewhere,
      Dispatch, NativeStart, Event, Terminal, Reply, HostTerminal, Release, StopLook, StopAdmit,
      StopRead, StopClose, StopArchive, Ask, Resolve, Fail, StopTimeout, volatile, vars

----------------------------------------------------------------------------
(* The session gate, closing and archiving.                                *)

\* Whoever is inside run_admitted found no live turn; a close holds the session
\* gate from its second pass on; only a closed session is archived, and a closed
\* session has no live turn.
Places ==
    /\ adm.pc # "idle" => adm.by \in {"gate", "goal"} /\ live = 0
    /\ adm.pc = "commit" => session # "closed"
    /\ stop.pc \in {"reread", "reflag", "drain"} => adm.by = "stop"
    /\ stop.pc = "archive" => stop.op = "archive" /\ session = "closed"
    /\ stop.op = "archive" => ~archived
    /\ archived => session = "closed"
    /\ session = "closed" => live = 0

\* Initially the session is idle, and nobody is inside.
LEMMA PlacesInit == Init => Places
  BY DEF Init, Places, FreeAdm, NoStop

\* Nobody comes in where somebody is, and nothing starts in a closed session.
LEMMA PlacesStep == TypeOK /\ Places /\ [Next]_vars => Places'
<1> SUFFICES ASSUME TypeOK, Places, [Next]_vars PROVE Places'
  OBVIOUS
<1>0. /\ adm \in AdmSet /\ stop \in StopSet /\ (live = 0 <=> task = "none")
      /\ live \in Turn \union {0} /\ (adm.by = "gate" => gate.pc = "start")
  BY DEF TypeOK, LocksOK, LiveOK
<1>1. CASE UNCHANGED <<adm, stop, session, archived, live>>
  BY <1>1 DEF Places
<1>2. ASSUME NEW op \in {"stop", "close", "archive"}, StopBegin(op) PROVE Places'
  BY <1>2 DEF StopBegin, Stopping, rowVars, turnVars, NoStop, Places
<1>3. CASE Goal
  BY <1>3 DEF Goal, durable, rowVars, turnVars, AdmFree, Places
<1>4. CASE Unarchive
  BY <1>4 DEF Unarchive, Stopping, rowVars, turnVars, AdmFree, Places
<1>5. CASE SendAdmit
  BY <1>5 DEF SendAdmit, Enqueue, SetRow, turnVars, rowVars, FreeGate, AdmFree, MustQueue, Places
<1>6. CASE InvokeIdle
  BY <1>6 DEF InvokeIdle, turnVars, rowVars, Closed, AdmFree, Places
<1>7. CASE StartAdmit
  BY <1>7 DEF StartAdmit, FailQueued, Restate, rowVars, Delivering, turnVars, AdmFree, Places
<1>8. CASE Open
  BY <1>0, <1>8
  DEF Open, Abort, Freed, FreeAdm, FailQueued, Restate, rowVars, turnVars, Closed, Places, AdmSet
<1>9. CASE Claim
  BY <1>9 DEF Claim, SetRow, rowVars, FreeAdm, IsNextTurn, Places
<1>10. CASE NotIdle
  BY <1>10 DEF NotIdle, Abort, Freed, FreeAdm, FailQueued, Restate, rowVars, turnVars, Places
<1>11. CASE Terminal
  <2>1. task \in {"sent", "active"} /\ UNCHANGED <<live, archived, adm, stop>> /\ session' # "closed"
      BY <1>11 DEF Terminal, Event, Elsewhere, Terminals
  <2> QED
      BY <1>0, <2>1 DEF Places
<1>12. CASE HostTerminal
  BY <1>0, <1>12 DEF HostTerminal, AlreadyEnded, Elsewhere, rowVars, Places
<1>13. CASE Release
  BY <1>13 DEF Release, durable, rowVars, turnVars, Elsewhere, Places
<1>14. CASE StopLook
  BY <1>14 DEF StopLook, Stopping, rowVars, turnVars, AdmFree, Places
<1>15. CASE StopAdmit
  BY <1>15 DEF StopAdmit, Stopping, rowVars, turnVars, AdmFree, Places
<1>16. CASE StopRead
  BY <1>16 DEF StopRead, Stopping, rowVars, turnVars, Places
<1>17. CASE StopFlag
  <2>1. UNCHANGED <<live, archived, session>> /\ stop.pc \in {"flag", "reflag"}
      BY <1>17 DEF StopFlag, Stopping
  <2>2. NoStop.pc = "idle" /\ NoStop.op = "none"
      BY DEF NoStop
  <2>3. \A p : [stop EXCEPT !.pc = p, !.run = 0].pc = p /\ [stop EXCEPT !.pc = p, !.run = 0].op = stop.op
      BY <1>0 DEF StopSet
  <2>4. CASE stop.pc = "flag"
    <3>1. /\ stop' = NoStop \/ stop' = [stop EXCEPT !.pc = "admit", !.run = 0]
          /\ adm' = IF adm.by = "stop" THEN FreeAdm ELSE adm
        BY <1>17, <2>4 DEF StopFlag, AfterCancel
    <3>2. stop'.pc \in {"idle", "admit"} /\ stop'.op \in {"none", stop.op}
        BY <2>2, <2>3, <3>1
    <3>3. adm'.pc = "idle" \/ adm' = adm
        BY <3>1 DEF FreeAdm
    <3> QED
        BY <2>1, <3>2, <3>3 DEF Places
  <2>5. CASE stop.pc = "reflag"
    <3>1. stop' = [stop EXCEPT !.pc = "drain", !.run = 0] /\ UNCHANGED adm
        BY <1>17, <2>5 DEF StopFlag
    <3>2. stop'.pc = "drain" /\ stop'.op = stop.op
        BY <2>3, <3>1
    <3> QED
        BY <2>1, <2>5, <3>1, <3>2 DEF Places
  <2> QED
      BY <2>1, <2>4, <2>5
<1>18. CASE StopClose
  BY <1>18 DEF StopClose, Stopping, rowVars, turnVars, Quiet, FreeAdm, NoStop, Places
<1>19. CASE StopArchive
  BY <1>19 DEF StopArchive, Stopping, rowVars, turnVars, NoStop, Places
<1>20. CASE Ask
  BY <1>20 DEF Ask, Event, Elsewhere, rowVars, Places
<1>21. CASE Resolve
  BY <1>21 DEF Resolve, Event, Elsewhere, rowVars, Places
<1>22. CASE StopTimeout
  BY <1>22 DEF StopTimeout, Stopping, rowVars, turnVars, FreeAdm, NoStop, Places
<1>23. CASE Restart
  BY <1>23 DEF Restart, Recovered, Recoverable, FreeAdm, NoStop, FreeGate, Places
<1> QED
  BY <1>1, <1>2, <1>3, <1>4, <1>5, <1>6, <1>7, <1>8, <1>9, <1>10, <1>11, <1>12, <1>13, <1>14, <1>15,
      <1>16, <1>17, <1>18, <1>19, <1>20, <1>21, <1>22, <1>23, PlacesMove

----------------------------------------------------------------------------
(* What a turn leaves.                                                     *)

\* With a provider that ends its turns: a running turn is the live one, its
\* session knows, and none is left running once its call has returned.
Ended ==
    Truthful =>
        /\ \A t \in Turn : turns[t] = "running" => live = t /\ session \in {"running", "waiting"}
        /\ task \in {"ended", "final", "settled"} => turns[live] # "running"

\* Initially no turn exists.
LEMMA EndedInit == Init => Ended
  BY DEF Init, Ended

\* A turn is started where none is live, and its task settles it before it goes.
LEMMA EndedStep == TypeOK /\ Places /\ Ended /\ [Next]_vars => Ended'
<1> SUFFICES ASSUME TypeOK, Places, Ended, [Next]_vars, Truthful PROVE Ended'
  BY DEF Ended
<1>0. /\ (live = 0 <=> task = "none") /\ live \in Turn \union {0}
      /\ turns \in [Turn -> Terminals \union {"none", "running"}]
  BY DEF TypeOK, LiveOK, TurnsOK
<1>1. CASE UNCHANGED <<turns, session, live, task>>
  BY <1>1 DEF Ended
<1>2. CASE Unarchive
  BY <1>2 DEF Unarchive, Stopping, rowVars, turnVars, AdmFree, Ended, Places
<1>3. CASE InvokeIdle
  BY TurnPositive, <1>3 DEF InvokeIdle, turnVars, rowVars, Closed, AdmFree, Ended
<1>4. CASE Open
  BY TurnPositive, <1>4
  DEF Open, Abort, Freed, FreeAdm, FailQueued, Restate, rowVars, turnVars, Closed, Ended, Places
<1>5. CASE Claim
  BY TurnPositive, <1>5 DEF Claim, SetRow, rowVars, FreeAdm, IsNextTurn, Ended, Places
<1>6. CASE TaskInvoke
  BY <1>6 DEF TaskInvoke, durable, rowVars, turnVars, Ended
<1>7. CASE MarkSent
  BY <1>7 DEF MarkSent, PossiblySent, Elsewhere, rowVars, Ended
<1>8. CASE Dispatch
  BY <1>8 DEF Dispatch, durable, rowVars, turnVars, Elsewhere, Ended
<1>9. CASE NativeStart
  BY <1>9 DEF NativeStart, Event, Elsewhere, rowVars, Ended
<1>10. CASE Acknowledge
  BY <1>10 DEF Acknowledge, Acknowledged, turnVars, Elsewhere, Ended
<1>11. CASE Terminal
  BY <1>0, <1>11 DEF Terminal, Event, Elsewhere, rowVars, Terminals, Ended
<1>12. CASE Reply
  BY <1>12 DEF Reply, Elsewhere, rowVars, Ended
<1>13. CASE HostTerminal
  BY <1>0, <1>13 DEF HostTerminal, AlreadyEnded, Elsewhere, rowVars, Ended
<1>14. CASE SettleQueue
  BY <1>14 DEF SettleQueue, Unacknowledged, turnVars, Elsewhere, Ended
<1>15. CASE Release
  BY <1>15 DEF Release, durable, rowVars, turnVars, Elsewhere, Ended
<1>16. CASE StopClose
  BY TurnPositive, <1>16 DEF StopClose, Stopping, rowVars, turnVars, Quiet, FreeAdm, NoStop, Ended
<1>17. CASE Ask
  BY <1>17 DEF Ask, Event, Elsewhere, rowVars, Ended
<1>18. CASE Resolve
  BY <1>18 DEF Resolve, Event, Elsewhere, rowVars, Ended
<1>19. CASE Fail
  BY <1>19 DEF Fail, durable, rowVars, turnVars, Ended
<1>20. CASE Restart
  BY <1>20 DEF Restart, Recovered, Recoverable, FreeAdm, NoStop, FreeGate, Ended, Places
<1> QED
  BY <1>1, <1>2, <1>3, <1>4, <1>5, <1>6, <1>7, <1>8, <1>9, <1>10, <1>11, <1>12, <1>13, <1>14, <1>15,
      <1>16, <1>17, <1>18, <1>19, <1>20, EndedMove

\* No turn stays recorded as running once nothing runs it: run_admitted, finish
\* and recover_interrupted_sessions together.
THEOREM NoZombies == Truthful => (Spec => []NoZombieTurn)
<1> SUFFICES ASSUME Truthful PROVE Spec => []NoZombieTurn
  OBVIOUS
<1>1. Init => Places /\ Ended
  BY PlacesInit, EndedInit
<1>2. TypeOK /\ Places /\ Ended /\ [Next]_vars => Places' /\ Ended'
  BY PlacesStep, EndedStep
<1>3. Places /\ Ended => NoZombieTurn
  BY DEF Ended, NoZombieTurn
<1> QED
  BY <1>1, <1>2, <1>3, TypeCorrect, PTL DEF Spec

\* A closed session runs nothing, and nothing is being started in it:
\* close_from_display against run_admitted.
THEOREM ClosedStaysQuiet == Spec => []ClosedQuiet
<1>1. Places => ClosedQuiet
  BY DEF Places, ClosedQuiet
<1> QED
  BY <1>1, PlacesInit, PlacesStep, TypeCorrect, PTL DEF Spec

\* A turn has one outcome: neither a late failure of its invocation nor a restart
\* rewrites it.
THEOREM OneOutcome == Spec => OutcomeFinal
<1> DEFINE Kept == \A t \in Turn : turns[t] \in Terminals => turns'[t] = turns[t]
<1>0. "none" \notin Terminals /\ "running" \notin Terminals
  BY DEF Terminals
<1>1. TypeOK /\ [Next]_vars => [Kept]_vars
  <2> SUFFICES ASSUME TypeOK, [Next]_vars PROVE Kept
    OBVIOUS
  <2>0. turns \in [Turn -> Terminals \union {"none", "running"}]
    BY DEF TypeOK, TurnsOK
  <2>1. CASE UNCHANGED turns
    BY <2>1
  <2>2. CASE Claim
    BY <1>0, <2>0, <2>2 DEF Claim, IsNextTurn
  <2>3. CASE NativeStart \/ Ask \/ Resolve \/ Terminal
    BY <1>0, <2>0, <2>3 DEF NativeStart, Ask, Resolve, Terminal, Event
  <2>4. CASE HostTerminal
    BY <1>0, <2>0, <2>4 DEF HostTerminal, AlreadyEnded
  <2>5. CASE Restart
    BY <1>0, <2>0, <2>5 DEF Restart
  <2> QED
    BY <2>1, <2>2, <2>3, <2>4, <2>5, TurnsMove
<1> QED
  BY <1>1, TypeCorrect, PTL DEF Spec, OutcomeFinal

----------------------------------------------------------------------------
(* Who answers for a row.                                                  *)

\* A claimed row has an owner, and is what the turn it was claimed for carries.
Claims ==
    /\ ClaimsOwned
    /\ \A m \in Msg : status[m] = "sending" /\ via[m] = "turn" => carries[live] = m

\* Initially nothing is claimed.
LEMMA ClaimsInit == Init => Claims
  BY DEF Init, Claims, ClaimsOwned

\* A claim is given up by its owner only, and with the row it is about.
LEMMA ClaimsStep == TypeOK /\ Places /\ HandedOnce /\ Claims /\ [Next]_vars => Claims'
<1> SUFFICES ASSUME TypeOK, Places, HandedOnce, Claims, [Next]_vars, TypeOK' PROVE Claims'
  BY TypeStep
<1>0. /\ gate \in GateSet /\ (adm.by = "gate" => gate.pc = "start") /\ (live = 0 <=> task = "none")
      /\ live \in Turn \union {0}
      /\ status \in [Msg -> MsgStates] /\ via \in [Msg -> {"turn", "steer", "direct"}]
      /\ bound \in [Msg -> Turn \union {0}] /\ carries \in [Turn -> Msg \union {0}]
  BY DEF TypeOK, RowsOK, TurnsOK, LocksOK, LiveOK
<1>1. CASE UNCHANGED <<status, via, bound, carries, live, task, gate>>
  BY <1>1 DEF Claims, ClaimsOwned
<1>2. ASSUME NEW m \in Msg, FollowUp(m) PROVE Claims'
  BY <1>2 DEF FollowUp, Enqueue, SetRow, turnVars, GateFree, IsNextMsg, Claims, ClaimsOwned
<1>3. ASSUME NEW m \in Msg, Steer(m) PROVE Claims'
  BY <1>3 DEF Steer, Enqueue, SetRow, turnVars, GateFree, IsNextMsg, Claims, ClaimsOwned, Steering
<1>4. ASSUME NEW m \in Msg, SendNow(m) PROVE Claims'
  BY <1>4 DEF SendNow, durable, rowVars, turnVars, GateFree, Claims, ClaimsOwned, Steering
<1>5. ASSUME NEW m \in Msg, Send(m) PROVE Claims'
  BY <1>5 DEF Send, durable, rowVars, turnVars, GateFree, Claims, ClaimsOwned, Steering
<1>6. ASSUME NEW m \in Msg, Remove(m) PROVE Claims'
  BY <1>6 DEF Remove, Withdraw, turnVars, volatile, GateFree, Claims, ClaimsOwned
<1>7. CASE Clear
  BY <1>7 DEF Clear, Withdraw, turnVars, volatile, GateFree, Claims, ClaimsOwned
<1>8. CASE ResumeCheck
  BY <1>8 DEF ResumeCheck, durable, rowVars, turnVars, GateFree, Claims, ClaimsOwned, Steering
<1>9. CASE Wake
  BY <1>9 DEF Wake, durable, rowVars, turnVars, GateFree, Claims, ClaimsOwned, Steering
<1>10. CASE SendAdmit
  BY <1>0, <1>10
  DEF SendAdmit, Enqueue, SetRow, turnVars, rowVars, FreeGate, AdmFree, MustQueue, Claims, ClaimsOwned,
      Steering
<1>11. CASE InvokeIdle
  BY <1>0, GateFields, <1>11
  DEF InvokeIdle, turnVars, rowVars, Closed, AdmFree, Claims, ClaimsOwned, Steering
<1>12. CASE StartAdmit
  BY <1>0, <1>12
  DEF StartAdmit, FailQueued, Restate, rowVars, Delivering, turnVars, AdmFree, Claims, ClaimsOwned,
      Steering
<1>13. CASE ResumeApply
  BY <1>13 DEF ResumeApply, Retried, turnVars, Claims, ClaimsOwned, Steering
<1>14. CASE ReadRefused
  BY <1>0, <1>14
  DEF ReadRefused, DeliveryError, FailQueued, Restate, rowVars, Delivering, turnVars, Claims,
      ClaimsOwned, Steering
<1>15. CASE ReadLive
  BY <1>0, <1>15
  DEF ReadLive, DeliveryError, FailQueued, Restate, rowVars, Delivering, turnVars, Claims, ClaimsOwned,
      Steering
<1>16. CASE Awaited
  BY <1>16 DEF Awaited, durable, rowVars, turnVars, Claims, ClaimsOwned, Steering
<1>17. CASE MarkSteer
  BY <1>0, GateFields, <1>17 DEF MarkSteer, SetRow, turnVars, Claims, ClaimsOwned, Steering
<1>18. CASE Invoke
  BY <1>0, GateFields, <1>18 DEF Invoke, durable, rowVars, turnVars, Claims, ClaimsOwned, Steering
<1>19. CASE Control
  BY <1>0, GateFields, <1>19 DEF Control, durable, rowVars, turnVars, Claims, ClaimsOwned, Steering
<1>20. CASE Conclude
  BY <1>0, <1>20
  DEF Conclude, SetRow, FailQueued, Restate, Delivering, turnVars, HostError, SteeringRejection, Claims,
      ClaimsOwned
<1>21. CASE Drained
  BY <1>21 DEF Drained, durable, rowVars, turnVars, Claims, ClaimsOwned, Steering
<1>22. CASE Open
  BY <1>0, <1>22
  DEF Open, Abort, Freed, FreeAdm, FailQueued, Restate, rowVars, turnVars, Closed, Claims, ClaimsOwned,
      Steering
<1>23. CASE Claim
  BY <1>0, TurnPositive, <1>23
  DEF Claim, SetRow, rowVars, FreeAdm, IsNextTurn, Claims, ClaimsOwned, Places
<1>24. CASE NotIdle
  BY <1>0, <1>24
  DEF NotIdle, Abort, Freed, FreeAdm, FailQueued, Restate, rowVars, turnVars, Claims, ClaimsOwned,
      Steering
<1>25. CASE TaskInvoke
  BY <1>25 DEF TaskInvoke, durable, rowVars, turnVars, Claims, ClaimsOwned
<1>26. CASE MarkSent
  BY <1>26 DEF MarkSent, PossiblySent, Elsewhere, rowVars, Claims, ClaimsOwned
<1>27. CASE Dispatch
  BY <1>27 DEF Dispatch, durable, rowVars, turnVars, Elsewhere, Claims, ClaimsOwned
<1>28. CASE NativeStart
  BY <1>28 DEF NativeStart, Event, Elsewhere, rowVars, Claims, ClaimsOwned
<1>29. CASE Acknowledge
  BY <1>29 DEF Acknowledge, Acknowledged, turnVars, Elsewhere, Claims, ClaimsOwned
<1>30. CASE Terminal
  BY <1>30 DEF Terminal, Event, Elsewhere, rowVars, Claims, ClaimsOwned
<1>31. CASE Reply
  BY <1>31 DEF Reply, Elsewhere, rowVars, Claims, ClaimsOwned
<1>32. CASE HostTerminal
  BY <1>32 DEF HostTerminal, AlreadyEnded, Elsewhere, rowVars, Claims, ClaimsOwned
<1>33. CASE SettleQueue
  BY <1>33 DEF SettleQueue, Unacknowledged, turnVars, Elsewhere, Claims, ClaimsOwned
<1>34. CASE Release
  BY <1>34 DEF Release, durable, rowVars, turnVars, Elsewhere, Claims, ClaimsOwned
<1>35. CASE DrainTimeout
  BY <1>0, <1>35
  DEF DrainTimeout, DeliveryError, FailQueued, Restate, rowVars, Delivering, turnVars, Claims,
      ClaimsOwned, Steering
<1>36. CASE Fail
  BY <1>36 DEF Fail, durable, rowVars, turnVars, Claims, ClaimsOwned
<1>37. CASE Restart
  BY <1>37 DEF Restart, Recovered, Recoverable, FreeAdm, NoStop, FreeGate, Claims, ClaimsOwned
<1> QED
  BY <1>1, <1>2, <1>3, <1>4, <1>5, <1>6, <1>7, <1>8, <1>9, <1>10, <1>11, <1>12, <1>13, <1>14, <1>15,
      <1>16, <1>17, <1>18, <1>19, <1>20, <1>21, <1>22, <1>23, <1>24, <1>25, <1>26, <1>27, <1>28, <1>29,
      <1>30, <1>31, <1>32, <1>33, <1>34, <1>35, <1>36, <1>37, ClaimsMove

\* A row being sent always has somebody who will resolve it: the task of the turn
\* it was claimed for, or the operation that steers it under the queue gate.
THEOREM ClaimsHaveOwners == Spec => []ClaimsOwned
<1>1. Init => Places /\ HandedOnce /\ Claims
  BY PlacesInit, HandedInit, ClaimsInit
<1>2. TypeOK /\ Places /\ HandedOnce /\ Claims /\ [Next]_vars => Places' /\ HandedOnce' /\ Claims'
  BY PlacesStep, HandedStep, ClaimsStep
<1>3. Claims => ClaimsOwned
  BY DEF Claims
<1> QED
  BY <1>1, <1>2, <1>3, TypeCorrect, PTL DEF Spec

----------------------------------------------------------------------------
(* What the provider has.                                                  *)

\* A message is carried by one turn; a turn recorded as not sent has not handed
\* its message over; one its provider works on has; so has a steering message
\* that was taken.
Heard ==
    /\ \A t, u \in Turn : carries[t] = carries[u] /\ carries[t] # 0 => t = u
    /\ task = "marked" => delivery[live] # "not_sent"
    /\ \A t \in Turn : delivery[t] = "not_sent" /\ carries[t] # 0 => copies[carries[t]] = 0
    /\ task \in {"sent", "started"} /\ carries[live] # 0 => copies[carries[live]] > 0
    /\ gate.pc = "answered" /\ gate.answer = "ok" => copies[gate.msg] > 0

\* Initially no turn carries anything.
LEMMA HeardInit == Init => Heard
  BY DEF Init, Heard, FreeGate

\* The evidence of a delivery is written before the delivery, and the message
\* handed over before it is acknowledged.
LEMMA HeardStep == TypeOK /\ Places /\ HandedOnce /\ Claims /\ Heard /\ [Next]_vars => Heard'
<1> SUFFICES ASSUME TypeOK, Places, HandedOnce, Claims, Heard, [Next]_vars, TypeOK' PROVE Heard'
  BY TypeStep
<1>0. /\ gate \in GateSet /\ (adm.by = "gate" => gate.pc = "start") /\ (live = 0 <=> task = "none")
      /\ live \in Turn \union {0} /\ copies \in [Msg -> Nat] /\ status \in [Msg -> MsgStates]
      /\ carries \in [Turn -> Msg \union {0}]
      /\ delivery \in [Turn -> {"not_sent", "possibly_sent", "responded"}]
  BY DEF TypeOK, RowsOK, TurnsOK, LocksOK, LiveOK
<1>1. CASE UNCHANGED <<carries, delivery, copies, live, task, gate>>
  BY <1>1 DEF Heard
<1>2. ASSUME NEW m \in Msg, Steer(m) PROVE Heard'
  BY GateFields, <1>2 DEF Steer, Enqueue, SetRow, turnVars, GateFree, IsNextMsg, Heard
<1>3. ASSUME NEW m \in Msg, SendNow(m) PROVE Heard'
  BY GateFields, <1>3 DEF SendNow, durable, rowVars, turnVars, GateFree, Heard
<1>4. ASSUME NEW m \in Msg, Send(m) PROVE Heard'
  BY GateFields, <1>4 DEF Send, durable, rowVars, turnVars, GateFree, Heard
<1>5. CASE ResumeCheck
  BY GateFields, <1>5 DEF ResumeCheck, durable, rowVars, turnVars, GateFree, Heard
<1>6. CASE Wake
  BY GateFields, <1>6 DEF Wake, durable, rowVars, turnVars, GateFree, Heard
<1>7. CASE SendAdmit
  BY <1>0, GateFields, <1>7
  DEF SendAdmit, Enqueue, SetRow, turnVars, rowVars, FreeGate, AdmFree, MustQueue, Heard
<1>8. CASE InvokeIdle
  BY <1>0, GateFields, <1>8 DEF InvokeIdle, turnVars, rowVars, Closed, AdmFree, Heard
<1>9. CASE StartAdmit
  BY GateFields, <1>9 DEF StartAdmit, FailQueued, Restate, rowVars, Delivering, turnVars, AdmFree, Heard
<1>10. CASE ResumeApply
  BY GateFields, <1>10 DEF ResumeApply, Retried, turnVars, Heard
<1>11. CASE ReadRefused
  BY GateFields, <1>11
  DEF ReadRefused, DeliveryError, FailQueued, Restate, rowVars, Delivering, turnVars, Heard
<1>12. CASE ReadLive
  BY <1>0, GateFields, <1>12
  DEF ReadLive, DeliveryError, FailQueued, Restate, rowVars, Delivering, turnVars, Heard
<1>13. CASE Awaited
  BY <1>0, GateFields, <1>13 DEF Awaited, durable, rowVars, turnVars, Heard
<1>14. CASE MarkSteer
  BY <1>0, GateFields, <1>14 DEF MarkSteer, SetRow, turnVars, Heard
<1>15. CASE Invoke
  BY <1>0, GateFields, <1>15 DEF Invoke, durable, rowVars, turnVars, Heard
<1>16. CASE Control
  BY <1>0, GateFields, <1>16
  DEF Control, durable, rowVars, turnVars, Heard, Steering, HandedOnce, StartHolds, SteerHolds
<1>17. CASE Conclude
  BY <1>0, GateFields, <1>17
  DEF Conclude, SetRow, FailQueued, Restate, Delivering, turnVars, HostError, SteeringRejection, Heard
<1>18. CASE Drained
  BY <1>0, GateFields, <1>18 DEF Drained, durable, rowVars, turnVars, Heard
<1>19. CASE Open
  BY GateFields, <1>19
  DEF Open, Abort, Freed, FreeAdm, FailQueued, Restate, rowVars, turnVars, Closed, Heard
<1>20. CASE Claim
  BY <1>0, GateFields, <1>20
  DEF Claim, SetRow, rowVars, FreeAdm, IsNextTurn, Heard, Deliverable, HandedOnce, StartHolds, Carried,
      Unheard
<1>21. CASE NotIdle
  BY GateFields, <1>21 DEF NotIdle, Abort, Freed, FreeAdm, FailQueued, Restate, rowVars, turnVars, Heard
<1>22. CASE TaskInvoke
  BY <1>22 DEF TaskInvoke, durable, rowVars, turnVars, Heard
<1>23. CASE MarkSent
  BY <1>0, <1>23 DEF MarkSent, PossiblySent, Elsewhere, rowVars, Heard
<1>24. CASE Dispatch
  BY <1>0, <1>24 DEF Dispatch, durable, rowVars, turnVars, Elsewhere, Heard, HandedOnce, StartHolds
<1>25. CASE NativeStart
  BY <1>25 DEF NativeStart, Event, Elsewhere, rowVars, Heard
<1>26. CASE Acknowledge
  BY <1>26 DEF Acknowledge, Acknowledged, turnVars, Elsewhere, Heard
<1>27. CASE Terminal
  BY <1>27 DEF Terminal, Event, Elsewhere, rowVars, Heard
<1>28. CASE Reply
  BY <1>28 DEF Reply, Elsewhere, rowVars, Heard
<1>29. CASE HostTerminal
  BY <1>29 DEF HostTerminal, AlreadyEnded, Elsewhere, rowVars, Heard
<1>30. CASE SettleQueue
  BY <1>30 DEF SettleQueue, Unacknowledged, turnVars, Elsewhere, Heard
<1>31. CASE Release
  BY <1>31 DEF Release, durable, rowVars, turnVars, Elsewhere, Heard
<1>32. CASE DrainTimeout
  BY GateFields, <1>32
  DEF DrainTimeout, DeliveryError, FailQueued, Restate, rowVars, Delivering, turnVars, Heard
<1>33. CASE Ask
  BY <1>33 DEF Ask, Event, Elsewhere, rowVars, Heard
<1>34. CASE Resolve
  BY <1>34 DEF Resolve, Event, Elsewhere, rowVars, Heard
<1>35. CASE Fail
  BY <1>35 DEF Fail, durable, rowVars, turnVars, Heard
<1>36. CASE Restart
  BY <1>36 DEF Restart, Recovered, Recoverable, FreeAdm, NoStop, FreeGate, Heard
<1> QED
  BY <1>1, <1>2, <1>3, <1>4, <1>5, <1>6, <1>7, <1>8, <1>9, <1>10, <1>11, <1>12, <1>13, <1>14, <1>15,
      <1>16, <1>17, <1>18, <1>19, <1>20, <1>21, <1>22, <1>23, <1>24, <1>25, <1>26, <1>27, <1>28, <1>29,
      <1>30, <1>31, <1>32, <1>33, <1>34, <1>35, <1>36, HeardMove

\* A claimed row leaves the queue only with a message its provider has.
LEMMA LeavesHeard ==
    ASSUME TypeOK, Places, HandedOnce, Claims, Heard, [Next]_vars,
           NEW n \in Msg, status[n] = "sending", status'[n] = "gone"
    PROVE  copies[n] > 0
<1>0. /\ gate \in GateSet /\ (adm.by = "gate" => gate.pc = "start") /\ (live = 0 <=> task = "none")
      /\ live \in Turn \union {0} /\ copies \in [Msg -> Nat] /\ status \in [Msg -> MsgStates]
      /\ carries \in [Turn -> Msg \union {0}]
  BY DEF TypeOK, RowsOK, TurnsOK, LocksOK, LiveOK
<1>1. CASE UNCHANGED status
  BY <1>1
<1>2. ASSUME NEW m \in Msg, FollowUp(m) PROVE copies[n] > 0
  BY <1>2 DEF FollowUp, Enqueue, SetRow, turnVars, GateFree, IsNextMsg
<1>3. ASSUME NEW m \in Msg, Steer(m) PROVE copies[n] > 0
  BY <1>3 DEF Steer, Enqueue, SetRow, turnVars, GateFree, IsNextMsg
<1>4. ASSUME NEW m \in Msg, Remove(m) PROVE copies[n] > 0
  BY <1>4 DEF Remove, Withdraw, turnVars, volatile, GateFree
<1>5. CASE Clear
  BY <1>5 DEF Clear, Withdraw, turnVars, volatile, GateFree
<1>6. CASE SendAdmit
  BY <1>0, <1>6 DEF SendAdmit, Enqueue, SetRow, turnVars, rowVars, FreeGate, AdmFree, MustQueue
<1>7. CASE StartAdmit
  BY <1>0, <1>7 DEF StartAdmit, FailQueued, Restate, rowVars, Delivering, turnVars, AdmFree
<1>8. CASE ResumeApply
  BY <1>8 DEF ResumeApply, Retried, turnVars
<1>9. CASE ReadRefused
  BY <1>0, <1>9 DEF ReadRefused, DeliveryError, FailQueued, Restate, rowVars, Delivering, turnVars
<1>10. CASE ReadLive
  BY <1>0, <1>10 DEF ReadLive, DeliveryError, FailQueued, Restate, rowVars, Delivering, turnVars
<1>11. CASE MarkSteer
  BY <1>11 DEF MarkSteer, SetRow, turnVars
<1>12. CASE Conclude
  BY <1>0, <1>12
  DEF Conclude, SetRow, FailQueued, Restate, Delivering, turnVars, HostError, SteeringRejection, Heard
<1>13. CASE Open
  BY <1>0, <1>13 DEF Open, Abort, Freed, FreeAdm, FailQueued, Restate, rowVars, turnVars, Closed
<1>14. CASE Claim
  BY <1>0, <1>14 DEF Claim, SetRow, rowVars, FreeAdm, IsNextTurn, HandedOnce, StartHolds
<1>15. CASE NotIdle
  BY <1>0, <1>15 DEF NotIdle, Abort, Freed, FreeAdm, FailQueued, Restate, rowVars, turnVars
<1>16. CASE Acknowledge
  BY MessagePositive, <1>16 DEF Acknowledge, Acknowledged, turnVars, Elsewhere, Heard, Claims
<1>17. CASE SettleQueue
  BY <1>17 DEF SettleQueue, Unacknowledged, turnVars, Elsewhere
<1>18. CASE DrainTimeout
  BY <1>0, <1>18 DEF DrainTimeout, DeliveryError, FailQueued, Restate, rowVars, Delivering, turnVars
<1>19. CASE Restart
  BY <1>19 DEF Restart, Recovered, Recoverable, FreeAdm, NoStop, FreeGate
<1> QED
  BY <1>1, <1>2, <1>3, <1>4, <1>5, <1>6, <1>7, <1>8, <1>9, <1>10, <1>11, <1>12, <1>13, <1>14, <1>15,
      <1>16, <1>17, <1>18, <1>19, RowsMove

\* Only the operation that holds the gate for it moves a row whose outcome is
\* unknown, other than out of the queue.
LEMMA UncertainStays ==
    ASSUME TypeOK, HandedOnce, [Next]_vars, NEW n \in Msg, status[n] = "uncertain", gate.msg # n
    PROVE  status'[n] \in {"uncertain", "gone"}
<1>0. status \in [Msg -> MsgStates] /\ (adm.by = "gate" => gate.pc = "start")
  BY DEF TypeOK, RowsOK, LocksOK
<1>1. CASE UNCHANGED status
  BY <1>1
<1>2. ASSUME NEW m \in Msg, FollowUp(m) PROVE status'[n] \in {"uncertain", "gone"}
  BY <1>2 DEF FollowUp, Enqueue, SetRow, turnVars, GateFree, IsNextMsg
<1>3. ASSUME NEW m \in Msg, Steer(m) PROVE status'[n] \in {"uncertain", "gone"}
  BY <1>3 DEF Steer, Enqueue, SetRow, turnVars, GateFree, IsNextMsg
<1>4. ASSUME NEW m \in Msg, Remove(m) PROVE status'[n] \in {"uncertain", "gone"}
  BY <1>4 DEF Remove, Withdraw, turnVars, volatile, GateFree
<1>5. CASE Clear
  BY <1>5 DEF Clear, Withdraw, turnVars, volatile, GateFree
<1>6. CASE SendAdmit
  BY <1>0, <1>6 DEF SendAdmit, Enqueue, SetRow, turnVars, rowVars, FreeGate, AdmFree, MustQueue
<1>7. CASE StartAdmit
  BY <1>0, <1>7 DEF StartAdmit, FailQueued, Restate, rowVars, Delivering, turnVars, AdmFree
<1>8. CASE ResumeApply
  BY <1>8 DEF ResumeApply, Retried, turnVars
<1>9. CASE ReadRefused
  BY <1>0, <1>9 DEF ReadRefused, DeliveryError, FailQueued, Restate, rowVars, Delivering, turnVars
<1>10. CASE ReadLive
  BY <1>0, <1>10 DEF ReadLive, DeliveryError, FailQueued, Restate, rowVars, Delivering, turnVars
<1>11. CASE MarkSteer
  BY <1>11 DEF MarkSteer, SetRow, turnVars
<1>12. CASE Conclude
  BY <1>0, <1>12
  DEF Conclude, SetRow, FailQueued, Restate, Delivering, turnVars, HostError, SteeringRejection
<1>13. CASE Open
  BY <1>0, <1>13 DEF Open, Abort, Freed, FreeAdm, FailQueued, Restate, rowVars, turnVars, Closed
<1>14. CASE Claim
  BY <1>0, <1>14 DEF Claim, SetRow, rowVars, FreeAdm, IsNextTurn
<1>15. CASE NotIdle
  BY <1>0, <1>15 DEF NotIdle, Abort, Freed, FreeAdm, FailQueued, Restate, rowVars, turnVars
<1>16. CASE Acknowledge
  BY <1>16 DEF Acknowledge, Acknowledged, turnVars, Elsewhere
<1>17. CASE SettleQueue
  BY <1>17 DEF SettleQueue, Unacknowledged, turnVars, Elsewhere
<1>18. CASE DrainTimeout
  BY <1>0, <1>18 DEF DrainTimeout, DeliveryError, FailQueued, Restate, rowVars, Delivering, turnVars
<1>19. CASE Restart
  BY <1>19 DEF Restart, Recovered, Recoverable, FreeAdm, NoStop, FreeGate
<1> QED
  BY <1>1, <1>2, <1>3, <1>4, <1>5, <1>6, <1>7, <1>8, <1>9, <1>10, <1>11, <1>12, <1>13, <1>14, <1>15,
      <1>16, <1>17, <1>18, <1>19, RowsMove

\* What HandedOnce, Claims and Heard rest on, put together.
Delivered == Places /\ HandedOnce /\ Claims /\ Heard

\* They hold of every reachable state.
THEOREM DeliveredAlways == Spec => []Delivered
<1>1. Init => Delivered
  BY PlacesInit, HandedInit, ClaimsInit, HeardInit DEF Delivered
<1>2. TypeOK /\ Delivered /\ [Next]_vars => Delivered'
  BY PlacesStep, HandedStep, ClaimsStep, HeardStep DEF Delivered
<1> QED
  BY <1>1, <1>2, TypeCorrect, PTL DEF Spec

\* Every reason why a message is handed over at most once holds all the time.
THEOREM HandedAlways == Spec => []HandedOnce
  BY DeliveredAlways, PTL DEF Delivered

\* A claimed row leaves the queue only after the provider has its message:
\* acknowledge_queued_turn and the accepted answer of deliver_queued.
THEOREM LeavesOnlyHeard == Spec => OnlyHeardLeaves
<1> DEFINE Step == \A m \in Msg : status[m] = "sending" /\ status'[m] = "gone" => copies[m] > 0
<1>1. TypeOK /\ Delivered /\ [Next]_vars => [Step]_vars
  BY LeavesHeard DEF Delivered
<1> QED
  BY <1>1, DeliveredAlways, TypeCorrect, PTL DEF Spec, OnlyHeardLeaves

\* A row whose outcome is unknown stays for whoever sees it to decide.
THEOREM UncertainIsKept == Spec => UncertainKept
<1> DEFINE Step == \A m \in Msg : status[m] = "uncertain" /\ gate.msg # m => status'[m] \in {"uncertain", "gone"}
<1>1. TypeOK /\ Delivered /\ [Next]_vars => [Step]_vars
  BY UncertainStays DEF Delivered
<1> QED
  BY <1>1, DeliveredAlways, TypeCorrect, PTL DEF Spec, UncertainKept

\* The text session_rebuild gives back as a draft has never reached the provider.
THEOREM DraftsUnheard == Spec => []DraftRestoredUnheard
<1>1. TypeOK /\ Delivered => DraftRestoredUnheard
  BY DEF TypeOK, TurnsOK, Delivered, Heard, DraftRestoredUnheard, Restorable
<1> QED
  BY <1>1, DeliveredAlways, TypeCorrect, PTL

----------------------------------------------------------------------------
(* SessionQueue implements MessageFate: each of its steps moves every      *)
(* message as the promise allows, or not at all.                           *)

\* The steps that move a row, hand over its message or change the live turn.
LEMMA RowsShift ==
    ASSUME [Next]_vars
    PROVE
        \/ /\ UNCHANGED <<status, via, copies, live, carries>>
           /\ task' \in BeforeSend => task \in BeforeSend
        \/ Clear \/ SendAdmit \/ StartAdmit \/ ResumeApply \/ ReadRefused \/ ReadLive
        \/ MarkSteer \/ Control \/ Conclude \/ Open \/ Claim \/ NotIdle \/ Dispatch
        \/ Acknowledge \/ SettleQueue \/ Release \/ DrainTimeout \/ Restart
        \/ \E m \in Msg : FollowUp(m) \/ Steer(m) \/ Remove(m)
  BY DEF Next, UserStep, QueueLocks, QueueStep, AdmissionStep, TaskStep, StopLocks, StopStep,
      turnVars, SendNow, durable, rowVars, Send, volatile, StopBegin, Stopping, ResumeCheck, Goal,
      Unarchive, Wake, InvokeIdle, Awaited, Invoke, Drained, TaskInvoke, MarkSent, Elsewhere,
      NativeStart, Event, Terminal, Reply, HostTerminal, StopLook, StopAdmit, StopRead, StopFlag,
      StopClose, StopArchive, Ask, Resolve, Fail, StopTimeout, vars, BeforeSend

----------------------------------------------------------------------------
(* The message of a turn that is not dispatched yet.                       *)

\* It is claimed for the turn, or was never queued: its row cannot have been removed,
\* resumed or settled before the provider has it.
Bearing ==
    live # 0 /\ task \in BeforeSend /\ carries[live] # 0 =>
        \/ status[carries[live]] = "sending"
        \/ status[carries[live]] = "gone" /\ via[carries[live]] = "direct"

\* Initially there is no turn.
LEMMA BearingInit == Init => Bearing
  BY DEF Init, Bearing

\* Nobody but its own task moves the row of a turn that is not dispatched.
LEMMA BearingStep == TypeOK /\ Delivered /\ Bearing /\ [Next]_vars => Bearing'
<1> SUFFICES ASSUME TypeOK, Delivered, Bearing, [Next]_vars PROVE Bearing'
  OBVIOUS
<1>0. /\ gate \in GateSet /\ (adm.by = "gate" => gate.pc = "start") /\ (live = 0 <=> task = "none")
      /\ live \in Turn \union {0} /\ status \in [Msg -> MsgStates]
      /\ via \in [Msg -> {"turn", "steer", "direct"}] /\ carries \in [Turn -> Msg \union {0}]
      /\ Places /\ Carried /\ SteerHolds /\ StartHolds
  BY DEF TypeOK, RowsOK, TurnsOK, LocksOK, LiveOK, Delivered, HandedOnce
<1>1. CASE UNCHANGED <<status, via, copies, live, carries>> /\ (task' \in BeforeSend => task \in BeforeSend)
  BY <1>1 DEF Bearing
<1>2. ASSUME NEW m \in Msg, FollowUp(m) PROVE Bearing'
  BY <1>0, <1>2 DEF FollowUp, Enqueue, SetRow, turnVars, GateFree, IsNextMsg, Carried, Bearing
<1>3. ASSUME NEW m \in Msg, Steer(m) PROVE Bearing'
  BY <1>0, <1>3 DEF Steer, Enqueue, SetRow, turnVars, GateFree, IsNextMsg, Carried, Bearing
<1>4. ASSUME NEW m \in Msg, Remove(m) PROVE Bearing'
  BY <1>0, <1>4 DEF Remove, Withdraw, turnVars, volatile, RowStates, Bearing
<1>5. CASE Clear
  BY <1>0, <1>5 DEF Clear, Withdraw, turnVars, volatile, RowStates, Bearing
<1>6. CASE SendAdmit
  BY <1>0, <1>6 DEF SendAdmit, Enqueue, SetRow, turnVars, rowVars, Carried, StartHolds, Bearing
<1>7. CASE StartAdmit
  BY <1>0, <1>7
  DEF StartAdmit, FailQueued, Restate, rowVars, Delivering, turnVars, Carried, StartHolds,
      Deliverable, Bearing
<1>8. CASE ResumeApply
  BY <1>0, <1>8 DEF ResumeApply, Retried, turnVars, Bearing
<1>9. CASE ReadRefused
  BY <1>0, <1>9
  DEF ReadRefused, DeliveryError, FailQueued, Restate, rowVars, Delivering, turnVars, Carried,
      StartHolds, Deliverable, Places, Bearing
<1>10. CASE ReadLive
  BY <1>0, <1>10
  DEF ReadLive, DeliveryError, FailQueued, Restate, rowVars, Delivering, turnVars, Carried,
      StartHolds, Deliverable, Bearing
<1>11. CASE MarkSteer
  BY <1>0, <1>11 DEF MarkSteer, SetRow, turnVars, Carried, StartHolds, Deliverable, Bearing
<1>12. CASE Control
  BY <1>0, <1>12 DEF Control, Answered, durable, rowVars, turnVars, BeforeSend, Bearing
<1>13. CASE Conclude
  BY <1>0, <1>13
  DEF Conclude, SetRow, FailQueued, Restate, Delivering, turnVars, HostError, SteeringRejection,
      SteerHolds, Steering, Bearing
<1>14. CASE Open
  BY <1>0, <1>14
  DEF Open, Abort, FailQueued, Restate, rowVars, turnVars, Carried, StartHolds, Deliverable, Bearing
<1>15. CASE Claim
  BY <1>0, <1>15 DEF Claim, SetRow, rowVars, IsNextTurn, StartHolds, Bearing
<1>16. CASE NotIdle
  BY <1>0, <1>16
  DEF NotIdle, Abort, FailQueued, Restate, rowVars, turnVars, Carried, StartHolds, Deliverable,
      Bearing
<1>17. CASE Dispatch
  BY <1>0, <1>17 DEF Dispatch, durable, rowVars, turnVars, Elsewhere, BeforeSend, Bearing
<1>18. CASE Acknowledge
  BY <1>0, <1>18 DEF Acknowledge, Acknowledged, turnVars, Elsewhere, BeforeSend, Bearing
<1>19. CASE SettleQueue
  BY <1>0, <1>19 DEF SettleQueue, Unacknowledged, turnVars, Elsewhere, BeforeSend, Bearing
<1>20. CASE Release
  BY <1>0, <1>20 DEF Release, durable, rowVars, turnVars, Elsewhere, BeforeSend, Bearing
<1>21. CASE DrainTimeout
  BY <1>0, <1>21
  DEF DrainTimeout, DeliveryError, FailQueued, Restate, rowVars, Delivering, turnVars, Carried,
      StartHolds, Deliverable, Bearing
<1>22. CASE Restart
  BY <1>0, <1>22 DEF Restart, Recovered, Bearing
<1> QED
  BY <1>1, <1>2, <1>3, <1>4, <1>5, <1>6, <1>7, <1>8, <1>9, <1>10, <1>11, <1>12, <1>13, <1>14,
      <1>15, <1>16, <1>17, <1>18, <1>19, <1>20, <1>21, <1>22, RowsShift

\* A message that is sent directly has the session gate from the moment it is known to
\* start a turn.
Inside == gate.pc = "start" /\ gate.op = "send" => adm.by = "gate"

\* The steps that move the queue gate or the session gate.
LEMMA GatesMove ==
    ASSUME [Next]_vars
    PROVE
        \/ UNCHANGED <<gate, adm>>
        \/ ResumeCheck \/ Wake \/ SendAdmit \/ InvokeIdle \/ StartAdmit \/ ResumeApply
        \/ ReadRefused \/ ReadLive \/ Awaited \/ MarkSteer \/ Invoke \/ Control \/ Conclude
        \/ Drained \/ Open \/ Claim \/ NotIdle \/ DrainTimeout \/ Restart
        \/ Goal \/ StopLook \/ StopFlag \/ StopAdmit \/ StopClose \/ StopTimeout
        \/ \E m \in Msg : Steer(m) \/ SendNow(m) \/ Send(m)
  BY DEF Next, UserStep, QueueLocks, QueueStep, AdmissionStep, TaskStep, StopLocks, StopStep,
      FollowUp, Remove, Clear, Withdraw, volatile, Unarchive, StopBegin, Stopping, TaskInvoke,
      MarkSent, Dispatch, NativeStart, Event, Acknowledge, Terminal, Reply, HostTerminal,
      SettleQueue, Release, Elsewhere, StopRead, StopArchive, Ask, Resolve, Fail, vars

LEMMA InsideInit == Init => Inside
  BY DEF Init, Inside, FreeGate

\* Only the operation that holds both gates gives up the second, and the first with it.
LEMMA InsideStep == TypeOK /\ Delivered /\ Inside /\ [Next]_vars => Inside'
<1> SUFFICES ASSUME TypeOK, Places, StartHolds, Inside, [Next]_vars PROVE Inside'
  BY DEF Delivered, HandedOnce
<1>0. gate \in GateSet /\ adm \in AdmSet /\ (adm.by = "gate" => gate.pc = "start")
  BY DEF TypeOK, LocksOK
<1>1. CASE UNCHANGED <<gate, adm>>
  BY <1>1 DEF Inside
<1>2. ASSUME NEW m \in Msg, Steer(m) PROVE Inside'
  BY <1>0, <1>2, GateFields DEF Steer, FreeGate, Inside
<1>3. ASSUME NEW m \in Msg, SendNow(m) PROVE Inside'
  BY <1>0, <1>3, GateFields DEF SendNow, FreeGate, Inside
<1>4. ASSUME NEW m \in Msg, Send(m) PROVE Inside'
  BY <1>0, <1>4, GateFields DEF Send, FreeGate, Inside
<1>5. CASE ResumeCheck
  BY <1>0, <1>5, GateFields DEF ResumeCheck, Inside
<1>6. CASE Wake
  BY <1>0, <1>6, GateFields DEF Wake, Inside
<1>7. CASE SendAdmit
  BY <1>0, <1>7, GateFields DEF SendAdmit, FreeGate, Inside
<1>8. CASE InvokeIdle
  BY <1>0, <1>8, GateFields DEF InvokeIdle, Inside
<1>9. CASE StartAdmit
  <2>1. ~(gate.pc = "start" /\ gate.op = "send") /\ (gate' = FreeGate \/ UNCHANGED gate)
    BY <1>9 DEF StartAdmit, AdmFree, Inside
  <2> QED
    BY <2>1 DEF FreeGate, Inside
<1>10. CASE ResumeApply
  BY <1>0, <1>10 DEF ResumeApply, FreeGate, Inside
<1>11. CASE ReadRefused
  BY <1>11, GateFields DEF ReadRefused, DeliveryError, Inside
<1>12. CASE ReadLive
  BY <1>0, <1>12, GateFields DEF ReadLive, DeliveryError, FreeGate, StartHolds, Inside
<1>13. CASE Awaited
  BY <1>0, <1>13, GateFields DEF Awaited, StartHolds, Inside
<1>14. CASE MarkSteer
  BY <1>0, <1>14, GateFields DEF MarkSteer, Inside
<1>15. CASE Invoke
  BY <1>0, <1>15, GateFields DEF Invoke, Inside
<1>16. CASE Control
  BY <1>0, <1>16, GateFields DEF Control, Inside
<1>17. CASE Conclude
  BY <1>0, <1>17, GateFields DEF Conclude, FreeGate, Inside
<1>18. CASE Drained
  BY <1>0, <1>18, GateFields DEF Drained, FreeGate, StartHolds, Inside
<1>19. CASE Open
  <2>1. \/ UNCHANGED gate /\ adm' = [adm EXCEPT !.pc = "commit"]
        \/ adm.by = "gate" /\ gate' = FreeGate
        \/ adm.by # "gate" /\ UNCHANGED gate
    BY <1>19 DEF Open, Abort
  <2> QED
    BY <1>0, <2>1, GateFields DEF AdmSet, Inside
<1>20. CASE Claim
  BY <1>0, <1>20 DEF Claim, FreeGate, FreeAdm, Inside
<1>21. CASE NotIdle
  BY <1>0, <1>21 DEF NotIdle, Abort, FreeGate, Inside
<1>22. CASE DrainTimeout
  BY <1>0, <1>22 DEF DrainTimeout, DeliveryError, FreeGate, Inside
<1>23. CASE Restart
  BY <1>0, <1>23 DEF Restart, FreeGate, Inside
<1>24. CASE Goal
  BY <1>0, <1>24 DEF Goal, AdmFree, Inside
<1>25. CASE StopLook
  BY <1>0, <1>25 DEF StopLook, Stopping, AdmFree, Inside
<1>26. CASE StopFlag
  BY <1>0, <1>26 DEF StopFlag, Stopping, AfterCancel, FreeAdm, Inside
<1>27. CASE StopAdmit
  BY <1>0, <1>27 DEF StopAdmit, Stopping, AdmFree, Inside
<1>28. CASE StopClose
  BY <1>0, <1>28 DEF StopClose, Stopping, Places, Inside
<1>29. CASE StopTimeout
  BY <1>0, <1>29 DEF StopTimeout, Stopping, Places, Inside
<1> QED
  BY <1>1, <1>2, <1>3, <1>4, <1>5, <1>6, <1>7, <1>8, <1>9, <1>10, <1>11, <1>12, <1>13, <1>14,
      <1>15, <1>16, <1>17, <1>18, <1>19, <1>20, <1>21, <1>22, <1>23, <1>24, <1>25, <1>26, <1>27,
      <1>28, <1>29, GatesMove

----------------------------------------------------------------------------
(* What a step does to one message.                                        *)

\* The row rests or is retried, is made, claimed, withdrawn, confirmed, given back or left
\* in doubt; or the provider is handed the message.
RowStep(n) ==
    \/ /\ copies'[n] = copies[n]
       /\ \/ status'[n] = status[n] /\ (via'[n] = via[n] \/ status[n] # "gone")
          \/ status[n] \in Deliverable /\ status'[n] \in Deliverable
          \/ status[n] = "unsent" /\ status'[n] = "pending"
          \/ status[n] = "unsent" /\ status'[n] = "gone" /\ via'[n] = "direct"
          \/ status[n] \in Deliverable /\ status'[n] = "sending"
          \/ status[n] \in Deliverable \union {"uncertain"} /\ status'[n] = "gone" /\ via'[n] # "direct"
          \/ /\ status[n] \in {"sending", "uncertain"} /\ copies[n] = 1
             /\ status'[n] = "gone" /\ via'[n] # "direct"
          \/ status[n] \in {"sending", "uncertain"} /\ copies[n] = 0 /\ status'[n] \in Deliverable
          \/ status[n] = "sending" /\ status'[n] = "uncertain"
    \/ /\ copies[n] = 0 /\ copies'[n] = 1
       /\ status'[n] = status[n] /\ via'[n] = via[n]
       /\ status[n] \in {"sending", "uncertain"} \/ (status[n] = "gone" /\ via[n] = "direct")

\* No step does anything else.
LEMMA RowsStep ==
    ASSUME TypeOK, Delivered, Bearing, Inside, [Next]_vars, NEW n \in Msg
    PROVE  RowStep(n)
<1>0. /\ gate \in GateSet /\ (adm.by = "gate" => gate.pc = "start") /\ (live = 0 <=> task = "none")
      /\ live \in Turn \union {0} /\ status \in [Msg -> MsgStates] /\ copies \in [Msg -> Nat]
      /\ via \in [Msg -> {"turn", "steer", "direct"}] /\ carries \in [Turn -> Msg \union {0}]
      /\ copies[n] <= 1 /\ Undispatched /\ SteerHolds /\ StartHolds /\ Claims /\ Heard
      /\ 0 \notin Msg /\ 0 \notin Turn
  BY MessagePositive, TurnPositive
  DEF TypeOK, RowsOK, TurnsOK, LocksOK, LiveOK, Delivered, HandedOnce, AtMostOnce
<1>1. CASE UNCHANGED <<status, via, copies>>
  BY <1>1 DEF RowStep
<1>2. ASSUME NEW m \in Msg, FollowUp(m) PROVE RowStep(n)
  BY <1>0, <1>2 DEF FollowUp, Enqueue, SetRow, turnVars, GateFree, IsNextMsg, RowStep
<1>3. ASSUME NEW m \in Msg, Steer(m) PROVE RowStep(n)
  BY <1>0, <1>3 DEF Steer, Enqueue, SetRow, turnVars, GateFree, IsNextMsg, RowStep
<1>4. ASSUME NEW m \in Msg, Remove(m) PROVE RowStep(n)
  BY <1>0, <1>4 DEF Remove, Withdraw, turnVars, volatile, RowStates, Deliverable, RowStep
<1>5. CASE Clear
  BY <1>0, <1>5 DEF Clear, Withdraw, turnVars, volatile, RowStates, Deliverable, RowStep
<1>6. CASE SendAdmit
  BY <1>0, <1>6 DEF SendAdmit, Enqueue, SetRow, turnVars, rowVars, StartHolds, RowStep
<1>7. CASE StartAdmit
  <2>1. gate.msg \in Msg /\ (live # 0 => status[gate.msg] \in Deliverable)
    BY <1>0, <1>7 DEF StartAdmit, StartHolds, Inside, AdmFree
  <2> QED
    BY <1>0, <1>7, <2>1
    DEF StartAdmit, FailQueued, Restate, rowVars, Delivering, turnVars, Deliverable, RowStep
<1>8. CASE ResumeApply
  BY <1>0, <1>8 DEF ResumeApply, Retried, turnVars, Deliverable, RowStep
<1>9. CASE ReadRefused
  BY <1>0, <1>9
  DEF ReadRefused, DeliveryError, FailQueued, Restate, rowVars, Delivering, turnVars, StartHolds,
      Deliverable, RowStep
<1>10. CASE ReadLive
  BY <1>0, <1>10
  DEF ReadLive, DeliveryError, FailQueued, Restate, rowVars, Delivering, turnVars, StartHolds,
      Deliverable, RowStep
<1>11. CASE MarkSteer
  BY <1>0, <1>11 DEF MarkSteer, SetRow, turnVars, StartHolds, Deliverable, RowStep
<1>12. CASE Control
  BY <1>0, <1>12 DEF Control, Answered, durable, rowVars, turnVars, SteerHolds, Steering, RowStep
<1>13. CASE Conclude
  <2>1. /\ gate.msg \in Msg /\ status[gate.msg] \in {"sending", "uncertain"} /\ gate.answer \in Answers
        /\ gate.answer = "ok" => copies[gate.msg] > 0
        /\ gate.answer \notin {"ok", "lost"} => copies[gate.msg] = 0
    BY <1>0, <1>13 DEF Conclude, SteerHolds, StartHolds, Steering, Heard, GateSet
  <2>2. UNCHANGED copies
    BY <1>13 DEF Conclude
  <2>3. CASE gate.answer = "ok"
    <3>1. HostError(gate.answer) = "ok"
      BY <2>3 DEF HostError
    <3>2. SetRow(gate.msg, "gone", "turn", 0)
      BY <1>13, <3>1 DEF Conclude
    <3>3. copies[gate.msg] > 0 /\ copies[n] \in Nat
      BY <1>0, <2>1, <2>3
    <3>4. n = gate.msg => copies[n] = 1
      BY <1>0, <3>3
    <3> QED
      BY <1>0, <2>1, <2>2, <3>2, <3>4 DEF SetRow, RowStep
  <2>4. CASE gate.answer = "finished"
    <3>1. HostError(gate.answer) = "finished" /\ SteeringRejection("finished").stale
      BY <2>4 DEF HostError, SteeringRejection
    <3>2. SetRow(gate.msg, "pending", via[gate.msg], 0)
      BY <1>13, <3>1 DEF Conclude
    <3> QED
      BY <1>0, <2>1, <2>2, <2>4, <3>2 DEF SetRow, Deliverable, RowStep
  <2>5. CASE gate.answer \notin {"ok", "finished"}
    <3>1. HostError(gate.answer) = "transport_failed"
      BY <2>5 DEF HostError
    <3>2. ~SteeringRejection("transport_failed").stale /\ ~SteeringRejection("transport_failed").rejected
      BY DEF SteeringRejection
    <3>3. FailQueued(gate.msg, TRUE)
      BY <1>13, <3>1, <3>2 DEF Conclude
    <3> QED
      BY <1>0, <2>1, <2>2, <3>3 DEF FailQueued, Restate, RowStep
  <2> QED
    BY <2>3, <2>4, <2>5
<1>14. CASE Open
  BY <1>0, <1>14
  DEF Open, Abort, FailQueued, Restate, rowVars, turnVars, StartHolds, Deliverable, RowStep
<1>15. CASE Claim
  BY <1>0, <1>15 DEF Claim, SetRow, rowVars, IsNextTurn, StartHolds, Deliverable, RowStep
<1>16. CASE NotIdle
  BY <1>0, <1>16
  DEF NotIdle, Abort, FailQueued, Restate, rowVars, turnVars, StartHolds, Deliverable, RowStep
<1>17. CASE Dispatch
  BY <1>0, <1>17
  DEF Dispatch, durable, rowVars, turnVars, Elsewhere, Undispatched, Bearing, BeforeSend, RowStep
<1>18. CASE Acknowledge
  BY <1>0, <1>18
  DEF Acknowledge, Acknowledged, turnVars, Elsewhere, Claims, ClaimsOwned, Heard, RowStep
<1>19. CASE SettleQueue
  BY <1>0, <1>19 DEF SettleQueue, Unacknowledged, turnVars, Elsewhere, RowStep
<1>20. CASE DrainTimeout
  BY <1>0, <1>20
  DEF DrainTimeout, DeliveryError, FailQueued, Restate, rowVars, Delivering, turnVars, StartHolds,
      Deliverable, RowStep
<1>21. CASE Restart
  BY <1>0, <1>21 DEF Restart, Recovered, RowStep
<1>22. CASE Release
  BY <1>0, <1>22 DEF Release, durable, rowVars, turnVars, Elsewhere, RowStep
<1> QED
  BY <1>1, <1>2, <1>3, <1>4, <1>5, <1>6, <1>7, <1>8, <1>9, <1>10, <1>11, <1>12, <1>13, <1>14,
      <1>15, <1>16, <1>17, <1>18, <1>19, <1>20, <1>21, <1>22, RowsShift

\* Each of these is a step of the message's fate, or none.
LEMMA RowsFate ==
    ASSUME TypeOK, TypeOK', NEW n \in Msg, RowStep(n)
    PROVE  Fate!Step(n) \/ (FateOf(n)' = FateOf(n) /\ copies'[n] = copies[n])
<1>1. status[n] \in MsgStates /\ status'[n] \in MsgStates
  BY DEF TypeOK, RowsOK
<1> QED
  BY <1>1
  DEF RowStep, FateOf, Deliverable, MsgStates, RowStates, Fate!Step, Fate!Submit, Fate!Claim,
      Fate!Withdraw, Fate!Hear, Fate!Confirm, Fate!Return, Fate!Doubt, Fate!Moves

\* SessionQueue keeps the promise of MessageFate about every message.
THEOREM Implements == Spec => KeepsPromise
<1>1. Init => Fate!Init
  BY DEF Init, Fate!Init, FateOf
<1>2. TypeOK /\ TypeOK' /\ Delivered /\ Bearing /\ Inside /\ [Next]_vars
        => [Fate!Next]_<<[m \in Msg |-> FateOf(m)], copies>>
  BY RowsStep, RowsFate DEF Fate!Next
<1>3. Spec => [](Bearing /\ Inside)
  <2>1. TypeOK /\ Delivered /\ Bearing /\ Inside /\ [Next]_vars => Bearing' /\ Inside'
    BY BearingStep, InsideStep
  <2> QED
    BY <2>1, BearingInit, InsideInit, TypeCorrect, DeliveredAlways, PTL DEF Spec
<1> QED
  BY <1>1, <1>2, <1>3, TypeCorrect, DeliveredAlways, PTL DEF Spec, KeepsPromise, Fate!Spec

----------------------------------------------------------------------------
(* A session that is recorded as busy when nothing runs in it.             *)

\* Where the session offers no resume, nobody is inside one.
LEMMA NobodyResumes ==
    ASSUME "resume" \notin Commands, TypeOK, gate.pc # "apply", [Next]_vars
    PROVE  gate'.pc # "apply"
<1>types. gate \in GateSet
  BY DEF TypeOK, LocksOK
<1>1. CASE UNCHANGED gate
  BY <1>1
<1>2. ASSUME NEW m \in Msg, Steer(m) PROVE gate'.pc # "apply"
  BY <1>types, GateFields, <1>2 DEF Steer, Enqueue, SetRow, turnVars, GateFree, IsNextMsg
<1>3. ASSUME NEW m \in Msg, SendNow(m) PROVE gate'.pc # "apply"
  BY <1>types, GateFields, <1>3 DEF SendNow, durable, rowVars, turnVars, GateFree
<1>4. ASSUME NEW m \in Msg, Send(m) PROVE gate'.pc # "apply"
  BY <1>types, GateFields, <1>4 DEF Send, durable, rowVars, turnVars, GateFree, IsNextMsg
<1>5. CASE ResumeCheck
  BY <1>types, GateFields, <1>5 DEF ResumeCheck, durable, rowVars, turnVars, GateFree, Offered
<1>6. CASE Wake
  BY <1>types, GateFields, <1>6 DEF Wake, durable, rowVars, turnVars, GateFree
<1>7. CASE SendAdmit
  BY <1>types, GateFields, <1>7 DEF SendAdmit, Enqueue, SetRow, turnVars, rowVars, AdmFree,
      MustQueue
<1>8. CASE InvokeIdle
  BY <1>types, GateFields, <1>8 DEF InvokeIdle, turnVars, rowVars, Closed, AdmFree
<1>9. CASE StartAdmit
  BY <1>types, GateFields, <1>9 DEF StartAdmit, FailQueued, Restate, rowVars, Delivering, turnVars,
      AdmFree, HeldBack, Immediate
<1>10. CASE ResumeApply
  BY <1>types, GateFields, <1>10 DEF ResumeApply, Retried, turnVars
<1>11. CASE ReadRefused
  BY <1>types, GateFields, <1>11 DEF ReadRefused, DeliveryError, FailQueued, Restate, rowVars,
      Delivering, turnVars
<1>12. CASE ReadLive
  BY <1>types, GateFields, <1>12 DEF ReadLive, DeliveryError, FailQueued, Restate, rowVars,
      Delivering, turnVars, Immediate
<1>13. CASE Awaited
  BY <1>types, GateFields, <1>13 DEF Awaited, durable, rowVars, turnVars
<1>14. CASE MarkSteer
  BY <1>types, GateFields, <1>14 DEF MarkSteer, SetRow, turnVars
<1>15. CASE Invoke
  BY <1>types, GateFields, <1>15 DEF Invoke, durable, rowVars, turnVars
<1>16. CASE Control
  BY <1>types, GateFields, <1>16 DEF Control, durable, rowVars, turnVars
<1>17. CASE Conclude
  BY <1>types, GateFields, <1>17 DEF Conclude, SetRow, FailQueued, Restate, Delivering, turnVars,
      HostError, SteeringRejection
<1>18. CASE Drained
  BY <1>types, GateFields, <1>18 DEF Drained, durable, rowVars, turnVars
<1>19. CASE Open
  BY <1>types, GateFields, <1>19 DEF Open, Abort, Freed, FreeAdm, FailQueued, Restate, rowVars,
      turnVars, Closed
<1>20. CASE Claim
  BY <1>types, GateFields, <1>20 DEF Claim, SetRow, rowVars, FreeAdm, IsNextTurn
<1>21. CASE NotIdle
  BY <1>types, GateFields, <1>21 DEF NotIdle, Abort, Freed, FreeAdm, FailQueued, Restate, rowVars,
      turnVars
<1>22. CASE DrainTimeout
  BY <1>types, GateFields, <1>22 DEF DrainTimeout, DeliveryError, FailQueued, Restate, rowVars,
      Delivering, turnVars
<1>23. CASE Restart
  BY <1>types, GateFields, <1>23 DEF Restart, Recovered, Recoverable, FreeAdm, NoStop, FreeGate
<1> QED
  BY <1>1, <1>2, <1>3, <1>4, <1>5, <1>6, <1>7, <1>8, <1>9, <1>10, <1>11, <1>12, <1>13, <1>14, <1>15,
      <1>16, <1>17, <1>18, <1>19, <1>20, <1>21, <1>22, <1>23, GateMove

\* Only a resume and a new turn take a pause away.
LEMMA PauseStays == TypeOK /\ [Next]_vars => (paused => paused') \/ ResumeApply \/ Claim
<1> SUFFICES ASSUME TypeOK, [Next]_vars, paused, ~ResumeApply, ~Claim PROVE paused'
  OBVIOUS
<1>1. CASE UNCHANGED <<status, paused>>
  BY <1>1
<1>2. ASSUME NEW m \in Msg, FollowUp(m) \/ Steer(m) \/ Remove(m) PROVE paused'
  BY <1>2 DEF FollowUp, Steer, Remove, Withdraw
<1>3. CASE Clear \/ SendAdmit \/ StartAdmit \/ ReadRefused \/ ReadLive \/ MarkSteer \/ Conclude
  BY <1>3 DEF Clear, Withdraw, SendAdmit, StartAdmit, ReadRefused, ReadLive, MarkSteer, Conclude,
      DeliveryError, FailQueued
<1>4. CASE Open \/ NotIdle \/ Acknowledge \/ SettleQueue \/ StopFlag \/ DrainTimeout \/ Restart
  BY <1>4 DEF Open, NotIdle, Abort, Acknowledge, SettleQueue, StopFlag, DrainTimeout, Restart,
      DeliveryError, FailQueued
<1> QED
  BY <1>1, <1>2, <1>3, <1>4, PauseMove

Busy == session \in {"running", "waiting"}

\* While a turn lives the session is busy only if that turn runs.  With a provider
\* that ends its turns a session is not busy without one; with another it is, but
\* then its queue is paused, and stays so unless it is resumed.
Dormant ==
    /\ adm.by = "goal" => "goal" \in Commands
    /\ "resume" \notin Commands => gate.pc # "apply"
    /\ live # 0 /\ Busy => turns[live] = "running"
    /\ Truthful /\ Busy => live # 0
    /\ "resume" \notin Commands /\ Busy /\ (live = 0 \/ task = "settled") => paused

\* Initially the session is idle.
LEMMA DormantInit == Init => Dormant
  BY DEF Init, Dormant, Busy, FreeAdm, FreeGate

\* A turn that its provider has not ended when its task goes pauses the queue.
LEMMA DormantStep == TypeOK /\ Places /\ Ended /\ Dormant /\ [Next]_vars => Dormant'
<1> SUFFICES ASSUME TypeOK, Places, Ended, Dormant, [Next]_vars PROVE Dormant'
  OBVIOUS
<1>0. /\ (live = 0 <=> task = "none") /\ live \in Turn \union {0} /\ adm \in AdmSet
      /\ turns \in [Turn -> Terminals \union {"none", "running"}]
  BY DEF TypeOK, LiveOK, TurnsOK, LocksOK
<1>1. adm'.by = "goal" => "goal" \in Commands
  <2>1. CASE UNCHANGED <<adm, stop, session, archived, live>>
      BY <2>1 DEF Dormant
  <2>2. ASSUME NEW op \in {"stop", "close", "archive"}, StopBegin(op) PROVE adm' = adm
      BY <2>2 DEF StopBegin
  <2>3. CASE Goal
      BY <2>3 DEF Goal, Offered
  <2>4. CASE Unarchive \/ InvokeIdle \/ Terminal \/ HostTerminal \/ Release \/ Ask \/ Resolve
    <3>1. adm' = adm
        BY <2>4 DEF Unarchive, InvokeIdle, Terminal, HostTerminal, Release, Ask, Resolve, Event, Elsewhere
    <3> QED
        BY <3>1 DEF Dormant
  <2>5. CASE SendAdmit \/ StartAdmit \/ Open \/ Claim \/ NotIdle \/ Restart
    <3>1. adm' \in {adm, FreeAdm, [by |-> "gate", pc |-> "open"], [adm EXCEPT !.pc = "commit"]}
      <4>1. SendAdmit => adm' \in {adm, [by |-> "gate", pc |-> "open"]}
          BY DEF SendAdmit
      <4>2. StartAdmit => adm' \in {adm, [by |-> "gate", pc |-> "open"]}
          BY DEF StartAdmit
      <4>3. Open => adm' \in {FreeAdm, [adm EXCEPT !.pc = "commit"]}
          BY DEF Open, Abort, Freed
      <4>4. Claim \/ NotIdle \/ Restart => adm' = FreeAdm
          BY DEF Claim, NotIdle, Abort, Freed, Restart
      <4> QED
          BY <2>5, <4>1, <4>2, <4>3, <4>4
    <3>2. adm'.by \in {adm.by, "none", "gate"}
        BY <1>0, <3>1 DEF FreeAdm, AdmSet
    <3> QED
        BY <3>2 DEF Dormant
  <2>6. CASE StopLook \/ StopAdmit \/ StopRead \/ StopFlag \/ StopClose \/ StopArchive \/ StopTimeout
      BY <2>6 DEF StopLook, StopAdmit, StopRead, StopFlag, StopClose, StopArchive, StopTimeout,
          AfterCancel, FreeAdm, Dormant
  <2> QED
      BY <2>1, <2>2, <2>3, <2>4, <2>5, <2>6, PlacesMove DEF Dormant
<1>2. "resume" \notin Commands => gate'.pc # "apply"
  BY NobodyResumes DEF Dormant
<1>3. "resume" \notin Commands => (paused => paused') \/ Claim
  BY PauseStays DEF Dormant, ResumeApply
<1> DEFINE Rests ==
      /\ live # 0 /\ Busy => turns[live] = "running"
      /\ Truthful /\ Busy => live # 0
      /\ "resume" \notin Commands /\ Busy /\ (live = 0 \/ task = "settled") => paused
<1>4. Rests
  BY DEF Dormant
<1>5. Rests'
  <2>1. CASE UNCHANGED <<turns, session, live, task>>
    <3>1. ~Claim
        BY <1>0, <2>1 DEF Claim, Places, AdmSet, Turn
    <3> QED
        BY <1>3, <1>4, <2>1, <3>1 DEF Busy
  <2>2. CASE Unarchive \/ StopClose
      BY <2>2 DEF Unarchive, StopClose, Busy
  <2>3. CASE InvokeIdle \/ Open
    <3>1. UNCHANGED <<turns, live, task>> /\ session' \in {session, "idle"}
        BY <2>3 DEF InvokeIdle, Open, turnVars
    <3>2. ~Claim
        BY <1>0, <2>3, <3>1 DEF Claim, Places, InvokeIdle, Open, AdmFree
    <3> QED
        BY <1>3, <1>4, <3>1, <3>2 DEF Busy
  <2>4. CASE Claim
    <3>1. PICK t \in Turn : turns' = [turns EXCEPT ![t] = "running"] /\ live' = t
        BY <2>4 DEF Claim
    <3>2. turns'[live'] = "running" /\ live' # 0 /\ task' = "spawned"
        BY <1>0, <2>4, <3>1, TurnPositive DEF Claim
    <3> QED
        BY <3>2
  <2>5. CASE TaskInvoke \/ MarkSent \/ Dispatch \/ Acknowledge \/ Reply \/ Fail
    <3>1. UNCHANGED <<turns, session, live>> /\ live # 0 /\ task' # "settled"
        BY <1>0, <2>5 DEF TaskInvoke, MarkSent, Dispatch, Acknowledge, Reply, Fail, durable, turnVars,
            Interactive
    <3> QED
        BY <1>4, <3>1 DEF Busy
  <2>6. CASE NativeStart \/ Ask \/ Resolve
    <3>1. /\ live # 0 /\ UNCHANGED live /\ task' # "settled"
          /\ turns[live] = "running" /\ turns' = [turns EXCEPT ![live] = "running"]
        BY <1>0, <2>6 DEF NativeStart, Ask, Resolve, Event
    <3>2. turns'[live'] = "running"
        BY <1>0, <3>1
    <3> QED
        BY <3>1, <3>2
  <2>7. CASE Terminal
      BY <2>7 DEF Terminal, Event, Terminals, Busy
  <2>8. CASE HostTerminal
      BY <1>0, <1>4, <2>8 DEF HostTerminal, AlreadyEnded, Busy
  <2>9. CASE SettleQueue
    <3>1. UNCHANGED <<turns, session, live>> /\ live # 0 /\ paused' = (paused \/ TurnPauses)
        BY <1>0, <2>9 DEF SettleQueue, turnVars
    <3>2. Busy => TurnPauses
        BY <1>4, <3>1 DEF TurnPauses
    <3> QED
        BY <1>4, <3>1, <3>2 DEF Busy
  <2>10. CASE Release
    <3>1. /\ task = "settled" /\ live # 0 /\ live' = 0
          /\ UNCHANGED <<session, paused>>
        BY <1>0, <2>10 DEF Release, durable
    <3>2. Truthful => ~Busy
        BY <1>4, <3>1 DEF Ended
    <3> QED
        BY <1>4, <3>1, <3>2 DEF Busy
  <2>11. CASE Restart
      BY <2>11 DEF Restart, Recoverable, Places, Busy
  <2> QED
      BY <2>1, <2>2, <2>3, <2>4, <2>5, <2>6, <2>7, <2>8, <2>9, <2>10, <2>11, EndedMove
<1> QED
  BY <1>1, <1>2, <1>5 DEF Dormant, Busy

\* A goal that is resumed, and may fail once it has reopened the session, wakes no
\* queue that nobody would look at.
GoalsWait == adm.by = "goal" /\ Busy /\ live = 0 => paused

----------------------------------------------------------------------------
(* Wake-ups.                                                               *)

\* A schedule_queue task is waiting afterwards.
LEMMA Schedules == TypeOK => wakes \in Nat /\ Scheduled(wakes) \in Nat /\ Scheduled(wakes) > 0
  BY ConstantsAssumption DEF TypeOK, Scheduled

\* The steps that move the queue gate, the live turn or the scheduled dispatches.
LEMMA WakesMove ==
    ASSUME [Next]_vars
    PROVE
        \/ UNCHANGED <<gate, live, wakes>>
        \/ ResumeCheck \/ Wake \/ SendAdmit \/ InvokeIdle \/ StartAdmit \/ ResumeApply
        \/ ReadRefused \/ ReadLive \/ Awaited \/ MarkSteer \/ Invoke \/ Control \/ Conclude
        \/ Drained \/ Open \/ Claim \/ NotIdle \/ Release \/ DrainTimeout \/ Restart
        \/ \E m \in Msg : FollowUp(m) \/ Steer(m) \/ SendNow(m) \/ Send(m)
  BY DEF Next, UserStep, QueueLocks, QueueStep, AdmissionStep, TaskStep, StopLocks, StopStep,
      Remove, Withdraw, turnVars, volatile, StopBegin, Stopping, rowVars, Clear, Goal, durable,
      Unarchive, TaskInvoke, MarkSent, Elsewhere, Dispatch, NativeStart, Event, Acknowledge,
      Terminal, Reply, HostTerminal, SettleQueue, StopLook, StopAdmit, StopRead, StopFlag,
      StopClose, StopArchive, Ask, Resolve, Fail, StopTimeout, vars

\* A delivery that was decided on while a turn was live finds, when that turn is
\* gone, the dispatch its release has scheduled.
WakeLeft == gate.pc \in {"mark", "drain"} \union Steering /\ live = 0 => wakes > 0

\* Initially nobody holds the gate.
LEMMA WakeLeftInit == Init => WakeLeft
  BY DEF Init, WakeLeft, Steering, FreeGate

\* Only a release takes the live turn away, and it schedules a dispatch; a dispatch is
\* taken up only by the holder of the queue gate.
LEMMA WakeLeftStep == TypeOK /\ WakeLeft /\ [Next]_vars => WakeLeft'
<1> SUFFICES ASSUME TypeOK, WakeLeft, [Next]_vars PROVE WakeLeft'
  OBVIOUS
<1>types. /\ gate \in GateSet /\ live \in Turn \union {0} /\ (adm.by = "gate" => gate.pc = "start")
          /\ wakes \in Nat /\ Scheduled(wakes) > 0
  BY Schedules DEF TypeOK, LocksOK, LiveOK
<1>1. CASE UNCHANGED <<gate, live, wakes>>
  BY <1>1 DEF WakeLeft, Steering
<1>2. ASSUME NEW m \in Msg, FollowUp(m) PROVE WakeLeft'
  BY <1>types, GateFields, TurnPositive, <1>2 DEF FollowUp, Enqueue, SetRow, turnVars, GateFree,
      IsNextMsg, WakeLeft, Steering
<1>3. ASSUME NEW m \in Msg, Steer(m) PROVE WakeLeft'
  BY <1>types, GateFields, TurnPositive, <1>3 DEF Steer, Enqueue, SetRow, turnVars, GateFree,
      IsNextMsg, WakeLeft, Steering
<1>4. ASSUME NEW m \in Msg, SendNow(m) PROVE WakeLeft'
  BY <1>types, GateFields, TurnPositive, <1>4 DEF SendNow, durable, rowVars, turnVars, GateFree,
      WakeLeft, Steering
<1>5. ASSUME NEW m \in Msg, Send(m) PROVE WakeLeft'
  BY <1>types, GateFields, TurnPositive, <1>5 DEF Send, durable, rowVars, turnVars, GateFree,
      IsNextMsg, WakeLeft, Steering
<1>6. CASE ResumeCheck
  BY <1>types, GateFields, TurnPositive, <1>6 DEF ResumeCheck, durable, rowVars, turnVars, GateFree,
      Offered, WakeLeft, Steering
<1>7. CASE Wake
  BY <1>types, GateFields, TurnPositive, <1>7 DEF Wake, durable, rowVars, turnVars, GateFree,
      WakeLeft, Steering
<1>8. CASE SendAdmit
  BY <1>types, GateFields, TurnPositive, <1>8 DEF SendAdmit, Enqueue, SetRow, turnVars, rowVars,
      AdmFree, MustQueue, WakeLeft, Steering
<1>9. CASE InvokeIdle
  BY <1>types, GateFields, TurnPositive, <1>9 DEF InvokeIdle, turnVars, rowVars, Closed, AdmFree,
      WakeLeft, Steering
<1>10. CASE StartAdmit
  BY <1>types, GateFields, TurnPositive, <1>10 DEF StartAdmit, FailQueued, Restate, rowVars,
      Delivering, turnVars, AdmFree, HeldBack, Immediate, WakeLeft, Steering
<1>11. CASE ResumeApply
  BY <1>types, GateFields, TurnPositive, <1>11 DEF ResumeApply, Retried, turnVars, WakeLeft,
      Steering
<1>12. CASE ReadRefused
  BY <1>types, GateFields, TurnPositive, <1>12 DEF ReadRefused, DeliveryError, FailQueued, Restate,
      rowVars, Delivering, turnVars, WakeLeft, Steering
<1>13. CASE ReadLive
  BY <1>types, GateFields, TurnPositive, <1>13 DEF ReadLive, DeliveryError, FailQueued, Restate,
      rowVars, Delivering, turnVars, Immediate, WakeLeft, Steering
<1>14. CASE Awaited
  BY <1>types, GateFields, TurnPositive, <1>14 DEF Awaited, durable, rowVars, turnVars, WakeLeft,
      Steering
<1>15. CASE MarkSteer
  BY <1>types, GateFields, TurnPositive, <1>15 DEF MarkSteer, SetRow, turnVars, WakeLeft, Steering
<1>16. CASE Invoke
  BY <1>types, GateFields, TurnPositive, <1>16 DEF Invoke, durable, rowVars, turnVars, WakeLeft,
      Steering
<1>17. CASE Control
  BY <1>types, GateFields, TurnPositive, <1>17 DEF Control, durable, rowVars, turnVars, WakeLeft,
      Steering
<1>18. CASE Conclude
  BY <1>types, GateFields, TurnPositive, <1>18 DEF Conclude, SetRow, FailQueued, Restate,
      Delivering, turnVars, HostError, SteeringRejection, WakeLeft, Steering
<1>19. CASE Drained
  BY <1>types, GateFields, TurnPositive, <1>19 DEF Drained, durable, rowVars, turnVars, WakeLeft,
      Steering
<1>20. CASE Open
  BY <1>types, GateFields, TurnPositive, <1>20 DEF Open, Abort, Freed, FreeAdm, FailQueued, Restate,
      rowVars, turnVars, Closed, WakeLeft, Steering
<1>21. CASE Claim
  BY <1>types, GateFields, TurnPositive, <1>21 DEF Claim, SetRow, rowVars, FreeAdm, IsNextTurn,
      WakeLeft, Steering
<1>22. CASE NotIdle
  BY <1>types, GateFields, TurnPositive, <1>22 DEF NotIdle, Abort, Freed, FreeAdm, FailQueued,
      Restate, rowVars, turnVars, WakeLeft, Steering
<1>23. CASE Release
  BY <1>types, GateFields, TurnPositive, <1>23 DEF Release, durable, rowVars, turnVars, Elsewhere,
      WakeLeft, Steering
<1>24. CASE DrainTimeout
  BY <1>types, GateFields, TurnPositive, <1>24 DEF DrainTimeout, DeliveryError, FailQueued, Restate,
      rowVars, Delivering, turnVars, WakeLeft, Steering
<1>25. CASE Restart
  BY <1>types, GateFields, TurnPositive, <1>25 DEF Restart, Recovered, Recoverable, FreeAdm, NoStop,
      FreeGate, WakeLeft, Steering
<1> QED
  BY <1>1, <1>2, <1>3, <1>4, <1>5, <1>6, <1>7, <1>8, <1>9, <1>10, <1>11, <1>12, <1>13, <1>14, <1>15,
      <1>16, <1>17, <1>18, <1>19, <1>20, <1>21, <1>22, <1>23, <1>24, <1>25, WakesMove

\* A message waits in the queue.
Waits == \E m \in Msg : status[m] = "pending"

\* The steps that move a row or the queue gate.
LEMMA WaitsMove ==
    ASSUME [Next]_vars
    PROVE
        \/ UNCHANGED <<status, gate>>
        \/ Clear \/ ResumeCheck \/ Wake \/ SendAdmit \/ InvokeIdle \/ StartAdmit
        \/ ResumeApply \/ ReadRefused \/ ReadLive \/ Awaited \/ MarkSteer \/ Invoke
        \/ Control \/ Conclude \/ Drained \/ Open \/ Claim \/ NotIdle \/ Acknowledge
        \/ SettleQueue \/ DrainTimeout \/ Restart
        \/ \E m \in Msg : FollowUp(m) \/ Steer(m) \/ SendNow(m) \/ Send(m) \/ Remove(m)
  BY DEF Next, UserStep, QueueLocks, QueueStep, AdmissionStep, TaskStep, StopLocks, StopStep,
      StopBegin, Stopping, rowVars, turnVars, Goal, durable, Unarchive, TaskInvoke, MarkSent,
      Elsewhere, Dispatch, NativeStart, Event, Terminal, Reply, HostTerminal, Release, StopLook,
      StopAdmit, StopRead, StopFlag, StopClose, StopArchive, Ask, Resolve, Fail, StopTimeout,
      volatile, vars

\* A message is sent past an empty queue only.
SendsFirst == gate.pc = "start" /\ gate.op = "send" => Queued = {}

\* Initially nobody holds the gate.
LEMMA SendsFirstInit == Init => SendsFirst
  BY DEF Init, SendsFirst, FreeGate

\* It was looked at under the queue gate, which is still held.
LEMMA SendsFirstStep == TypeOK /\ HandedOnce /\ SendsFirst /\ [Next]_vars => SendsFirst'
<1> SUFFICES ASSUME TypeOK, HandedOnce, SendsFirst, [Next]_vars PROVE SendsFirst'
  OBVIOUS
<1>types. /\ gate \in GateSet /\ (adm.by = "gate" => gate.pc = "start") /\ status \in [Msg -> MsgStates]
          /\ (gate.pc = "admit" => gate.op = "send")
          /\ (gate.pc \in {"read", "await", "mark", "drain"} \union Steering => gate.op # "send")
  BY DEF TypeOK, RowsOK, LocksOK, HandedOnce, StartHolds, SteerHolds
<1>1. CASE UNCHANGED <<status, gate>>
  BY <1>1 DEF SendsFirst, Queued, RowStates, Steering
<1>2. ASSUME NEW m \in Msg, FollowUp(m) PROVE SendsFirst'
  BY <1>types, GateFields, <1>2 DEF FollowUp, Enqueue, SetRow, turnVars, GateFree, IsNextMsg,
      SendsFirst, Queued, RowStates, Steering
<1>3. ASSUME NEW m \in Msg, Steer(m) PROVE SendsFirst'
  BY <1>types, GateFields, <1>3 DEF Steer, Enqueue, SetRow, turnVars, GateFree, IsNextMsg,
      SendsFirst, Queued, RowStates, Steering
<1>4. ASSUME NEW m \in Msg, SendNow(m) PROVE SendsFirst'
  BY <1>types, GateFields, <1>4 DEF SendNow, durable, rowVars, turnVars, GateFree, SendsFirst,
      Queued, RowStates, Steering
<1>5. ASSUME NEW m \in Msg, Send(m) PROVE SendsFirst'
  BY <1>types, GateFields, <1>5 DEF Send, durable, rowVars, turnVars, GateFree, IsNextMsg,
      SendsFirst, Queued, RowStates, Steering
<1>6. ASSUME NEW m \in Msg, Remove(m) PROVE SendsFirst'
  BY <1>types, GateFields, <1>6 DEF Remove, Withdraw, turnVars, volatile, GateFree, SendsFirst,
      Queued, RowStates, Steering
<1>7. CASE Clear
  BY <1>types, GateFields, <1>7 DEF Clear, Withdraw, turnVars, volatile, GateFree, SendsFirst,
      Queued, RowStates, Steering
<1>8. CASE ResumeCheck
  BY <1>types, GateFields, <1>8 DEF ResumeCheck, durable, rowVars, turnVars, GateFree, Offered,
      SendsFirst, Queued, RowStates, Steering
<1>9. CASE Wake
  BY <1>types, GateFields, <1>9 DEF Wake, durable, rowVars, turnVars, GateFree, SendsFirst, Queued,
      RowStates, Steering
<1>10. CASE SendAdmit
  <2>1. CASE MustQueue
      <3>1. gate' = FreeGate
          BY <1>10, <2>1 DEF SendAdmit
      <3> QED
          BY <3>1, GateFields DEF SendsFirst
  <2>2. CASE ~MustQueue
      <3>1. UNCHANGED status /\ Queued = {}
          BY <1>10, <2>2 DEF SendAdmit, rowVars, MustQueue
      <3> QED
          BY <3>1 DEF SendsFirst, Queued
  <2> QED
      BY <2>1, <2>2
<1>11. CASE InvokeIdle
  BY <1>types, GateFields, <1>11 DEF InvokeIdle, turnVars, rowVars, Closed, AdmFree, SendsFirst,
      Queued, RowStates, Steering
<1>12. CASE StartAdmit
  BY <1>types, GateFields, <1>12 DEF StartAdmit, FailQueued, Restate, rowVars, Delivering, turnVars,
      AdmFree, HeldBack, Immediate, SendsFirst, Queued, RowStates, Steering
<1>13. CASE ResumeApply
  BY <1>types, GateFields, <1>13 DEF ResumeApply, Retried, turnVars, SendsFirst, Queued, RowStates,
      Steering
<1>14. CASE ReadRefused
  BY <1>types, GateFields, <1>14 DEF ReadRefused, DeliveryError, FailQueued, Restate, rowVars,
      Delivering, turnVars, SendsFirst, Queued, RowStates, Steering
<1>15. CASE ReadLive
  BY <1>types, GateFields, <1>15 DEF ReadLive, DeliveryError, FailQueued, Restate, rowVars,
      Delivering, turnVars, Immediate, SendsFirst, Queued, RowStates, Steering
<1>16. CASE Awaited
  BY <1>types, GateFields, <1>16 DEF Awaited, durable, rowVars, turnVars, SendsFirst, Queued,
      RowStates, Steering
<1>17. CASE MarkSteer
  BY <1>types, GateFields, <1>17 DEF MarkSteer, SetRow, turnVars, SendsFirst, Queued, RowStates,
      Steering
<1>18. CASE Invoke
  BY <1>types, GateFields, <1>18 DEF Invoke, durable, rowVars, turnVars, SendsFirst, Queued,
      RowStates, Steering
<1>19. CASE Control
  BY <1>types, GateFields, <1>19 DEF Control, durable, rowVars, turnVars, SendsFirst, Queued,
      RowStates, Steering
<1>20. CASE Conclude
  BY <1>types, GateFields, <1>20 DEF Conclude, SetRow, FailQueued, Restate, Delivering, turnVars,
      HostError, SteeringRejection, SendsFirst, Queued, RowStates, Steering
<1>21. CASE Drained
  BY <1>types, GateFields, <1>21 DEF Drained, durable, rowVars, turnVars, SendsFirst, Queued,
      RowStates, Steering
<1>22. CASE Open
  BY <1>types, GateFields, <1>22 DEF Open, Abort, Freed, FreeAdm, FailQueued, Restate, rowVars,
      turnVars, Closed, SendsFirst, Queued, RowStates, Steering
<1>23. CASE Claim
  BY <1>types, GateFields, <1>23 DEF Claim, SetRow, rowVars, FreeAdm, IsNextTurn, SendsFirst,
      Queued, RowStates, Steering
<1>24. CASE NotIdle
  BY <1>types, GateFields, <1>24 DEF NotIdle, Abort, Freed, FreeAdm, FailQueued, Restate, rowVars,
      turnVars, SendsFirst, Queued, RowStates, Steering
<1>25. CASE Acknowledge
  BY <1>types, GateFields, <1>25 DEF Acknowledge, Acknowledged, turnVars, Elsewhere, SendsFirst,
      Queued, RowStates, Steering
<1>26. CASE SettleQueue
  BY <1>types, GateFields, <1>26 DEF SettleQueue, Unacknowledged, turnVars, Elsewhere, SendsFirst,
      Queued, RowStates, Steering
<1>27. CASE DrainTimeout
  BY <1>types, GateFields, <1>27 DEF DrainTimeout, DeliveryError, FailQueued, Restate, rowVars,
      Delivering, turnVars, SendsFirst, Queued, RowStates, Steering
<1>28. CASE Restart
  BY <1>types, GateFields, <1>28 DEF Restart, Recovered, Recoverable, FreeAdm, NoStop, FreeGate,
      SendsFirst, Queued, RowStates, Steering
<1> QED
  BY <1>1, <1>2, <1>3, <1>4, <1>5, <1>6, <1>7, <1>8, <1>9, <1>10, <1>11, <1>12, <1>13, <1>14, <1>15,
      <1>16, <1>17, <1>18, <1>19, <1>20, <1>21, <1>22, <1>23, <1>24, <1>25, <1>26, <1>27, <1>28,
      WaitsMove

\* An archived session comes back with its queue paused.
Reopened == "archive" \in Commands =>
    /\ gate.pc # "apply"
    /\ stop.op = "archive" /\ stop.pc \in {"drain", "archive"} => paused
    /\ archived => paused

\* The steps that move a row, the session, the live turn or a lock.
LEMMA AttendedMove ==
    ASSUME [Next]_vars
    PROVE
        \/ UNCHANGED <<status, paused, session, archived, live, gate, adm, wakes>>
        \/ Clear \/ ResumeCheck \/ Goal \/ Unarchive \/ Wake \/ SendAdmit \/ InvokeIdle
        \/ StartAdmit \/ ResumeApply \/ ReadRefused \/ ReadLive \/ Awaited \/ MarkSteer
        \/ Invoke \/ Control \/ Conclude \/ Drained \/ Open \/ Claim \/ NotIdle
        \/ Acknowledge \/ Terminal \/ HostTerminal \/ SettleQueue \/ Release \/ StopLook
        \/ StopAdmit \/ StopFlag \/ StopClose \/ StopArchive \/ DrainTimeout \/ Ask
        \/ Resolve \/ StopTimeout \/ Restart
        \/ \E m \in Msg : FollowUp(m) \/ Steer(m) \/ SendNow(m) \/ Send(m) \/ Remove(m)
  BY DEF Next, UserStep, QueueLocks, QueueStep, AdmissionStep, TaskStep, StopLocks, StopStep,
      StopBegin, Stopping, rowVars, turnVars, TaskInvoke, durable, MarkSent, Elsewhere, Dispatch,
      NativeStart, Event, Reply, StopRead, Fail, volatile, vars

\* An idle session whose queue may go on.
Runnable == ~paused /\ ~archived /\ session \in Startable /\ live = 0 /\ adm.pc # "commit"

\* The holder of the queue gate will start a turn or pause the queue.
Driving ==
    \/ gate.pc \in {"await", "start", "apply"}
    \/ gate.pc = "read" /\ gate.op \in {"schedule", "steer"}

\* What waits in a session that may go on is driven, or a dispatch is scheduled.
Attended == Waits /\ Runnable => wakes > 0 \/ Driving

\* Initially nothing waits.
LEMMA AttendedInit == Init => Attended
  BY DEF Init, Attended, Waits

\* Whatever ends without a turn pauses the queue or leaves the wake-up it found.
LEMMA AttendedStep ==
    TypeOK /\ Delivered /\ WakeLeft /\ SendsFirst /\ Reopened /\ GoalsWait /\ Attended /\ [Next]_vars
        => Attended'
<1> SUFFICES ASSUME TypeOK, Delivered, WakeLeft, SendsFirst, Reopened, GoalsWait, Attended, [Next]_vars
             PROVE  Attended'
  OBVIOUS
<1>types. /\ gate \in GateSet /\ (adm.by = "gate" => gate.pc = "start") /\ live \in Turn \union {0}
          /\ (live = 0 <=> task = "none") /\ wakes \in Nat /\ Scheduled(wakes) > 0
          /\ adm \in AdmSet /\ status \in [Msg -> MsgStates]
  BY Schedules DEF TypeOK, RowsOK, LocksOK, LiveOK
<1>holds. /\ (adm.pc # "idle" => adm.by \in {"gate", "goal"})
          /\ (stop.pc \in {"reread", "reflag", "drain"} => adm.by = "stop")
          /\ (gate.pc \in {"read", "await", "mark", "drain"} \union Steering => gate.op # "send")
          /\ (gate.pc = "admit" => gate.op = "send")
  BY DEF Delivered, Places, HandedOnce, StartHolds, SteerHolds
<1>1. CASE UNCHANGED <<status, paused, session, archived, live, gate, adm, wakes>>
  BY <1>1 DEF Attended, Waits, Runnable, Driving
<1>2. ASSUME NEW m \in Msg, FollowUp(m) PROVE Attended'
  BY <1>types, <1>holds, GateFields, TurnPositive, <1>2 DEF FollowUp, Enqueue, SetRow, turnVars,
      GateFree, IsNextMsg, Attended, Waits, Runnable, Driving
<1>3. ASSUME NEW m \in Msg, Steer(m) PROVE Attended'
  BY <1>types, <1>holds, GateFields, TurnPositive, <1>3 DEF Steer, Enqueue, SetRow, turnVars,
      GateFree, IsNextMsg, Attended, Waits, Runnable, Driving
<1>4. ASSUME NEW m \in Msg, SendNow(m) PROVE Attended'
  BY <1>types, <1>holds, GateFields, TurnPositive, <1>4 DEF SendNow, durable, rowVars, turnVars,
      GateFree, Attended, Waits, Runnable, Driving
<1>5. ASSUME NEW m \in Msg, Send(m) PROVE Attended'
  BY <1>types, <1>holds, GateFields, TurnPositive, <1>5 DEF Send, durable, rowVars, turnVars,
      GateFree, IsNextMsg, Attended, Waits, Runnable, Driving
<1>6. ASSUME NEW m \in Msg, Remove(m) PROVE Attended'
  BY <1>types, <1>holds, GateFields, TurnPositive, <1>6 DEF Remove, Withdraw, turnVars, volatile,
      GateFree, Attended, Waits, Runnable, Driving
<1>7. CASE Clear
  BY <1>types, <1>holds, GateFields, TurnPositive, <1>7 DEF Clear, Withdraw, turnVars, volatile,
      GateFree, Attended, Waits, Runnable, Driving
<1>8. CASE ResumeCheck
  BY <1>types, <1>holds, GateFields, TurnPositive, <1>8 DEF ResumeCheck, durable, rowVars, turnVars,
      GateFree, Offered, Attended, Waits, Runnable, Driving
<1>9. CASE Goal
  BY <1>types, <1>holds, GateFields, TurnPositive, <1>9 DEF Goal, durable, rowVars, turnVars,
      AdmFree, Attended, Waits, Runnable, Driving
<1>10. CASE Unarchive
  <2>1. archived /\ "archive" \in Commands /\ UNCHANGED paused
      BY <1>10 DEF Unarchive, Offered, Stopping
  <2>2. paused'
      BY <2>1 DEF Reopened
  <2> QED
      BY <2>2 DEF Attended, Runnable
<1>11. CASE Wake
  BY <1>types, <1>holds, GateFields, TurnPositive, <1>11 DEF Wake, durable, rowVars, turnVars,
      GateFree, Attended, Waits, Runnable, Driving
<1>12. CASE SendAdmit
  BY <1>types, <1>holds, GateFields, TurnPositive, <1>12 DEF SendAdmit, Enqueue, SetRow, turnVars,
      rowVars, AdmFree, MustQueue, Attended, Waits, Runnable, Driving
<1>13. CASE InvokeIdle
  <2>1. gate.pc = "invoke" /\ live = 0 /\ wakes' = wakes
      BY <1>13 DEF InvokeIdle
  <2>2. wakes > 0
      BY <2>1 DEF WakeLeft, Steering
  <2> QED
      BY <2>1, <2>2 DEF Attended
<1>14. CASE StartAdmit
  BY <1>types, <1>holds, GateFields, TurnPositive, <1>14 DEF StartAdmit, FailQueued, Restate,
      rowVars, Delivering, turnVars, AdmFree, HeldBack, Immediate, Attended, Waits, Runnable,
      Driving
<1>15. CASE ResumeApply
  BY <1>types, <1>holds, GateFields, TurnPositive, <1>15 DEF ResumeApply, Retried, turnVars,
      Attended, Waits, Runnable, Driving
<1>16. CASE ReadRefused
  BY <1>types, <1>holds, GateFields, TurnPositive, <1>16 DEF ReadRefused, DeliveryError, FailQueued,
      Restate, rowVars, Delivering, turnVars, Attended, Waits, Runnable, Driving
<1>17. CASE ReadLive
  BY <1>types, <1>holds, GateFields, TurnPositive, <1>17 DEF ReadLive, DeliveryError, FailQueued,
      Restate, rowVars, Delivering, turnVars, Immediate, Attended, Waits, Runnable, Driving
<1>18. CASE Awaited
  BY <1>types, <1>holds, GateFields, TurnPositive, <1>18 DEF Awaited, durable, rowVars, turnVars,
      Attended, Waits, Runnable, Driving
<1>19. CASE MarkSteer
  BY <1>types, <1>holds, GateFields, TurnPositive, <1>19 DEF MarkSteer, SetRow, turnVars, Attended,
      Waits, Runnable, Driving
<1>20. CASE Invoke
  BY <1>types, <1>holds, GateFields, TurnPositive, <1>20 DEF Invoke, durable, rowVars, turnVars,
      Attended, Waits, Runnable, Driving
<1>21. CASE Control
  BY <1>types, <1>holds, GateFields, TurnPositive, <1>21 DEF Control, durable, rowVars, turnVars,
      Attended, Waits, Runnable, Driving
<1>22. CASE Conclude
  <2>1. gate.pc = "answered" /\ UNCHANGED <<live, wakes>>
      BY <1>22 DEF Conclude, Delivering
  <2>2. live = 0 => wakes > 0
      BY <2>1 DEF WakeLeft, Steering
  <2> QED
      BY <2>1, <2>2 DEF Attended, Runnable
<1>23. CASE Drained
  BY <1>types, <1>holds, GateFields, TurnPositive, <1>23 DEF Drained, durable, rowVars, turnVars,
      Attended, Waits, Runnable, Driving
<1>24. CASE Open
  <2>1. adm.pc = "open" /\ UNCHANGED <<archived, live, wakes>>
      BY <1>24 DEF Open
  <2>2. CASE adm' = [adm EXCEPT !.pc = "commit"]
      BY <1>types, <2>2 DEF Attended, Runnable, AdmSet
  <2>3. CASE Abort
    <3>1. CASE adm.by = "gate" /\ gate.op # "send"
        BY <2>3, <3>1 DEF Abort, FailQueued, Attended, Runnable
    <3>2. CASE adm.by = "gate" /\ gate.op = "send"
      <4>1. ~Waits /\ UNCHANGED status
          BY <1>types, <2>3, <3>2 DEF SendsFirst, Queued, RowStates, Waits, Abort, rowVars
      <4> QED
          BY <4>1 DEF Attended, Waits
    <3>3. CASE adm.by # "gate"
      <4>1. UNCHANGED <<status, paused, gate>>
          BY <2>3, <3>3 DEF Abort, rowVars
      <4>2. session' = session \/ (session # "closed" /\ session' = "idle")
          BY <1>24 DEF Open, Closed
      <4>3. adm.by = "goal" /\ live = 0 /\ adm.pc # "commit"
          BY <1>holds, <2>1, <3>3 DEF Delivered, Places
      <4>4. session \in Startable \union {"running", "waiting", "closed"}
          BY DEF TypeOK, SessionOK
      <4>5. CASE Busy /\ session' = "idle"
          BY <4>1, <4>3, <4>5 DEF GoalsWait, Attended, Runnable
      <4>6. CASE session \in Startable \/ session' = session
          BY <2>1, <4>1, <4>3, <4>6 DEF Attended, Waits, Runnable, Driving
      <4> QED
          BY <4>2, <4>4, <4>5, <4>6 DEF Busy
    <3> QED
        BY <3>1, <3>2, <3>3
  <2> QED
      BY <1>24, <2>2, <2>3 DEF Open
<1>25. CASE Claim
  BY <1>types, <1>holds, GateFields, TurnPositive, <1>25 DEF Claim, SetRow, rowVars, FreeAdm,
      IsNextTurn, Attended, Waits, Runnable, Driving
<1>26. CASE NotIdle
  BY <1>types, <1>holds, GateFields, TurnPositive, <1>26 DEF NotIdle, Abort, Freed, FreeAdm,
      FailQueued, Restate, rowVars, turnVars, Attended, Waits, Runnable, Driving
<1>27. CASE Acknowledge
  BY <1>types, <1>holds, GateFields, TurnPositive, <1>27 DEF Acknowledge, Acknowledged, turnVars,
      Elsewhere, Attended, Waits, Runnable, Driving
<1>28. CASE Terminal
  BY <1>types, <1>holds, GateFields, TurnPositive, <1>28 DEF Terminal, Event, Elsewhere, rowVars,
      Attended, Waits, Runnable, Driving
<1>29. CASE HostTerminal
  BY <1>types, <1>holds, GateFields, TurnPositive, <1>29 DEF HostTerminal, AlreadyEnded, Elsewhere,
      rowVars, Attended, Waits, Runnable, Driving
<1>30. CASE SettleQueue
  BY <1>types, <1>holds, GateFields, TurnPositive, <1>30 DEF SettleQueue, Unacknowledged, turnVars,
      Elsewhere, Attended, Waits, Runnable, Driving
<1>31. CASE Release
  BY <1>types, <1>holds, GateFields, TurnPositive, <1>31 DEF Release, durable, rowVars, turnVars,
      Elsewhere, Attended, Waits, Runnable, Driving
<1>32. CASE StopLook
  BY <1>types, <1>holds, GateFields, TurnPositive, <1>32 DEF StopLook, Stopping, rowVars, turnVars,
      AdmFree, Attended, Waits, Runnable, Driving
<1>33. CASE StopAdmit
  BY <1>types, <1>holds, GateFields, TurnPositive, <1>33 DEF StopAdmit, Stopping, rowVars, turnVars,
      AdmFree, Attended, Waits, Runnable, Driving
<1>34. CASE StopFlag
  BY <1>types, <1>holds, GateFields, TurnPositive, <1>34 DEF StopFlag, Stopping, rowVars, turnVars,
      AfterCancel, FreeAdm, NoStop, Attended, Waits, Runnable, Driving
<1>35. CASE StopClose
  <2>1. session' = "closed"
      BY <1>35 DEF StopClose
  <2> QED
      BY <2>1 DEF Attended, Runnable, Startable
<1>36. CASE StopArchive
  BY <1>types, <1>holds, GateFields, TurnPositive, <1>36 DEF StopArchive, Stopping, rowVars,
      turnVars, NoStop, Attended, Waits, Runnable, Driving
<1>37. CASE DrainTimeout
  BY <1>types, <1>holds, GateFields, TurnPositive, <1>37 DEF DrainTimeout, DeliveryError,
      FailQueued, Restate, rowVars, Delivering, turnVars, Attended, Waits, Runnable, Driving
<1>38. CASE Ask
  BY <1>types, <1>holds, GateFields, TurnPositive, <1>38 DEF Ask, Event, Elsewhere, rowVars,
      Attended, Waits, Runnable, Driving
<1>39. CASE Resolve
  BY <1>types, <1>holds, GateFields, TurnPositive, <1>39 DEF Resolve, Event, Elsewhere, rowVars,
      Attended, Waits, Runnable, Driving
<1>40. CASE StopTimeout
  BY <1>types, <1>holds, GateFields, TurnPositive, <1>40 DEF StopTimeout, Stopping, rowVars,
      turnVars, FreeAdm, NoStop, Attended, Waits, Runnable, Driving
<1>41. CASE Restart
  BY <1>types, <1>holds, GateFields, TurnPositive, <1>41 DEF Restart, Recovered, Recoverable,
      FreeAdm, NoStop, FreeGate, Attended, Waits, Runnable, Driving
<1> QED
  BY <1>1, <1>2, <1>3, <1>4, <1>5, <1>6, <1>7, <1>8, <1>9, <1>10, <1>11, <1>12, <1>13, <1>14, <1>15,
      <1>16, <1>17, <1>18, <1>19, <1>20, <1>21, <1>22, <1>23, <1>24, <1>25, <1>26, <1>27, <1>28,
      <1>29, <1>30, <1>31, <1>32, <1>33, <1>34, <1>35, <1>36, <1>37, <1>38, <1>39, <1>40, <1>41,
      AttendedMove

\* The steps that move the pause, the archive flag, the queue gate or a stop.
LEMMA ReopenedMove ==
    ASSUME [Next]_vars
    PROVE
        \/ UNCHANGED <<paused, archived, gate, stop>>
        \/ ResumeCheck \/ Unarchive \/ Wake \/ SendAdmit \/ InvokeIdle \/ StartAdmit
        \/ ResumeApply \/ ReadRefused \/ ReadLive \/ Awaited \/ MarkSteer \/ Invoke
        \/ Control \/ Conclude \/ Drained \/ Open \/ Claim \/ NotIdle \/ SettleQueue
        \/ StopLook \/ StopAdmit \/ StopRead \/ StopFlag \/ StopClose \/ StopArchive
        \/ DrainTimeout \/ StopTimeout \/ Restart
        \/ \E m \in Msg : FollowUp(m) \/ Steer(m) \/ SendNow(m) \/ Send(m)
        \/ \E op \in {"stop", "close", "archive"} : StopBegin(op)
  BY DEF Next, UserStep, QueueLocks, QueueStep, AdmissionStep, TaskStep, StopLocks, StopStep,
      Remove, Withdraw, turnVars, volatile, Clear, Goal, durable, rowVars, TaskInvoke, MarkSent,
      Elsewhere, Dispatch, NativeStart, Event, Acknowledge, Terminal, Reply, HostTerminal, Release,
      Ask, Resolve, Fail, vars

\* Initially nothing is archived and nobody resumes.
LEMMA ReopenedInit == Init => Reopened
  BY DEF Init, Reopened, FreeGate, NoStop

\* Without a resume nothing takes the pause of a close away: a turn that would is not
\* started in a session that is closed, or being closed.
LEMMA ReopenedStep ==
    ASSUME "resume" \notin Commands \/ "archive" \notin Commands,
           TypeOK, Places, Reopened, [Next]_vars
    PROVE  Reopened'
<1> SUFFICES ASSUME "archive" \in Commands, "resume" \notin Commands PROVE Reopened'
  BY DEF Reopened
<1>types. /\ gate \in GateSet /\ (adm.by = "gate" => gate.pc = "start") /\ stop \in StopSet
  BY DEF TypeOK, LocksOK
<1>holds. /\ (adm.pc # "idle" => adm.by \in {"gate", "goal"})
          /\ (stop.pc \in {"reread", "reflag", "drain"} => adm.by = "stop")
          /\ (stop.pc = "archive" => stop.op = "archive" /\ session = "closed") /\ (archived => session = "closed")
  BY DEF Places
<1>1. CASE UNCHANGED <<paused, archived, gate, stop>>
  BY <1>1 DEF Reopened, Startable
<1>2. ASSUME NEW m \in Msg, FollowUp(m) PROVE Reopened'
  BY <1>types, <1>holds, GateFields, <1>2 DEF FollowUp, Enqueue, SetRow, turnVars, GateFree,
      IsNextMsg, Reopened, Startable
<1>3. ASSUME NEW m \in Msg, Steer(m) PROVE Reopened'
  BY <1>types, <1>holds, GateFields, <1>3 DEF Steer, Enqueue, SetRow, turnVars, GateFree, IsNextMsg,
      Reopened, Startable
<1>4. ASSUME NEW m \in Msg, SendNow(m) PROVE Reopened'
  BY <1>types, <1>holds, GateFields, <1>4 DEF SendNow, durable, rowVars, turnVars, GateFree,
      Reopened, Startable
<1>5. ASSUME NEW m \in Msg, Send(m) PROVE Reopened'
  BY <1>types, <1>holds, GateFields, <1>5 DEF Send, durable, rowVars, turnVars, GateFree, IsNextMsg,
      Reopened, Startable
<1>6. ASSUME NEW op \in {"stop", "close", "archive"}, StopBegin(op) PROVE Reopened'
  BY <1>types, <1>holds, GateFields, <1>6 DEF StopBegin, Stopping, rowVars, turnVars, NoStop,
      Offered, Reopened, Startable
<1>7. CASE ResumeCheck
  BY <1>types, <1>holds, GateFields, <1>7 DEF ResumeCheck, durable, rowVars, turnVars, GateFree,
      Offered, Reopened, Startable
<1>8. CASE Unarchive
  BY <1>types, <1>holds, GateFields, <1>8 DEF Unarchive, Stopping, rowVars, turnVars, AdmFree,
      Offered, Reopened, Startable
<1>9. CASE Wake
  BY <1>types, <1>holds, GateFields, <1>9 DEF Wake, durable, rowVars, turnVars, GateFree, Reopened,
      Startable
<1>10. CASE SendAdmit
  BY <1>types, <1>holds, GateFields, <1>10 DEF SendAdmit, Enqueue, SetRow, turnVars, rowVars,
      AdmFree, MustQueue, Reopened, Startable
<1>11. CASE InvokeIdle
  BY <1>types, <1>holds, GateFields, <1>11 DEF InvokeIdle, turnVars, rowVars, Closed, AdmFree,
      Reopened, Startable
<1>12. CASE StartAdmit
  BY <1>types, <1>holds, GateFields, <1>12 DEF StartAdmit, FailQueued, Restate, rowVars, Delivering,
      turnVars, AdmFree, HeldBack, Immediate, Reopened, Startable
<1>13. CASE ResumeApply
  BY <1>types, <1>holds, GateFields, <1>13 DEF ResumeApply, Retried, turnVars, Reopened, Startable
<1>14. CASE ReadRefused
  BY <1>types, <1>holds, GateFields, <1>14 DEF ReadRefused, DeliveryError, FailQueued, Restate,
      rowVars, Delivering, turnVars, Reopened, Startable
<1>15. CASE ReadLive
  BY <1>types, <1>holds, GateFields, <1>15 DEF ReadLive, DeliveryError, FailQueued, Restate,
      rowVars, Delivering, turnVars, Immediate, Reopened, Startable
<1>16. CASE Awaited
  BY <1>types, <1>holds, GateFields, <1>16 DEF Awaited, durable, rowVars, turnVars, Reopened,
      Startable
<1>17. CASE MarkSteer
  BY <1>types, <1>holds, GateFields, <1>17 DEF MarkSteer, SetRow, turnVars, Reopened, Startable
<1>18. CASE Invoke
  BY <1>types, <1>holds, GateFields, <1>18 DEF Invoke, durable, rowVars, turnVars, Reopened,
      Startable
<1>19. CASE Control
  BY <1>types, <1>holds, GateFields, <1>19 DEF Control, durable, rowVars, turnVars, Reopened,
      Startable
<1>20. CASE Conclude
  BY <1>types, <1>holds, GateFields, <1>20 DEF Conclude, SetRow, FailQueued, Restate, Delivering,
      turnVars, HostError, SteeringRejection, Reopened, Startable
<1>21. CASE Drained
  BY <1>types, <1>holds, GateFields, <1>21 DEF Drained, durable, rowVars, turnVars, Reopened,
      Startable
<1>22. CASE Open
  BY <1>types, <1>holds, GateFields, <1>22 DEF Open, Abort, Freed, FreeAdm, FailQueued, Restate,
      rowVars, turnVars, Closed, Reopened, Startable
<1>23. CASE Claim
  BY <1>types, <1>holds, GateFields, <1>23 DEF Claim, SetRow, rowVars, FreeAdm, IsNextTurn,
      Reopened, Startable
<1>24. CASE NotIdle
  BY <1>types, <1>holds, GateFields, <1>24 DEF NotIdle, Abort, Freed, FreeAdm, FailQueued, Restate,
      rowVars, turnVars, Reopened, Startable
<1>25. CASE SettleQueue
  BY <1>types, <1>holds, GateFields, <1>25 DEF SettleQueue, Unacknowledged, turnVars, Elsewhere,
      Reopened, Startable
<1>26. CASE StopLook
  BY <1>types, <1>holds, GateFields, <1>26 DEF StopLook, Stopping, rowVars, turnVars, AdmFree,
      Reopened, Startable
<1>27. CASE StopAdmit
  BY <1>types, <1>holds, GateFields, <1>27 DEF StopAdmit, Stopping, rowVars, turnVars, AdmFree,
      Reopened, Startable
<1>28. CASE StopRead
  BY <1>types, <1>holds, GateFields, <1>28 DEF StopRead, Stopping, rowVars, turnVars, Reopened,
      Startable
<1>29. CASE StopFlag
  BY <1>types, <1>holds, GateFields, <1>29 DEF StopFlag, Stopping, rowVars, turnVars, AfterCancel,
      FreeAdm, NoStop, Reopened, Startable
<1>30. CASE StopClose
  BY <1>types, <1>holds, GateFields, <1>30 DEF StopClose, Stopping, rowVars, turnVars, Quiet,
      FreeAdm, NoStop, Reopened, Startable
<1>31. CASE StopArchive
  BY <1>types, <1>holds, GateFields, <1>31 DEF StopArchive, Stopping, rowVars, turnVars, NoStop,
      Reopened, Startable
<1>32. CASE DrainTimeout
  BY <1>types, <1>holds, GateFields, <1>32 DEF DrainTimeout, DeliveryError, FailQueued, Restate,
      rowVars, Delivering, turnVars, Reopened, Startable
<1>33. CASE StopTimeout
  BY <1>types, <1>holds, GateFields, <1>33 DEF StopTimeout, Stopping, rowVars, turnVars, FreeAdm,
      NoStop, Reopened, Startable
<1>34. CASE Restart
  BY <1>types, <1>holds, GateFields, <1>34 DEF Restart, Recovered, Recoverable, FreeAdm, NoStop,
      FreeGate, Reopened, Startable
<1> QED
  BY <1>1, <1>2, <1>3, <1>4, <1>5, <1>6, <1>7, <1>8, <1>9, <1>10, <1>11, <1>12, <1>13, <1>14, <1>15,
      <1>16, <1>17, <1>18, <1>19, <1>20, <1>21, <1>22, <1>23, <1>24, <1>25, <1>26, <1>27, <1>28,
      <1>29, <1>30, <1>31, <1>32, <1>33, <1>34, ReopenedMove

\* No wake-up is lost, however stops, closes and goals come between, unless the
\* session is resumed and can be archived as well, or its provider leaves turns
\* unended and a goal can be resumed: schedule_queue against every operation.
THEOREM WakesKept ==
    \/ "resume" \notin Commands
    \/ "archive" \notin Commands /\ ("goal" \notin Commands \/ Truthful)
    => (Spec => []NoLostWake)
<1> SUFFICES ASSUME \/ "resume" \notin Commands
                    \/ "archive" \notin Commands /\ ("goal" \notin Commands \/ Truthful)
             PROVE  Spec => []NoLostWake
  OBVIOUS
<1> DEFINE Kept == WakeLeft /\ SendsFirst /\ Reopened /\ Ended /\ Dormant /\ Attended
<1>1. Init => Kept
  BY WakeLeftInit, SendsFirstInit, ReopenedInit, EndedInit, DormantInit, AttendedInit
<1>2. TypeOK /\ Delivered /\ Kept /\ [Next]_vars => Kept'
  <2> SUFFICES ASSUME TypeOK, Delivered, Kept, [Next]_vars PROVE Kept'
      OBVIOUS
  <2>1. GoalsWait
      BY DEF Dormant, GoalsWait
  <2>2. WakeLeft' /\ SendsFirst' /\ Reopened'
      BY WakeLeftStep, SendsFirstStep, ReopenedStep DEF Delivered
  <2>3. Ended' /\ Dormant'
      BY EndedStep, DormantStep DEF Delivered
  <2>4. Attended'
      BY <2>1, AttendedStep
  <2> QED
      BY <2>2, <2>3, <2>4
<1>3. Kept => NoLostWake
  BY DEF Attended, Waits, Runnable, Driving, NoLostWake, GateFree
<1> QED
  BY <1>1, <1>2, <1>3, TypeCorrect, DeliveredAlways, PTL DEF Spec

----------------------------------------------------------------------------
(* The pause of the queue.                                                 *)

\* Whoever makes the outcome of a row unknown pauses the queue, and a message that
\* is sent past the queue unpauses it only when no row is left: only the second half
\* of a resume does not look.
LEMMA PauseStep == TypeOK /\ UncertainPauses /\ ~ResumeApply /\ [Next]_vars => UncertainPauses'
<1> SUFFICES ASSUME TypeOK, UncertainPauses, ~ResumeApply, [Next]_vars PROVE UncertainPauses'
  OBVIOUS
<1>types. /\ gate \in GateSet /\ (adm.by = "gate" => gate.pc = "start") /\ status \in [Msg -> MsgStates]
  BY DEF TypeOK, RowsOK, LocksOK
<1>1. CASE UNCHANGED <<status, paused>>
  BY <1>1 DEF UncertainPauses
<1>2. ASSUME NEW m \in Msg, FollowUp(m) PROVE UncertainPauses'
  BY <1>types, <1>2 DEF FollowUp, Enqueue, SetRow, turnVars, GateFree, IsNextMsg, UncertainPauses
<1>3. ASSUME NEW m \in Msg, Steer(m) PROVE UncertainPauses'
  BY <1>types, <1>3 DEF Steer, Enqueue, SetRow, turnVars, GateFree, IsNextMsg, UncertainPauses
<1>4. ASSUME NEW m \in Msg, Remove(m) PROVE UncertainPauses'
  BY <1>types, <1>4 DEF Remove, Withdraw, turnVars, volatile, GateFree, UncertainPauses
<1>5. CASE Clear
  BY <1>types, <1>5 DEF Clear, Withdraw, turnVars, volatile, GateFree, UncertainPauses
<1>6. CASE SendAdmit
  BY <1>types, <1>6 DEF SendAdmit, Enqueue, SetRow, turnVars, rowVars, AdmFree, MustQueue,
      UncertainPauses
<1>7. CASE StartAdmit
  BY <1>types, <1>7 DEF StartAdmit, FailQueued, Restate, rowVars, Delivering, turnVars, AdmFree,
      HeldBack, Immediate, UncertainPauses
<1>8. CASE ResumeApply
  BY <1>types, <1>8 DEF ResumeApply, Retried, turnVars, UncertainPauses
<1>9. CASE ReadRefused
  BY <1>types, <1>9 DEF ReadRefused, DeliveryError, FailQueued, Restate, rowVars, Delivering,
      turnVars, UncertainPauses
<1>10. CASE ReadLive
  BY <1>types, <1>10 DEF ReadLive, DeliveryError, FailQueued, Restate, rowVars, Delivering,
      turnVars, Immediate, UncertainPauses
<1>11. CASE MarkSteer
  BY <1>types, <1>11 DEF MarkSteer, SetRow, turnVars, UncertainPauses
<1>12. CASE Conclude
  BY <1>types, <1>12 DEF Conclude, SetRow, FailQueued, Restate, Delivering, turnVars, HostError,
      SteeringRejection, UncertainPauses
<1>13. CASE Open
  BY <1>types, <1>13 DEF Open, Abort, Freed, FreeAdm, FailQueued, Restate, rowVars, turnVars,
      Closed, UncertainPauses
<1>14. CASE Claim
  <2> SUFFICES ASSUME NEW m \in Msg, status'[m] = "uncertain" PROVE paused'
      BY DEF UncertainPauses
  <2>1. status[m] = "uncertain"
      BY <1>types, <1>14 DEF Claim, SetRow, rowVars
  <2>2. paused /\ Queued # {}
      BY <2>1 DEF UncertainPauses, Queued, RowStates
  <2> QED
      BY <1>14, <2>2 DEF Claim
<1>15. CASE NotIdle
  BY <1>types, <1>15 DEF NotIdle, Abort, Freed, FreeAdm, FailQueued, Restate, rowVars, turnVars,
      UncertainPauses
<1>16. CASE Acknowledge
  BY <1>types, <1>16 DEF Acknowledge, Acknowledged, turnVars, Elsewhere, UncertainPauses
<1>17. CASE SettleQueue
  <2> SUFFICES ASSUME NEW m \in Msg, status'[m] = "uncertain" PROVE paused'
      BY DEF UncertainPauses
  <2>1. CASE m \in Unacknowledged
      BY <1>17, <2>1 DEF SettleQueue, TurnPauses
  <2>2. CASE m \notin Unacknowledged
      BY <1>types, <1>17, <2>2 DEF SettleQueue, UncertainPauses
  <2> QED
      BY <2>1, <2>2
<1>18. CASE StopFlag
  BY <1>types, <1>18 DEF StopFlag, Stopping, rowVars, turnVars, AfterCancel, FreeAdm, NoStop,
      UncertainPauses
<1>19. CASE DrainTimeout
  BY <1>types, <1>19 DEF DrainTimeout, DeliveryError, FailQueued, Restate, rowVars, Delivering,
      turnVars, UncertainPauses
<1>20. CASE Restart
  BY <1>types, <1>20 DEF Restart, Recovered, Recoverable, FreeAdm, NoStop, FreeGate, UncertainPauses
<1> QED
  BY <1>1, <1>2, <1>3, <1>4, <1>5, <1>6, <1>7, <1>8, <1>9, <1>10, <1>11, <1>12, <1>13, <1>14, <1>15,
      <1>16, <1>17, <1>18, <1>19, <1>20, PauseMove

\* While a row's outcome is unknown the queue stays paused, whatever fails, is
\* stopped or restarts: only resume_queue, which looked before, takes the pause away.
THEOREM OnlyResumeUnpauses == Spec => [][UncertainPauses /\ ~ResumeApply => UncertainPauses']_vars
<1>1. TypeOK /\ [Next]_vars => [UncertainPauses /\ ~ResumeApply => UncertainPauses']_vars
  BY PauseStep
<1> QED
  BY <1>1, TypeCorrect, PTL DEF Spec

\* Where nobody resumes, a row whose outcome is unknown always pauses the queue.
THEOREM UncertainAlwaysPauses == "resume" \notin Commands => (Spec => []UncertainPauses)
<1> SUFFICES ASSUME "resume" \notin Commands PROVE Spec => []UncertainPauses
  OBVIOUS
<1> DEFINE Kept == gate.pc # "apply" /\ UncertainPauses
<1>1. Init => Kept
  BY DEF Init, FreeGate, UncertainPauses
<1>2. TypeOK /\ Kept /\ [Next]_vars => Kept'
  <2> SUFFICES ASSUME TypeOK, Kept, [Next]_vars PROVE Kept'
    OBVIOUS
  <2>1. ~ResumeApply
    BY DEF ResumeApply
  <2>2. gate'.pc # "apply"
    BY NobodyResumes
  <2> QED
    BY <2>1, <2>2, PauseStep
<1>3. Kept => UncertainPauses
  OBVIOUS
<1> QED
  BY <1>1, <1>2, <1>3, TypeCorrect, PTL DEF Spec

\* The steps that move the pause, a lock or a stop.
LEMMA StartingMove ==
    ASSUME [Next]_vars
    PROVE
        \/ UNCHANGED <<paused, gate, adm, stop>>
        \/ ResumeCheck \/ Goal \/ Wake \/ SendAdmit \/ InvokeIdle \/ StartAdmit
        \/ ResumeApply \/ ReadRefused \/ ReadLive \/ Awaited \/ MarkSteer \/ Invoke
        \/ Control \/ Conclude \/ Drained \/ Open \/ Claim \/ NotIdle \/ SettleQueue
        \/ StopLook \/ StopAdmit \/ StopRead \/ StopFlag \/ StopClose \/ StopArchive
        \/ DrainTimeout \/ StopTimeout \/ Restart
        \/ \E m \in Msg : Steer(m) \/ SendNow(m) \/ Send(m)
        \/ \E op \in {"stop", "close", "archive"} : StopBegin(op)
  BY DEF Next, UserStep, QueueLocks, QueueStep, AdmissionStep, TaskStep, StopLocks, StopStep,
      FollowUp, Enqueue, SetRow, turnVars, Remove, Withdraw, volatile, Clear, Unarchive, Stopping,
      rowVars, TaskInvoke, durable, MarkSent, Elsewhere, Dispatch, NativeStart, Event, Acknowledge,
      Terminal, Reply, HostTerminal, Release, Ask, Resolve, Fail, vars

\* Where nobody stops or closes the session: an automatic dispatch that has
\* entered run_admitted found a queue that is not paused, and it still is not.
Starting ==
    /\ stop = NoStop
    /\ adm.by = "gate" => adm.pc # "idle"
    /\ adm.by = "gate" /\ gate.op = "schedule" => ~paused

\* Initially nobody holds a lock.
LEMMA StartingInit == Init => Starting
  BY DEF Init, Starting, FreeAdm

\* A turn that pauses the queue when it settles is over before anybody enters, and
\* whoever fails inside leaves.
LEMMA StartingStep ==
    ASSUME Commands \intersect {"stop", "close", "archive"} = {},
           TypeOK, Delivered, Starting, [Next]_vars
    PROVE  Starting'
<1>types. /\ gate \in GateSet /\ (adm.by = "gate" => gate.pc = "start") /\ adm \in AdmSet
          /\ (live = 0 <=> task = "none") /\ NoStop.pc = "idle" /\ NoStop.op = "none"
  BY DEF TypeOK, LocksOK, LiveOK, NoStop
<1>holds. /\ (adm.pc # "idle" => live = 0)
          /\ (gate.pc = "admit" => gate.op = "send")
  BY DEF Delivered, Places, HandedOnce, StartHolds
<1>1. CASE UNCHANGED <<paused, gate, adm, stop>>
  BY <1>1 DEF Starting
<1>2. ASSUME NEW m \in Msg, Steer(m) PROVE Starting'
  BY <1>types, <1>holds, GateFields, <1>2 DEF Steer, Enqueue, SetRow, turnVars, GateFree, IsNextMsg,
      Starting
<1>3. ASSUME NEW m \in Msg, SendNow(m) PROVE Starting'
  BY <1>types, <1>holds, GateFields, <1>3 DEF SendNow, durable, rowVars, turnVars, GateFree,
      Starting
<1>4. ASSUME NEW m \in Msg, Send(m) PROVE Starting'
  BY <1>types, <1>holds, GateFields, <1>4 DEF Send, durable, rowVars, turnVars, GateFree, IsNextMsg,
      Starting
<1>5. ASSUME NEW op \in {"stop", "close", "archive"}, StopBegin(op) PROVE Starting'
  BY <1>types, <1>holds, GateFields, <1>5 DEF StopBegin, Stopping, rowVars, turnVars, NoStop,
      Offered, Starting
<1>6. CASE ResumeCheck
  BY <1>types, <1>holds, GateFields, <1>6 DEF ResumeCheck, durable, rowVars, turnVars, GateFree,
      Offered, Starting
<1>7. CASE Goal
  BY <1>types, <1>holds, GateFields, <1>7 DEF Goal, durable, rowVars, turnVars, AdmFree, Starting
<1>8. CASE Wake
  BY <1>types, <1>holds, GateFields, <1>8 DEF Wake, durable, rowVars, turnVars, GateFree, Starting
<1>9. CASE SendAdmit
  BY <1>types, <1>holds, GateFields, <1>9 DEF SendAdmit, Enqueue, SetRow, turnVars, rowVars,
      AdmFree, MustQueue, Starting
<1>10. CASE InvokeIdle
  BY <1>types, <1>holds, GateFields, <1>10 DEF InvokeIdle, turnVars, rowVars, Closed, AdmFree,
      Starting
<1>11. CASE StartAdmit
  BY <1>types, <1>holds, GateFields, <1>11 DEF StartAdmit, FailQueued, Restate, rowVars, Delivering,
      turnVars, AdmFree, HeldBack, Immediate, Starting
<1>12. CASE ResumeApply
  BY <1>types, <1>holds, GateFields, <1>12 DEF ResumeApply, Retried, turnVars, Starting
<1>13. CASE ReadRefused
  BY <1>types, <1>holds, GateFields, <1>13 DEF ReadRefused, DeliveryError, FailQueued, Restate,
      rowVars, Delivering, turnVars, Starting
<1>14. CASE ReadLive
  BY <1>types, <1>holds, GateFields, <1>14 DEF ReadLive, DeliveryError, FailQueued, Restate,
      rowVars, Delivering, turnVars, Immediate, Starting
<1>15. CASE Awaited
  BY <1>types, <1>holds, GateFields, <1>15 DEF Awaited, durable, rowVars, turnVars, Starting
<1>16. CASE MarkSteer
  BY <1>types, <1>holds, GateFields, <1>16 DEF MarkSteer, SetRow, turnVars, Starting
<1>17. CASE Invoke
  BY <1>types, <1>holds, GateFields, <1>17 DEF Invoke, durable, rowVars, turnVars, Starting
<1>18. CASE Control
  BY <1>types, <1>holds, GateFields, <1>18 DEF Control, durable, rowVars, turnVars, Starting
<1>19. CASE Conclude
  BY <1>types, <1>holds, GateFields, <1>19 DEF Conclude, SetRow, FailQueued, Restate, Delivering,
      turnVars, HostError, SteeringRejection, Starting
<1>20. CASE Drained
  BY <1>types, <1>holds, GateFields, <1>20 DEF Drained, durable, rowVars, turnVars, Starting
<1>21. CASE Open
  <2>1. CASE adm' = [adm EXCEPT !.pc = "commit"] /\ UNCHANGED <<paused, gate, stop>>
      BY <1>types, <2>1 DEF Starting, AdmSet
  <2>2. CASE Abort /\ UNCHANGED stop
    <3>1. adm' = FreeAdm
        BY <2>2 DEF Abort, Freed
    <3> QED
        BY <2>2, <3>1 DEF Starting, FreeAdm
  <2> QED
      BY <1>21, <2>1, <2>2 DEF Open, rowVars
<1>22. CASE Claim
  BY <1>types, <1>holds, GateFields, <1>22 DEF Claim, SetRow, rowVars, FreeAdm, IsNextTurn, Starting
<1>23. CASE NotIdle
  BY <1>types, <1>holds, GateFields, <1>23 DEF NotIdle, Abort, Freed, FreeAdm, FailQueued, Restate,
      rowVars, turnVars, Starting
<1>24. CASE SettleQueue
  BY <1>types, <1>holds, GateFields, <1>24 DEF SettleQueue, Unacknowledged, turnVars, Elsewhere,
      Starting
<1>25. CASE StopLook
  BY <1>types, <1>holds, GateFields, <1>25 DEF StopLook, Stopping, rowVars, turnVars, AdmFree,
      Starting
<1>26. CASE StopAdmit
  BY <1>types, <1>holds, GateFields, <1>26 DEF StopAdmit, Stopping, rowVars, turnVars, AdmFree,
      Starting
<1>27. CASE StopRead
  BY <1>types, <1>holds, GateFields, <1>27 DEF StopRead, Stopping, rowVars, turnVars, Starting
<1>28. CASE StopFlag
  BY <1>types, <1>holds, GateFields, <1>28 DEF StopFlag, Stopping, rowVars, turnVars, AfterCancel,
      FreeAdm, NoStop, Starting
<1>29. CASE StopClose
  BY <1>types, <1>holds, GateFields, <1>29 DEF StopClose, Stopping, rowVars, turnVars, Quiet,
      FreeAdm, NoStop, Starting
<1>30. CASE StopArchive
  BY <1>types, <1>holds, GateFields, <1>30 DEF StopArchive, Stopping, rowVars, turnVars, NoStop,
      Starting
<1>31. CASE DrainTimeout
  BY <1>types, <1>holds, GateFields, <1>31 DEF DrainTimeout, DeliveryError, FailQueued, Restate,
      rowVars, Delivering, turnVars, Starting
<1>32. CASE StopTimeout
  BY <1>types, <1>holds, GateFields, <1>32 DEF StopTimeout, Stopping, rowVars, turnVars, FreeAdm,
      NoStop, Starting
<1>33. CASE Restart
  BY <1>types, <1>holds, GateFields, <1>33 DEF Restart, Recovered, Recoverable, FreeAdm, NoStop,
      FreeGate, Starting
<1> QED
  BY <1>1, <1>2, <1>3, <1>4, <1>5, <1>6, <1>7, <1>8, <1>9, <1>10, <1>11, <1>12, <1>13, <1>14, <1>15,
      <1>16, <1>17, <1>18, <1>19, <1>20, <1>21, <1>22, <1>23, <1>24, <1>25, <1>26, <1>27, <1>28,
      <1>29, <1>30, <1>31, <1>32, <1>33, StartingMove

\* Where nobody stops or closes the session, an automatic dispatch never starts a
\* turn in a queue that is paused, whatever fails, is resumed or restarted between
\* the look of start_queued and the transaction of run_admitted.
THEOREM StartsRespectPause ==
    Commands \intersect {"stop", "close", "archive"} = {} => (Spec => AutoRespectsPause)
<1> SUFFICES ASSUME Commands \intersect {"stop", "close", "archive"} = {}
             PROVE  Spec => AutoRespectsPause
  OBVIOUS
<1> DEFINE Respects == Claim /\ adm.by = "gate" /\ gate.op = "schedule" => ~paused
<1>1. Init => Starting
  BY StartingInit
<1>2. TypeOK /\ Delivered /\ Starting /\ [Next]_vars => Starting'
  BY StartingStep
<1>3. Starting => [Respects]_vars
  BY DEF Starting
<1> QED
  BY <1>1, <1>2, <1>3, TypeCorrect, DeliveredAlways, PTL DEF Spec, AutoRespectsPause

----------------------------------------------------------------------------
(* The order of the messages.                                              *)

\* No earlier message is in that state.
NoneBefore(m, state) == \A n \in Msg : n < m => status[n] # state

\* Messages are submitted in the order of their numbers.
Submitted ==
    /\ \A m \in Msg : status[m] # "unsent" => NoneBefore(m, "unsent")
    /\ gate.op = "send" /\ gate.pc \in {"admit", "start"} => NoneBefore(gate.msg, "unsent")

\* Initially none is.
LEMMA SubmittedInit == Init => Submitted
  BY DEF Init, Submitted, FreeGate

\* A step that submits nothing keeps that.
LEMMA SubmittedKept ==
    ASSUME Submitted, \A m \in Msg : status'[m] = "unsent" <=> status[m] = "unsent",
           \/ gate'.op # "send" \/ gate'.pc \notin {"admit", "start"}
           \/ gate' = gate
    PROVE  Submitted'
  BY DEF Submitted, NoneBefore

\* A message is accepted, or held for a direct send, when all before it are.
LEMMA SubmittedStep == TypeOK /\ HandedOnce /\ Submitted /\ [Next]_vars => Submitted'
<1> SUFFICES ASSUME TypeOK, HandedOnce, Submitted, [Next]_vars PROVE Submitted'
  OBVIOUS
<1>types. /\ gate \in GateSet /\ (adm.by = "gate" => gate.pc = "start") /\ status \in [Msg -> MsgStates]
  BY DEF TypeOK, RowsOK, LocksOK
<1>holds. /\ (gate.pc = "admit" => gate.op = "send") /\ (gate.pc \notin {"idle", "apply"} => gate.msg \in Msg)
          /\ (gate.pc \in {"read", "await", "mark", "drain"} \union Steering => gate.op # "send")
          /\ (gate.pc \in Steering => status[gate.msg] # "unsent")
          /\ (gate.pc \in {"await", "mark", "drain"} => status[gate.msg] # "unsent")
          /\ (gate.pc = "start" /\ gate.op # "send" => status[gate.msg] # "unsent")
  BY DEF HandedOnce, StartHolds, SteerHolds, Deliverable
<1>1. CASE UNCHANGED <<status, gate>>
  BY <1>1 DEF Submitted, NoneBefore, Steering
<1>2. ASSUME NEW m \in Msg, FollowUp(m) PROVE Submitted'
  BY <1>types, <1>holds, GateFields, <1>2 DEF FollowUp, Enqueue, SetRow, turnVars, GateFree,
      IsNextMsg, Submitted, NoneBefore, Steering
<1>3. ASSUME NEW m \in Msg, Steer(m) PROVE Submitted'
  BY <1>types, <1>holds, GateFields, <1>3 DEF Steer, Enqueue, SetRow, turnVars, GateFree, IsNextMsg,
      Submitted, NoneBefore, Steering
<1>4. ASSUME NEW m \in Msg, SendNow(m) PROVE Submitted'
  BY <1>types, <1>holds, GateFields, <1>4 DEF SendNow, durable, rowVars, turnVars, GateFree,
      Submitted, NoneBefore, Steering
<1>5. ASSUME NEW m \in Msg, Send(m) PROVE Submitted'
  BY <1>types, <1>holds, GateFields, <1>5 DEF Send, durable, rowVars, turnVars, GateFree, IsNextMsg,
      Submitted, NoneBefore, Steering
<1>6. ASSUME NEW m \in Msg, Remove(m) PROVE Submitted'
  <2>1. \A n \in Msg : status'[n] = "unsent" <=> status[n] = "unsent"
      BY <1>types, <1>6 DEF Remove, Withdraw, RowStates, Queued
  <2>2. gate' = gate
      BY <1>6 DEF Remove, Withdraw, volatile
  <2> QED
      BY <2>1, <2>2, SubmittedKept
<1>7. CASE Clear
  <2>1. \A n \in Msg : status'[n] = "unsent" <=> status[n] = "unsent"
      BY <1>types, <1>7 DEF Clear, Withdraw, RowStates, Queued
  <2>2. gate' = gate
      BY <1>7 DEF Clear, Withdraw, volatile
  <2> QED
      BY <2>1, <2>2, SubmittedKept
<1>8. CASE ResumeCheck
  BY <1>types, <1>holds, GateFields, <1>8 DEF ResumeCheck, durable, rowVars, turnVars, GateFree,
      Offered, Submitted, NoneBefore, Steering
<1>9. CASE Wake
  BY <1>types, <1>holds, GateFields, <1>9 DEF Wake, durable, rowVars, turnVars, GateFree, Submitted,
      NoneBefore, Steering
<1>10. CASE SendAdmit
  BY <1>types, <1>holds, GateFields, <1>10 DEF SendAdmit, Enqueue, SetRow, turnVars, rowVars,
      AdmFree, MustQueue, Submitted, NoneBefore, Steering
<1>11. CASE InvokeIdle
  BY <1>types, <1>holds, GateFields, <1>11 DEF InvokeIdle, turnVars, rowVars, Closed, AdmFree,
      Submitted, NoneBefore, Steering
<1>12. CASE StartAdmit
  BY <1>types, <1>holds, GateFields, <1>12 DEF StartAdmit, FailQueued, Restate, rowVars, Delivering,
      turnVars, AdmFree, HeldBack, Immediate, Submitted, NoneBefore, Steering
<1>13. CASE ResumeApply
  BY <1>types, <1>holds, GateFields, <1>13 DEF ResumeApply, Retried, turnVars, Submitted,
      NoneBefore, Steering
<1>14. CASE ReadRefused
  <2>1. status[gate.msg] \in Deliverable => status[gate.msg] # "unsent"
      BY DEF Deliverable
  <2>2. gate.pc = "read" /\ gate' = FreeGate
      BY <1>14 DEF ReadRefused, DeliveryError
  <2>3. \/ UNCHANGED status
        \/ gate.op = "steer" /\ DeliveryError
        \/ status[gate.msg] \in Deliverable /\ FailQueued(gate.msg, FALSE)
      BY <1>14 DEF ReadRefused, DeliveryError, rowVars
  <2>4. gate.op = "steer" => status[gate.msg] # "unsent"
      BY <2>1, <2>2 DEF HandedOnce, StartHolds
  <2>5. \A n \in Msg : status'[n] = "unsent" <=> status[n] = "unsent"
      BY <1>types, <2>1, <2>3, <2>4 DEF DeliveryError, FailQueued, Restate
  <2> QED
      BY <2>2, <2>5, SubmittedKept, GateFields
<1>15. CASE ReadLive
  <2>1. gate.pc = "read" /\ status[gate.msg] # "unsent"
      BY <1>15 DEF ReadLive, Deliverable
  <2>2. gate.op # "send" /\ (gate'.op = gate.op \/ gate' = FreeGate)
      BY <1>types, <1>holds, <1>15, <2>1, GateFields DEF ReadLive, DeliveryError
  <2>3. \A n \in Msg : status'[n] = "unsent" <=> status[n] = "unsent"
    <3>1. UNCHANGED status \/ DeliveryError
        BY <1>15 DEF ReadLive, rowVars
    <3> QED
        BY <1>types, <2>1, <3>1 DEF DeliveryError, FailQueued, Restate, rowVars
  <2> QED
      BY <2>2, <2>3, SubmittedKept, GateFields
<1>16. CASE Awaited
  BY <1>types, <1>holds, GateFields, <1>16 DEF Awaited, durable, rowVars, turnVars, Submitted,
      NoneBefore, Steering
<1>17. CASE MarkSteer
  BY <1>types, <1>holds, GateFields, <1>17 DEF MarkSteer, SetRow, turnVars, Submitted, NoneBefore,
      Steering
<1>18. CASE Invoke
  BY <1>types, <1>holds, GateFields, <1>18 DEF Invoke, durable, rowVars, turnVars, Submitted,
      NoneBefore, Steering
<1>19. CASE Control
  BY <1>types, <1>holds, GateFields, <1>19 DEF Control, durable, rowVars, turnVars, Submitted,
      NoneBefore, Steering
<1>20. CASE Conclude
  BY <1>types, <1>holds, GateFields, <1>20 DEF Conclude, SetRow, FailQueued, Restate, Delivering,
      turnVars, HostError, SteeringRejection, Submitted, NoneBefore, Steering
<1>21. CASE Drained
  BY <1>types, <1>holds, GateFields, <1>21 DEF Drained, durable, rowVars, turnVars, Submitted,
      NoneBefore, Steering
<1>22. CASE Open
  BY <1>types, <1>holds, GateFields, <1>22 DEF Open, Abort, Freed, FreeAdm, FailQueued, Restate,
      rowVars, turnVars, Closed, Submitted, NoneBefore, Steering
<1>23. CASE Claim
  BY <1>types, <1>holds, GateFields, <1>23 DEF Claim, SetRow, rowVars, FreeAdm, IsNextTurn,
      Submitted, NoneBefore, Steering
<1>24. CASE NotIdle
  BY <1>types, <1>holds, GateFields, <1>24 DEF NotIdle, Abort, Freed, FreeAdm, FailQueued, Restate,
      rowVars, turnVars, Submitted, NoneBefore, Steering
<1>25. CASE Acknowledge
  BY <1>types, <1>holds, GateFields, <1>25 DEF Acknowledge, Acknowledged, turnVars, Elsewhere,
      Submitted, NoneBefore, Steering
<1>26. CASE SettleQueue
  BY <1>types, <1>holds, GateFields, <1>26 DEF SettleQueue, Unacknowledged, turnVars, Elsewhere,
      Submitted, NoneBefore, Steering
<1>27. CASE DrainTimeout
  BY <1>types, <1>holds, GateFields, <1>27 DEF DrainTimeout, DeliveryError, FailQueued, Restate,
      rowVars, Delivering, turnVars, Submitted, NoneBefore, Steering
<1>28. CASE Restart
  BY <1>types, <1>holds, GateFields, <1>28 DEF Restart, Recovered, Recoverable, FreeAdm, NoStop,
      FreeGate, Submitted, NoneBefore, Steering
<1> QED
  BY <1>1, <1>2, <1>3, <1>4, <1>5, <1>6, <1>7, <1>8, <1>9, <1>10, <1>11, <1>12, <1>13, <1>14, <1>15,
      <1>16, <1>17, <1>18, <1>19, <1>20, <1>21, <1>22, <1>23, <1>24, <1>25, <1>26, <1>27, <1>28,
      WaitsMove

\* A message that could not be started waits in a paused queue.
FailedPauses == (\E m \in Msg : status[m] = "failed") => paused

\* Initially there is none.
LEMMA FailedPausesInit == Init => FailedPauses
  BY DEF Init, FailedPauses

\* Whoever fails a row pauses the queue, and a resume leaves no failed row.
LEMMA FailedPausesStep == TypeOK /\ FailedPauses /\ [Next]_vars => FailedPauses'
<1> SUFFICES ASSUME TypeOK, FailedPauses, [Next]_vars PROVE FailedPauses'
  OBVIOUS
<1>types. /\ gate \in GateSet /\ (adm.by = "gate" => gate.pc = "start") /\ status \in [Msg -> MsgStates]
  BY DEF TypeOK, RowsOK, LocksOK
<1>1. CASE UNCHANGED <<status, paused>>
  BY <1>1 DEF FailedPauses
<1>2. ASSUME NEW m \in Msg, FollowUp(m) PROVE FailedPauses'
  BY <1>types, <1>2 DEF FollowUp, Enqueue, SetRow, turnVars, GateFree, IsNextMsg, FailedPauses
<1>3. ASSUME NEW m \in Msg, Steer(m) PROVE FailedPauses'
  BY <1>types, <1>3 DEF Steer, Enqueue, SetRow, turnVars, GateFree, IsNextMsg, FailedPauses
<1>4. ASSUME NEW m \in Msg, Remove(m) PROVE FailedPauses'
  BY <1>types, <1>4 DEF Remove, Withdraw, turnVars, volatile, GateFree, FailedPauses
<1>5. CASE Clear
  BY <1>types, <1>5 DEF Clear, Withdraw, turnVars, volatile, GateFree, FailedPauses
<1>6. CASE SendAdmit
  BY <1>types, <1>6 DEF SendAdmit, Enqueue, SetRow, turnVars, rowVars, AdmFree, MustQueue,
      FailedPauses
<1>7. CASE StartAdmit
  BY <1>types, <1>7 DEF StartAdmit, FailQueued, Restate, rowVars, Delivering, turnVars, AdmFree,
      HeldBack, Immediate, FailedPauses
<1>8. CASE ResumeApply
  BY <1>types, <1>8 DEF ResumeApply, Retried, turnVars, FailedPauses
<1>9. CASE ReadRefused
  BY <1>types, <1>9 DEF ReadRefused, DeliveryError, FailQueued, Restate, rowVars, Delivering,
      turnVars, FailedPauses
<1>10. CASE ReadLive
  BY <1>types, <1>10 DEF ReadLive, DeliveryError, FailQueued, Restate, rowVars, Delivering,
      turnVars, Immediate, FailedPauses
<1>11. CASE MarkSteer
  BY <1>types, <1>11 DEF MarkSteer, SetRow, turnVars, FailedPauses
<1>12. CASE Conclude
  BY <1>types, <1>12 DEF Conclude, SetRow, FailQueued, Restate, Delivering, turnVars, HostError,
      SteeringRejection, FailedPauses
<1>13. CASE Open
  BY <1>types, <1>13 DEF Open, Abort, Freed, FreeAdm, FailQueued, Restate, rowVars, turnVars,
      Closed, FailedPauses
<1>14. CASE Claim
  <2> SUFFICES ASSUME NEW m \in Msg, status'[m] = "failed" PROVE paused'
      BY DEF FailedPauses
  <2>1. status[m] = "failed"
      BY <1>types, <1>14 DEF Claim, SetRow, rowVars
  <2>2. paused /\ Queued # {}
      BY <2>1 DEF FailedPauses, Queued, RowStates
  <2> QED
      BY <1>14, <2>2 DEF Claim
<1>15. CASE NotIdle
  BY <1>types, <1>15 DEF NotIdle, Abort, Freed, FreeAdm, FailQueued, Restate, rowVars, turnVars,
      FailedPauses
<1>16. CASE Acknowledge
  BY <1>types, <1>16 DEF Acknowledge, Acknowledged, turnVars, Elsewhere, FailedPauses
<1>17. CASE SettleQueue
  BY <1>types, <1>17 DEF SettleQueue, FailedPauses
<1>18. CASE StopFlag
  BY <1>types, <1>18 DEF StopFlag, Stopping, rowVars, turnVars, AfterCancel, FreeAdm, NoStop,
      FailedPauses
<1>19. CASE DrainTimeout
  BY <1>types, <1>19 DEF DrainTimeout, DeliveryError, FailQueued, Restate, rowVars, Delivering,
      turnVars, FailedPauses
<1>20. CASE Restart
  BY <1>types, <1>20 DEF Restart, Recovered, Recoverable, FreeAdm, NoStop, FreeGate, FailedPauses
<1> QED
  BY <1>1, <1>2, <1>3, <1>4, <1>5, <1>6, <1>7, <1>8, <1>9, <1>10, <1>11, <1>12, <1>13, <1>14, <1>15,
      <1>16, <1>17, <1>18, <1>19, <1>20, PauseMove

\* Where the session offers no steering: no message that waits was submitted before
\* the one being dispatched, or the one whose turn has not reached the provider, and,
\* once the dispatch has found the queue open, none that a resume would put back.
InTurn ==
    /\ gate.op \in {"none", "send", "schedule", "resume"} /\ (gate.op = "none" => gate.pc = "idle")
    /\ gate.pc \notin {"mark", "drain"} \union Steering /\ (gate.op = "resume" => gate.pc = "apply")
    /\ gate.op = "schedule" =>
         /\ gate.pc \in {"read", "await", "start"} /\ status[gate.msg] # "unsent"
         /\ live # 0 => carries[live] = 0
         /\ NoneBefore(gate.msg, "pending") /\ (adm.by = "gate" => NoneBefore(gate.msg, "failed"))
    /\ live # 0 /\ task \in BeforeSend /\ carries[live] # 0 =>
         NoneBefore(carries[live], "pending") /\ NoneBefore(carries[live], "failed")

\* Initially nobody holds the gate and no turn is live.
LEMMA InTurnInit == Init => InTurn
  BY DEF Init, InTurn, FreeGate, Steering

\* A step by which no message begins to wait or fails keeps that.
LEMMA InTurnKept ==
    ASSUME InTurn, gate' = gate \/ gate' = FreeGate, adm'.by = "gate" => adm.by = "gate",
           \A m \in Msg : status'[m] \in {"pending", "failed", "unsent"} => status'[m] = status[m],
           status \in [Msg -> MsgStates], gate.op = "schedule" => gate.msg \in Msg,
           UNCHANGED <<carries, live>> \/ live' = 0, task' \in BeforeSend => task \in BeforeSend
    PROVE  InTurn'
<1>1. /\ gate'.op \in {"none", "send", "schedule", "resume"} /\ (gate'.op = "none" => gate'.pc = "idle")
      /\ gate'.pc \notin {"mark", "drain"} \union Steering /\ (gate'.op = "resume" => gate'.pc = "apply")
  BY DEF InTurn, FreeGate, Steering
<1>2. ASSUME gate'.op = "schedule"
      PROVE  /\ gate'.pc \in {"read", "await", "start"} /\ status'[gate'.msg] # "unsent"
             /\ live' # 0 => carries'[live'] = 0
             /\ NoneBefore(gate.msg, "pending")' /\ (adm'.by = "gate" => NoneBefore(gate.msg, "failed")')
  <2>1. gate' = gate
    BY <1>2 DEF FreeGate
  <2> QED
    BY <1>2, <2>1 DEF InTurn, NoneBefore
<1>3. ASSUME live' # 0, task' \in BeforeSend, carries'[live'] # 0
      PROVE  NoneBefore(carries[live], "pending")' /\ NoneBefore(carries[live], "failed")'
  BY <1>3 DEF InTurn, NoneBefore
<1> QED
  BY <1>1, <1>2, <1>3 DEF InTurn

\* Neither does a step that moves the gate along.
LEMMA InTurnMoves ==
    ASSUME InTurn, gate.op = "schedule", gate'.op = gate.op, gate'.msg = gate.msg,
           gate'.pc \in {"read", "await", "start"}, UNCHANGED <<status, carries, live, task, adm>>
    PROVE  InTurn'
  BY DEF InTurn, NoneBefore, Steering

\* A dispatch that gives the gate back has no turn of a message to look after.
LEMMA InTurnFreed ==
    ASSUME InTurn, gate.op = "schedule", gate' = FreeGate, UNCHANGED <<carries, live>>
    PROVE  InTurn'
  BY DEF InTurn, FreeGate, Steering

\* A message that is accepted comes after the one whose turn is live.
LEMMA InTurnAccepts ==
    ASSUME InTurn, Submitted, NEW m \in Msg, status[m] = "unsent",
           \A n \in Msg : n # m => status'[n] = status[n], status'[m] # "failed",
           gate'.op \in {"none", "send"}, gate'.op = "none" => gate'.pc = "idle",
           gate'.pc \notin {"mark", "drain"} \union Steering,
           UNCHANGED <<carries, live, task>>,
           live # 0 /\ carries[live] # 0 => carries[live] \in Msg /\ status[carries[live]] # "unsent"
    PROVE  InTurn'
<1>1. ASSUME live # 0, task \in BeforeSend, carries[live] # 0, NEW n \in Msg, n < carries[live]
      PROVE  status'[n] # "pending" /\ status'[n] # "failed"
  <2>1. /\ NoneBefore(carries[live], "unsent") /\ NoneBefore(carries[live], "pending")
        /\ NoneBefore(carries[live], "failed")
    BY <1>1 DEF Submitted, InTurn
  <2>2. n # m
    BY <1>1, <2>1 DEF NoneBefore
  <2> QED
    BY <1>1, <2>1, <2>2 DEF NoneBefore
<1> QED
  BY <1>1 DEF InTurn, NoneBefore

\* The steps that move a row, the live turn or the queue gate.
LEMMA InTurnMove ==
    ASSUME [Next]_vars
    PROVE
        \/ UNCHANGED <<status, carries, live, task, gate>>
        \/ Clear \/ ResumeCheck \/ Wake \/ SendAdmit \/ InvokeIdle \/ StartAdmit
        \/ ResumeApply \/ ReadRefused \/ ReadLive \/ Awaited \/ MarkSteer \/ Invoke
        \/ Control \/ Conclude \/ Drained \/ Open \/ Claim \/ NotIdle \/ TaskInvoke
        \/ MarkSent \/ Dispatch \/ NativeStart \/ Acknowledge \/ Terminal \/ Reply
        \/ HostTerminal \/ SettleQueue \/ Release \/ DrainTimeout \/ Fail \/ Restart
        \/ \E m \in Msg : FollowUp(m) \/ Steer(m) \/ SendNow(m) \/ Send(m) \/ Remove(m)
  BY DEF Next, UserStep, QueueLocks, QueueStep, AdmissionStep, TaskStep, StopLocks, StopStep,
      StopBegin, Stopping, rowVars, turnVars, Goal, durable, Unarchive, StopLook, StopAdmit,
      StopRead, StopFlag, StopClose, StopArchive, Ask, Event, Elsewhere, Resolve, StopTimeout,
      volatile, vars

\* Nobody else enters the session gate for the holder of the queue gate.
LEMMA EntersMove ==
    ASSUME TypeOK, [Next]_vars, adm'.by = "gate"
    PROVE  adm.by = "gate" \/ SendAdmit \/ StartAdmit
<1>1. CASE UNCHANGED adm
  BY <1>1
<1>2. CASE adm' = FreeAdm \/ adm'.by = "goal" \/ adm'.by = "stop"
  BY <1>2 DEF FreeAdm
<1>3. CASE Open \/ Claim \/ NotIdle
  <2>1. adm' = FreeAdm \/ adm' = [adm EXCEPT !.pc = "commit"]
    BY <1>3 DEF Open, Claim, NotIdle, Abort, Freed
  <2>2. adm \in AdmSet
    BY DEF TypeOK, LocksOK
  <2>3. [adm EXCEPT !.pc = "commit"].by = adm.by
    BY <2>2 DEF AdmSet
  <2> QED
    BY <1>2, <2>1, <2>3
<1>4. CASE UserStep \/ Wake
  <2>1. CASE \E m \in Msg : FollowUp(m) \/ Steer(m) \/ SendNow(m) \/ Send(m) \/ Remove(m)
    BY <1>1, <2>1 DEF FollowUp, Steer, SendNow, Send, Remove, Withdraw, volatile
  <2>2. CASE Clear \/ ResumeCheck \/ Unarchive \/ Wake
    BY <1>1, <2>2 DEF Clear, Withdraw, ResumeCheck, Unarchive, Wake, volatile
  <2>3. CASE Goal
    BY <1>2, <2>3 DEF Goal
  <2>4. ASSUME NEW op \in {"stop", "close", "archive"}, StopBegin(op) PROVE adm.by = "gate"
    BY <2>4 DEF StopBegin
  <2> QED
    BY <1>4, <2>1, <2>2, <2>3, <2>4 DEF UserStep
<1>5. CASE InvokeIdle \/ QueueStep \/ DrainTimeout
  BY <1>1, <1>5 DEF InvokeIdle, QueueStep, DrainTimeout, ResumeApply, ReadRefused, ReadLive,
      Awaited, MarkSteer, Invoke, Control, Conclude, Drained
<1>6. CASE TaskStep \/ Ask \/ Resolve \/ Fail
  BY <1>1, <1>6 DEF TaskStep, Ask, Resolve, Fail, TaskInvoke, MarkSent, Dispatch, NativeStart,
      Event, Elsewhere, Acknowledge, Terminal, Reply, HostTerminal, SettleQueue, Release
<1>7. CASE StopLocks \/ StopStep \/ StopTimeout \/ Restart
  BY <1>1, <1>2, <1>7 DEF StopLocks, StopStep, StopTimeout, Restart, StopLook, StopAdmit, StopRead,
      StopFlag, AfterCancel, StopClose, StopArchive
<1>8. CASE UNCHANGED vars
  BY <1>1, <1>8 DEF vars, volatile
<1> QED
  BY <1>3, <1>4, <1>5, <1>6, <1>7, <1>8 DEF Next, QueueLocks, AdmissionStep

\* What is dispatched is the first that waits, a direct send passes nobody, and what is
\* submitted meanwhile comes later.
LEMMA InTurnStep ==
    ASSUME Commands \intersect {"steer", "sendNow"} = {}, TypeOK, Delivered, Inside, SendsFirst,
           FailedPauses, Submitted, InTurn, [Next]_vars
    PROVE  InTurn'
<1>types. /\ gate \in GateSet /\ (adm.by = "gate" => gate.pc = "start") /\ status \in [Msg -> MsgStates]
          /\ live \in Turn \union {0} /\ carries \in [Turn -> Msg \union {0}] /\ adm \in AdmSet
  BY DEF TypeOK, RowsOK, TurnsOK, LocksOK, LiveOK
<1>holds. /\ (gate.pc = "admit" => gate.op = "send") /\ (gate.pc \notin {"idle", "apply"} => gate.msg \in Msg)
          /\ (gate.pc \in {"read", "await", "mark", "drain"} \union Steering => gate.op # "send")
          /\ (gate.pc = "start" /\ gate.op # "send" => status[gate.msg] # "unsent")
          /\ (live # 0 /\ carries[live] # 0 => carries[live] \in Msg /\ status[carries[live]] # "unsent")
  BY <1>types DEF Delivered, HandedOnce, StartHolds, SteerHolds, Carried, Deliverable
<1>mine. gate.op = "schedule" => gate.msg \in Msg
  BY <1>holds DEF InTurn
<1>kinds. /\ (gate.op = "none" => gate.pc = "idle")
          /\ (gate.op = "schedule" => gate.pc \in {"read", "await", "start"})
          /\ gate.op \in {"none", "send", "schedule", "resume"}
          /\ (gate.op = "resume" => gate.pc = "apply") /\ gate.pc \notin {"mark", "drain"} \union Steering
  BY DEF InTurn
<1>enters. ASSUME StartAdmit PROVE InTurn'
  <2>1. UNCHANGED <<carries, live, task>> /\ gate.pc = "start" /\ gate.op = "schedule"
      BY <1>kinds, <1>enters DEF StartAdmit, Delivering, turnVars, Inside, AdmFree
  <2>2. CASE gate' = FreeGate
      BY <2>1, <2>2, InTurnFreed
  <2>3. CASE gate' = gate /\ UNCHANGED status /\ ~paused
    <3>1. \A n \in Msg : status[n] # "failed"
        BY <2>3 DEF FailedPauses
    <3> QED
        BY <1>mine, <2>1, <2>3, <3>1 DEF InTurn, NoneBefore
  <2>4. ~Immediate
      BY <2>1 DEF Immediate
  <2> QED
      BY <1>enters, <2>4, <2>2, <2>3 DEF StartAdmit, HeldBack, Immediate, rowVars
<1>1. CASE UNCHANGED <<status, carries, live, task, gate>>
  <2>1. CASE adm'.by = "gate" => adm.by = "gate"
    BY <1>types, <1>mine, <1>1, <2>1, InTurnKept
  <2>2. CASE SendAdmit
    BY <1>1, <1>holds, <2>2 DEF SendAdmit, InTurn, NoneBefore
  <2>3. CASE StartAdmit
    BY <1>enters, <2>3
  <2> QED
    BY <2>1, <2>2, <2>3, EntersMove
<1>2. ASSUME NEW m \in Msg, FollowUp(m) PROVE InTurn'
  <2>1. /\ UNCHANGED <<gate, carries, live, task>> /\ gate.pc = "idle" /\ status[m] = "unsent"
        /\ \A n \in Msg : n # m => status'[n] = status[n]
        /\ status'[m] # "failed"
      BY <1>types, <1>2 DEF FollowUp, Enqueue, SetRow, turnVars, GateFree, IsNextMsg
  <2> QED
      BY <1>holds, <1>kinds, <2>1, InTurnAccepts
<1>3. ASSUME NEW m \in Msg, Steer(m) PROVE InTurn'
  BY <1>types, <1>holds, <1>kinds, GateFields, <1>3 DEF Steer, Enqueue, SetRow, turnVars, GateFree,
      IsNextMsg, InTurn, NoneBefore, Submitted, Steering, Offered
<1>4. ASSUME NEW m \in Msg, SendNow(m) PROVE InTurn'
  BY <1>types, <1>holds, <1>kinds, GateFields, <1>4 DEF SendNow, durable, rowVars, turnVars,
      GateFree, InTurn, NoneBefore, Submitted, Steering, Offered
<1>5. ASSUME NEW m \in Msg, Send(m) PROVE InTurn'
  BY <1>types, <1>holds, <1>kinds, GateFields, <1>5 DEF Send, durable, rowVars, turnVars, GateFree,
      IsNextMsg, InTurn, NoneBefore, Submitted, Steering, Offered
<1>6. ASSUME NEW m \in Msg, Remove(m) PROVE InTurn'
  <2>1. gate' = gate \/ gate' = FreeGate
      BY <1>6 DEF Remove, Withdraw, turnVars, volatile, GateFree
  <2>2. \A n \in Msg : status'[n] \in {"pending", "failed", "unsent"} => status'[n] = status[n]
      BY <1>types, <1>6 DEF Remove, Withdraw, turnVars, volatile, GateFree
  <2>3. UNCHANGED <<carries, live, task, adm>>
      BY <1>6 DEF Remove, Withdraw, turnVars, volatile, GateFree
  <2> QED
      BY <1>types, <1>mine, <2>1, <2>2, <2>3, InTurnKept
<1>7. CASE Clear
  <2>1. gate' = gate \/ gate' = FreeGate
      BY <1>7 DEF Clear, Withdraw, turnVars, volatile, GateFree
  <2>2. \A n \in Msg : status'[n] \in {"pending", "failed", "unsent"} => status'[n] = status[n]
      BY <1>types, <1>7 DEF Clear, Withdraw, turnVars, volatile, GateFree
  <2>3. UNCHANGED <<carries, live, task, adm>>
      BY <1>7 DEF Clear, Withdraw, turnVars, volatile, GateFree
  <2> QED
      BY <1>types, <1>mine, <2>1, <2>2, <2>3, InTurnKept
<1>8. CASE ResumeCheck
  BY <1>types, <1>holds, <1>kinds, GateFields, <1>8 DEF ResumeCheck, durable, rowVars, turnVars,
      GateFree, Offered, InTurn, NoneBefore, Submitted, Steering, Offered
<1>9. CASE Wake
  BY <1>types, <1>holds, <1>kinds, GateFields, <1>9 DEF Wake, durable, rowVars, turnVars, GateFree,
      InTurn, NoneBefore, Submitted, Steering, Offered
<1>10. CASE SendAdmit
  <2>1. gate.pc = "admit" /\ status[gate.msg] = "unsent"
      BY <1>10, <1>holds DEF SendAdmit, Delivered, HandedOnce, StartHolds
  <2>2. /\ UNCHANGED <<carries, live, task>> /\ gate.pc = "admit" /\ gate.op = "send" /\ gate.msg \in Msg
        /\ \A n \in Msg : n # gate.msg => status'[n] = status[n]
        /\ status'[gate.msg] # "failed"
      BY <1>types, <1>holds, <1>10, <2>1 DEF SendAdmit, Enqueue, SetRow, turnVars, rowVars
  <2>3. CASE gate' = FreeGate
    <3>1. gate'.op = "none" /\ gate'.pc = "idle"
        BY <2>3 DEF FreeGate
    <3> QED
        BY <1>holds, <2>1, <2>2, <3>1, InTurnAccepts DEF Steering
  <2>4. CASE At("start")
    <3>1. gate'.op = "send" /\ gate'.pc = "start"
        BY <1>types, <2>2, <2>4, GateFields
    <3> QED
        BY <1>holds, <2>1, <2>2, <3>1, InTurnAccepts DEF Steering
  <2> QED
      BY <1>10, <2>3, <2>4 DEF SendAdmit
<1>11. CASE InvokeIdle
  BY <1>types, <1>holds, <1>kinds, GateFields, <1>11 DEF InvokeIdle, turnVars, rowVars, Closed,
      AdmFree, InTurn, NoneBefore, Submitted, Steering, Offered
<1>12. CASE StartAdmit
  BY <1>12, <1>enters
<1>13. CASE ResumeApply
  <2>1. /\ gate'.op = "none" /\ gate'.pc = "idle" /\ UNCHANGED <<live, task, carries>>
        /\ \A m \in Msg : status'[m] \in {"pending", "failed"} => status[m] \in {"pending", "failed"}
      BY <1>13 DEF ResumeApply, Retried, turnVars, FreeGate
  <2> QED
      BY <2>1 DEF InTurn, NoneBefore, Steering
<1>14. CASE ReadRefused
  BY <1>holds, <1>kinds, <1>14, InTurnFreed DEF ReadRefused, DeliveryError, Delivering, turnVars
<1>15. CASE ReadLive
  <2>1. ~Immediate /\ gate.op = "schedule"
      BY <1>holds, <1>kinds, <1>15 DEF Immediate, ReadLive
  <2>2. UNCHANGED <<status, carries, live, task, adm>>
      BY <1>15, <2>1 DEF ReadLive, Delivering, rowVars, turnVars
  <2>3. CASE gate' = FreeGate
      BY <2>1, <2>2, <2>3, InTurnFreed
  <2>4. CASE At("start") \/ Facing("await", live)
      BY <1>types, <2>1, <2>2, <2>4, GateFields, InTurnMoves
  <2> QED
      BY <1>15, <2>1, <2>3, <2>4 DEF ReadLive
<1>16. CASE Awaited
  BY <1>types, <1>holds, <1>kinds, GateFields, <1>16, InTurnMoves DEF Awaited, durable, rowVars, turnVars
<1>17. CASE MarkSteer
  BY <1>types, <1>holds, <1>kinds, GateFields, <1>17 DEF MarkSteer, SetRow, turnVars, InTurn,
      NoneBefore, Submitted, Steering, Offered
<1>18. CASE Invoke
  BY <1>types, <1>holds, <1>kinds, GateFields, <1>18 DEF Invoke, durable, rowVars, turnVars, InTurn,
      NoneBefore, Submitted, Steering, Offered
<1>19. CASE Control
  BY <1>types, <1>holds, <1>kinds, GateFields, <1>19 DEF Control, durable, rowVars, turnVars,
      InTurn, NoneBefore, Submitted, Steering, Offered
<1>20. CASE Conclude
  BY <1>types, <1>holds, <1>kinds, GateFields, <1>20 DEF Conclude, SetRow, FailQueued, Restate,
      Delivering, turnVars, HostError, SteeringRejection, InTurn, NoneBefore, Submitted, Steering,
      Offered
<1>21. CASE Drained
  BY <1>types, <1>holds, <1>kinds, GateFields, <1>21 DEF Drained, durable, rowVars, turnVars,
      InTurn, NoneBefore, Submitted, Steering, Offered
<1>22. CASE Open
  <2>0. UNCHANGED <<carries, live, task>>
      BY <1>22 DEF Open, turnVars
  <2>1. CASE UNCHANGED <<status, gate>> /\ (adm'.by = "gate" => adm.by = "gate")
      BY <1>types, <1>mine, <2>0, <2>1, InTurnKept
  <2>2. CASE Abort /\ adm.by = "gate"
    <3>1. gate.op \in {"send", "schedule"} /\ gate' = FreeGate
        BY <1>types, <1>kinds, <2>2 DEF Abort
    <3>2. CASE gate.op = "schedule"
        BY <2>0, <3>1, <3>2, InTurnFreed
    <3>3. CASE gate.op = "send"
        BY <1>types, <1>mine, <2>0, <2>2, <3>1, <3>3, InTurnKept DEF Abort, Freed, FreeAdm, rowVars
    <3> QED
        BY <3>1, <3>2, <3>3
  <2>3. CASE Abort /\ adm.by # "gate"
      BY <2>1, <2>3 DEF Abort, Freed, FreeAdm, rowVars
  <2> QED
      BY <1>types, <1>22, <2>1, <2>2, <2>3 DEF Open, AdmSet, rowVars
<1>23. CASE Claim
  <2> USE <1>23
  <2>1. PICK t \in Turn : live' = t /\ carries' = [carries EXCEPT ![t] = IF adm.by = "gate" THEN gate.msg ELSE 0]
      BY DEF Claim
  <2>2. carries'[live'] = IF adm.by = "gate" THEN gate.msg ELSE 0
      BY <1>types, <2>1
  <2>3. \A n \in Msg : status'[n] \in {"pending", "failed", "unsent"} => status'[n] = status[n]
      BY <1>types DEF Claim, SetRow, rowVars
  <2>4. CASE adm.by # "gate"
    <3>1. gate' = gate /\ adm'.by # "gate"
        BY <2>4 DEF Claim, FreeAdm
    <3> QED
        BY <1>mine, <2>2, <2>3, <2>4, <3>1 DEF InTurn, NoneBefore
  <2>5. CASE adm.by = "gate"
    <3>1. gate.pc = "start" /\ gate.op \in {"send", "schedule"} /\ gate' = FreeGate
        BY <1>types, <1>kinds, <2>5 DEF Claim
    <3>2. NoneBefore(gate.msg, "pending") /\ NoneBefore(gate.msg, "failed")
        BY <2>5, <3>1 DEF SendsFirst, Queued, RowStates, InTurn, NoneBefore
    <3>4. \A n \in Msg : n < gate.msg => status'[n] # "pending" /\ status'[n] # "failed"
        BY <2>3, <3>2 DEF NoneBefore
    <3> QED
        BY <2>2, <2>5, <3>1, <3>4 DEF InTurn, NoneBefore, FreeGate, Steering
  <2> QED
      BY <2>4, <2>5
<1>24. CASE NotIdle
  <2>0. UNCHANGED <<carries, live, task>>
      BY <1>24 DEF NotIdle, turnVars
  <2>1. CASE UNCHANGED <<status, gate>> /\ (adm'.by = "gate" => adm.by = "gate")
      BY <1>types, <1>mine, <2>0, <2>1, InTurnKept
  <2>2. CASE Abort /\ adm.by = "gate"
    <3>1. gate.op \in {"send", "schedule"} /\ gate' = FreeGate
        BY <1>types, <1>kinds, <2>2 DEF Abort
    <3>2. CASE gate.op = "schedule"
        BY <2>0, <3>1, <3>2, InTurnFreed
    <3>3. CASE gate.op = "send"
        BY <1>types, <1>mine, <2>0, <2>2, <3>1, <3>3, InTurnKept DEF Abort, Freed, FreeAdm, rowVars
    <3> QED
        BY <3>1, <3>2, <3>3
  <2>3. CASE Abort /\ adm.by # "gate"
      BY <2>1, <2>3 DEF Abort, Freed, FreeAdm, rowVars
  <2> QED
      BY <1>types, <1>24, <2>1, <2>2, <2>3 DEF NotIdle, rowVars
<1>25. CASE TaskInvoke
  <2>1. UNCHANGED <<gate, adm, carries, live>> /\ (task' \in BeforeSend => task \in BeforeSend)
      BY <1>25 DEF TaskInvoke, durable, rowVars, turnVars, BeforeSend
  <2>2. \A n \in Msg : status'[n] \in {"pending", "failed", "unsent"} => status'[n] = status[n]
      BY <1>types, <1>25 DEF TaskInvoke, durable, rowVars, turnVars
  <2> QED
      BY <1>types, <1>mine, <2>1, <2>2, InTurnKept
<1>26. CASE MarkSent
  <2>1. UNCHANGED <<gate, adm, carries, live>> /\ (task' \in BeforeSend => task \in BeforeSend)
      BY <1>26 DEF MarkSent, PossiblySent, Elsewhere, rowVars, BeforeSend
  <2>2. \A n \in Msg : status'[n] \in {"pending", "failed", "unsent"} => status'[n] = status[n]
      BY <1>types, <1>26 DEF MarkSent, PossiblySent, Elsewhere, rowVars
  <2> QED
      BY <1>types, <1>mine, <2>1, <2>2, InTurnKept
<1>27. CASE Dispatch
  <2>1. UNCHANGED <<gate, adm, carries, live>> /\ (task' \in BeforeSend => task \in BeforeSend)
      BY <1>27 DEF Dispatch, durable, rowVars, turnVars, Elsewhere, BeforeSend
  <2>2. \A n \in Msg : status'[n] \in {"pending", "failed", "unsent"} => status'[n] = status[n]
      BY <1>types, <1>27 DEF Dispatch, durable, rowVars, turnVars, Elsewhere
  <2> QED
      BY <1>types, <1>mine, <2>1, <2>2, InTurnKept
<1>28. CASE NativeStart
  <2>1. UNCHANGED <<gate, adm, carries, live>> /\ (task' \in BeforeSend => task \in BeforeSend)
      BY <1>28 DEF NativeStart, Event, Elsewhere, rowVars, BeforeSend
  <2>2. \A n \in Msg : status'[n] \in {"pending", "failed", "unsent"} => status'[n] = status[n]
      BY <1>types, <1>28 DEF NativeStart, Event, Elsewhere, rowVars
  <2> QED
      BY <1>types, <1>mine, <2>1, <2>2, InTurnKept
<1>29. CASE Acknowledge
  <2>1. UNCHANGED <<gate, adm, carries, live>> /\ (task' \in BeforeSend => task \in BeforeSend)
      BY <1>29 DEF Acknowledge, Acknowledged, turnVars, Elsewhere, BeforeSend
  <2>2. \A n \in Msg : status'[n] \in {"pending", "failed", "unsent"} => status'[n] = status[n]
      BY <1>types, <1>29 DEF Acknowledge, Acknowledged, turnVars, Elsewhere
  <2> QED
      BY <1>types, <1>mine, <2>1, <2>2, InTurnKept
<1>30. CASE Terminal
  <2>1. UNCHANGED <<gate, adm, carries, live>> /\ (task' \in BeforeSend => task \in BeforeSend)
      BY <1>30 DEF Terminal, Event, Elsewhere, rowVars, BeforeSend
  <2>2. \A n \in Msg : status'[n] \in {"pending", "failed", "unsent"} => status'[n] = status[n]
      BY <1>types, <1>30 DEF Terminal, Event, Elsewhere, rowVars
  <2> QED
      BY <1>types, <1>mine, <2>1, <2>2, InTurnKept
<1>31. CASE Reply
  <2>1. UNCHANGED <<gate, adm, carries, live>> /\ (task' \in BeforeSend => task \in BeforeSend)
      BY <1>31 DEF Reply, Elsewhere, rowVars, BeforeSend
  <2>2. \A n \in Msg : status'[n] \in {"pending", "failed", "unsent"} => status'[n] = status[n]
      BY <1>types, <1>31 DEF Reply, Elsewhere, rowVars
  <2> QED
      BY <1>types, <1>mine, <2>1, <2>2, InTurnKept
<1>32. CASE HostTerminal
  <2>1. UNCHANGED <<gate, adm, carries, live>> /\ (task' \in BeforeSend => task \in BeforeSend)
      BY <1>32 DEF HostTerminal, AlreadyEnded, Elsewhere, rowVars, BeforeSend
  <2>2. \A n \in Msg : status'[n] \in {"pending", "failed", "unsent"} => status'[n] = status[n]
      BY <1>types, <1>32 DEF HostTerminal, AlreadyEnded, Elsewhere, rowVars
  <2> QED
      BY <1>types, <1>mine, <2>1, <2>2, InTurnKept
<1>33. CASE SettleQueue
  <2>1. UNCHANGED <<gate, adm, carries, live>> /\ (task' \in BeforeSend => task \in BeforeSend)
      BY <1>33 DEF SettleQueue, Unacknowledged, turnVars, Elsewhere, BeforeSend
  <2>2. \A n \in Msg : status'[n] \in {"pending", "failed", "unsent"} => status'[n] = status[n]
      BY <1>types, <1>33 DEF SettleQueue, Unacknowledged, turnVars, Elsewhere
  <2> QED
      BY <1>types, <1>mine, <2>1, <2>2, InTurnKept
<1>34. CASE Release
  BY <1>types, <1>holds, <1>kinds, GateFields, <1>34 DEF Release, durable, rowVars, turnVars,
      Elsewhere, InTurn, NoneBefore, Submitted, Steering, Offered
<1>35. CASE DrainTimeout
  BY <1>types, <1>holds, <1>kinds, GateFields, <1>35 DEF DrainTimeout, DeliveryError, FailQueued,
      Restate, rowVars, Delivering, turnVars, InTurn, NoneBefore, Submitted, Steering, Offered
<1>36. CASE Fail
  <2>1. UNCHANGED <<gate, adm, carries, live>> /\ (task' \in BeforeSend => task \in BeforeSend)
      BY <1>36 DEF Fail, durable, rowVars, turnVars, BeforeSend
  <2>2. \A n \in Msg : status'[n] \in {"pending", "failed", "unsent"} => status'[n] = status[n]
      BY <1>types, <1>36 DEF Fail, durable, rowVars, turnVars
  <2> QED
      BY <1>types, <1>mine, <2>1, <2>2, InTurnKept
<1>37. CASE Restart
  BY <1>types, <1>holds, <1>kinds, GateFields, <1>37 DEF Restart, Recovered, Recoverable, FreeAdm,
      NoStop, FreeGate, InTurn, NoneBefore, Submitted, Steering, Offered
<1> QED
  BY <1>1, <1>2, <1>3, <1>4, <1>5, <1>6, <1>7, <1>8, <1>9, <1>10, <1>11, <1>12, <1>13, <1>14, <1>15,
      <1>16, <1>17, <1>18, <1>19, <1>20, <1>21, <1>22, <1>23, <1>24, <1>25, <1>26, <1>27, <1>28,
      <1>29, <1>30, <1>31, <1>32, <1>33, <1>34, <1>35, <1>36, <1>37, InTurnMove

\* The steps that hand a message to the provider.
LEMMA CopiesMove ==
    ASSUME [Next]_vars
    PROVE
        \/ UNCHANGED copies
        \/ Dispatch \/ Control
  BY DEF Next, UserStep, QueueLocks, QueueStep, AdmissionStep, TaskStep, StopLocks, StopStep,
      FollowUp, Enqueue, SetRow, turnVars, Steer, SendNow, durable, rowVars, Send, Remove, Withdraw,
      volatile, StopBegin, Stopping, Clear, ResumeCheck, Goal, Unarchive, Wake, SendAdmit,
      InvokeIdle, StartAdmit, FailQueued, Restate, Delivering, ResumeApply, ReadRefused,
      DeliveryError, ReadLive, Awaited, MarkSteer, Invoke, Conclude, Drained, Open, Abort, Claim,
      NotIdle, TaskInvoke, MarkSent, Elsewhere, NativeStart, Event, Acknowledge, Terminal, Reply,
      HostTerminal, SettleQueue, Release, StopLook, StopAdmit, StopRead, StopFlag, StopClose,
      StopArchive, DrainTimeout, Ask, Resolve, Fail, StopTimeout, Restart, vars

\* Messages are handed over in the order of their acceptance, none passing one
\* that still waits, unless the user puts one first (steer, sendNow):
\* send_configured_from, schedule_queue, resume_queue and goals against each other.
THEOREM FirstComeFirstServed ==
    Commands \intersect {"steer", "sendNow"} = {} => (Spec => FifoDispatch)
<1> SUFFICES ASSUME Commands \intersect {"steer", "sendNow"} = {}
             PROVE  Spec => FifoDispatch
  OBVIOUS
<1> DEFINE Kept == Inside /\ SendsFirst /\ FailedPauses /\ Submitted /\ InTurn
           Fifo == \A m, n \in Msg : n < m /\ copies'[m] > copies[m] => status[n] # "pending"
<1>1. Init => Kept
  BY InsideInit, SendsFirstInit, FailedPausesInit, SubmittedInit, InTurnInit
<1>2. TypeOK /\ Delivered /\ Kept /\ [Next]_vars => Kept'
  BY InsideStep, SendsFirstStep, FailedPausesStep, SubmittedStep, InTurnStep DEF Delivered
<1>3. TypeOK /\ Kept /\ [Next]_vars => [Fifo]_vars
  <2> SUFFICES ASSUME TypeOK, Kept, [Next]_vars, NEW m \in Msg, NEW n \in Msg,
                      n < m, copies'[m] > copies[m]
               PROVE  status[n] # "pending"
    OBVIOUS
  <2>1. copies[m] \in Nat /\ ~(copies[m] > copies[m])
    BY DEF TypeOK, RowsOK
  <2>2. CASE UNCHANGED copies
    BY <2>1, <2>2
  <2>3. CASE Dispatch
    <3>1. m = carries[live] /\ task \in BeforeSend
      BY <2>1, <2>3 DEF Dispatch, BeforeSend
    <3>2. live # 0 /\ carries[live] # 0
      BY <3>1, MessagePositive DEF TypeOK, LiveOK, BeforeSend
    <3> QED
      BY <3>1, <3>2 DEF InTurn, NoneBefore
  <2>4. CASE Control
    BY <2>4 DEF Control, InTurn, Steering
  <2> QED
    BY <2>2, <2>3, <2>4, CopiesMove
<1> QED
  BY <1>1, <1>2, <1>3, TypeCorrect, DeliveredAlways, PTL DEF Spec, FifoDispatch
=============================================================================
