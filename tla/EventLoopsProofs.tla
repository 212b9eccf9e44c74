-------------------------- MODULE EventLoopsProofs --------------------------
(***************************************************************************)
(* What AcpSessionProofs, CodexSessionProofs and SessionViewProofs prove of*)
(* the three programs, of MCEventLoops: a behaviour of the loops is one of *)
(* each of them, which stands still where it is not the one that was       *)
(* chosen.                                                                 *)
(*                                                                         *)
(* The proofs of a program are about an instance of it (CP, VP), and the   *)
(* loops have one of their own (Codex, View).  Every definition is the same*)
(* in both; the provers are told so one action at a time.                  *)
(***************************************************************************)
EXTENDS MCEventLoops, AcpSessionProofs

CP == INSTANCE CodexSessionProofs
VP == INSTANCE SessionViewProofs

----------------------------------------------------------------------------
(* The same definitions twice.                                             *)

\* The number of elements of a set.
LEMMA SameCardinality ==
    /\ \A S : View!Cardinality(S) = VP!Cardinality(S)
    /\ \A S : Codex!Cardinality(S) = CP!Cardinality(S)
  BY DEF View!Cardinality, VP!Cardinality, Codex!Cardinality, CP!Cardinality

\* The window's steps.
LEMMA SameView == View!Next => VP!Next
<1>. USE DEF View!Accepts, VP!Accepts, View!AskList, VP!AskList, View!Changed, VP!Changed,
      View!Commands, VP!Commands, View!Ended, VP!Ended, View!Finals, VP!Finals, View!Handle,
      VP!Handle, View!HandleEvent, VP!HandleEvent, View!NoList, VP!NoList, View!NoOp, VP!NoOp,
      View!Receipt, VP!Receipt, View!Reconcile, VP!Reconcile, View!Resolve, VP!Resolve,
      View!Running, VP!Running, View!Silent, VP!Silent, View!StartTurn, VP!StartTurn, View!StateOf,
      VP!StateOf, View!Tell, VP!Tell, View!Told, VP!Told, View!rowvars, VP!rowvars, View!viewvars,
      VP!viewvars
<1>m. View!MayAsk <=> VP!MayAsk
  BY SameCardinality DEF View!MayAsk, VP!MayAsk
<1>1. View!Dispatch => VP!Dispatch
  BY DEF View!Dispatch, VP!Dispatch
<1>2. View!Reopen => VP!Reopen
  BY DEF View!Reopen, VP!Reopen
<1>3. View!TurnStarted => VP!TurnStarted
  BY DEF View!TurnStarted, VP!TurnStarted
<1>4. View!Message => VP!Message
  BY DEF View!Message, VP!Message
<1>5. View!Asked => VP!Asked
  BY DEF View!Asked, VP!Asked
<1>6. View!Compacting => VP!Compacting
  BY DEF View!Compacting, VP!Compacting
<1>7. View!Compacted => VP!Compacted
  BY DEF View!Compacted, VP!Compacted
<1>8. View!Withdrawn => VP!Withdrawn
  BY DEF View!Withdrawn, VP!Withdrawn
<1>9. ASSUME NEW status \in Outcomes, View!EndTurn(status) PROVE VP!EndTurn(status)
  BY <1>9 DEF View!EndTurn, VP!EndTurn
<1>10. View!ListRead => VP!ListRead
  BY DEF View!ListRead, VP!ListRead
<1>11. View!AdmitSend => VP!AdmitSend
  BY DEF View!AdmitSend, VP!AdmitSend
<1>12. ASSUME NEW c \in {"send", "rename"}, View!ReadRow(c) PROVE VP!ReadRow(c)
  BY <1>12 DEF View!ReadRow, VP!ReadRow
<1>13. View!AcceptStop => VP!AcceptStop
  BY DEF View!AcceptStop, VP!AcceptStop
<1>14. View!AcceptAnswer => VP!AcceptAnswer
  BY DEF View!AcceptAnswer, VP!AcceptAnswer
<1>15. View!Arrives => VP!Arrives
  BY DEF View!Arrives, VP!Arrives
<1>16. ASSUME NEW i \in 1..Len(past), View!ArrivesAgain(i) PROVE VP!ArrivesAgain(i)
  BY <1>16 DEF View!ArrivesAgain, VP!ArrivesAgain
<1>17. View!Refresh => VP!Refresh
  BY DEF View!Refresh, VP!Refresh
<1>18. View!ListArrives => VP!ListArrives
  BY DEF View!ListArrives, VP!ListArrives
<1>19. View!Submit => VP!Submit
  BY <1>m DEF View!Submit, VP!Submit
<1>20. View!Send => VP!Send
  BY DEF View!Send, VP!Send
<1>21. ASSUME NEW c \in View!Commands \ {"send"}, View!Ask(c) PROVE VP!Ask(c)
  BY <1>m, <1>21 DEF View!Ask, VP!Ask
<1>22. View!SendArrives => VP!SendArrives
  BY DEF View!SendArrives, VP!SendArrives
<1>23. View!StopArrives => VP!StopArrives
  BY DEF View!StopArrives, VP!StopArrives
<1>24. View!RenameArrives => VP!RenameArrives
  BY DEF View!RenameArrives, VP!RenameArrives
<1>25. View!AnswerArrives => VP!AnswerArrives
  BY DEF View!AnswerArrives, VP!AnswerArrives
<1>26. ASSUME NEW c \in {"send", "stop", "answer"}, View!Finish(c) PROVE VP!Finish(c)
  BY <1>26 DEF View!Finish, VP!Finish
<1>. QED
  BY <1>1, <1>2, <1>3, <1>4, <1>5, <1>6, <1>7, <1>8, <1>9, <1>10, <1>11, <1>12, <1>13, <1>14, <1>15,
     <1>16, <1>17, <1>18, <1>19, <1>20, <1>21, <1>22, <1>23, <1>24, <1>25, <1>26
  DEF View!Next, VP!Next

\* The Codex worker's steps.
LEMMA SameCodex == Codex!Next => CP!Next
<1>. USE DEF Codex!Answer, CP!Answer, Codex!Await, CP!Await, Codex!ChildBusy, CP!ChildBusy,
      Codex!ContinueOrFinish, CP!ContinueOrFinish, Codex!Done, CP!Done, Codex!Due, CP!Due,
      Codex!EndInvocation, CP!EndInvocation, Codex!FinishTurn, CP!FinishTurn, Codex!GoalReleases,
      CP!GoalReleases, Codex!Interrupt, CP!Interrupt, Codex!Joined, CP!Joined, Codex!MayInvoke,
      CP!MayInvoke, Codex!NewTurn, CP!NewTurn, Codex!NoCall, CP!NoCall, Codex!NoControl,
      CP!NoControl, Codex!NoOwner, CP!NoOwner, Codex!Poll, CP!Poll, Codex!Quiet, CP!Quiet,
      Codex!Released, CP!Released, Codex!Said, CP!Said, Codex!SetGoal, CP!SetGoal, Codex!Stale,
      CP!Stale, Codex!Statuses, CP!Statuses, Codex!Tasks, CP!Tasks, Codex!Told, CP!Told, Codex!Turn,
      CP!Turn, Codex!Unfinished, CP!Unfinished, Codex!engine, CP!engine, Codex!native, CP!native,
      Codex!record, CP!record
<1>m. Codex!MayControl <=> CP!MayControl
  BY SameCardinality DEF Codex!MayControl, CP!MayControl
<1>1. Codex!SendAnswered => CP!SendAnswered
  BY DEF Codex!SendAnswered, CP!SendAnswered
<1>2. Codex!GoalRead => CP!GoalRead
  BY DEF Codex!GoalRead, CP!GoalRead
<1>3. Codex!GoalActivated => CP!GoalActivated
  BY DEF Codex!GoalActivated, CP!GoalActivated
<1>4. Codex!GoalNotResumed => CP!GoalNotResumed
  BY DEF Codex!GoalNotResumed, CP!GoalNotResumed
<1>5. Codex!ChildrenInterrupted => CP!ChildrenInterrupted
  BY DEF Codex!ChildrenInterrupted, CP!ChildrenInterrupted
<1>6. Codex!PauseJoins => CP!PauseJoins
  BY DEF Codex!PauseJoins, CP!PauseJoins
<1>7. Codex!PausePersisted => CP!PausePersisted
  BY DEF Codex!PausePersisted, CP!PausePersisted
<1>8. Codex!InterruptAnswered => CP!InterruptAnswered
  BY DEF Codex!InterruptAnswered, CP!InterruptAnswered
<1>9. Codex!PauseFails => CP!PauseFails
  BY DEF Codex!PauseFails, CP!PauseFails
<1>10. Codex!RunFinished => CP!RunFinished
  BY DEF Codex!RunFinished, CP!RunFinished
<1>11. Codex!WaitFails => CP!WaitFails
  BY DEF Codex!WaitFails, CP!WaitFails
<1>12. Codex!Settle => CP!Settle
  BY DEF Codex!Settle, CP!Settle
<1>13. Codex!InvocationEnds => CP!InvocationEnds
  BY DEF Codex!InvocationEnds, CP!InvocationEnds
<1>14. Codex!Cancel => CP!Cancel
  BY <1>m DEF Codex!Cancel, CP!Cancel
<1>15. Codex!Pause => CP!Pause
  BY <1>m DEF Codex!Pause, CP!Pause
<1>16. ASSUME NEW t \in Codex!Turn, Codex!Busy(t) PROVE CP!Busy(t)
  BY <1>16 DEF Codex!Busy, CP!Busy
<1>17. ASSUME NEW t \in Codex!Turn, Codex!Send(t) PROVE CP!Send(t)
  BY <1>17 DEF Codex!Send, CP!Send
<1>18. ASSUME NEW t \in Codex!Turn, Codex!ResumeGoal(t) PROVE CP!ResumeGoal(t)
  BY <1>18 DEF Codex!ResumeGoal, CP!ResumeGoal
<1>19. Codex!WaitExpires => CP!WaitExpires
  BY DEF Codex!WaitExpires, CP!WaitExpires
<1>20. Codex!AnswerSet("timer") => CP!AnswerSet("timer")
  BY DEF Codex!AnswerSet, CP!AnswerSet
<1>21. Codex!PollFires => CP!PollFires
  BY DEF Codex!PollFires, CP!PollFires
<1>22. ASSUME NEW ok \in BOOLEAN, Codex!ReadAnswered(ok) PROVE CP!ReadAnswered(ok)
  BY <1>22 DEF Codex!ReadAnswered, CP!ReadAnswered
<1>23. Codex!TakeStart => CP!TakeStart
  BY DEF Codex!TakeStart, CP!TakeStart
<1>24. Codex!AnswerStart => CP!AnswerStart
  BY DEF Codex!AnswerStart, CP!AnswerStart
<1>25. Codex!Announce => CP!Announce
  BY DEF Codex!Announce, CP!Announce
<1>26. Codex!ContinueGoal => CP!ContinueGoal
  BY DEF Codex!ContinueGoal, CP!ContinueGoal
<1>27. ASSUME NEW value \in {"none", "paused"}, Codex!GoalEnds(value) PROVE CP!GoalEnds(value)
  BY <1>27 DEF Codex!GoalEnds, CP!GoalEnds
<1>28. Codex!TellGoal => CP!TellGoal
  BY DEF Codex!TellGoal, CP!TellGoal
<1>29. ASSUME NEW status \in Codex!Statuses, Codex!RunEnds(status) PROVE CP!RunEnds(status)
  BY <1>29 DEF Codex!RunEnds, CP!RunEnds
<1>30. ASSUME NEW k \in {"goal", "finish"}, NEW ok \in BOOLEAN, Codex!AnswerGet(k, ok) PROVE CP!AnswerGet(k, ok)
  BY <1>30 DEF Codex!AnswerGet, CP!AnswerGet
<1>31. ASSUME NEW k \in {"goal", "control"}, Codex!AnswerSet(k) PROVE CP!AnswerSet(k)
  BY <1>31 DEF Codex!AnswerSet, CP!AnswerSet
<1>32. Codex!AnswerInterrupt => CP!AnswerInterrupt
  BY DEF Codex!AnswerInterrupt, CP!AnswerInterrupt
<1>33. Codex!AnswerChildren => CP!AnswerChildren
  BY DEF Codex!AnswerChildren, CP!AnswerChildren
<1>34. Codex!Spawn => CP!Spawn
  BY DEF Codex!Spawn, CP!Spawn
<1>35. ASSUME NEW told \in BOOLEAN, Codex!ChildEnds(told) PROVE CP!ChildEnds(told)
  BY <1>35 DEF Codex!ChildEnds, CP!ChildEnds
<1>36. Codex!Exit => CP!Exit
  BY DEF Codex!Exit, CP!Exit
<1>. QED
  BY <1>1, <1>2, <1>3, <1>4, <1>5, <1>6, <1>7, <1>8, <1>9, <1>10, <1>11, <1>12, <1>13, <1>14, <1>15,
     <1>16, <1>17, <1>18, <1>19, <1>20, <1>21, <1>22, <1>23, <1>24, <1>25, <1>26, <1>27, <1>28,
     <1>29, <1>30, <1>31, <1>32, <1>33, <1>34, <1>35, <1>36
  DEF Codex!Next, CP!Next, Codex!Continue, CP!Continue, Codex!Host, CP!Host, Codex!ReadEnds,
      CP!ReadEnds, Codex!WaitLimit, CP!WaitLimit, Codex!Native, CP!Native

----------------------------------------------------------------------------
(* A behaviour of the loops is one of each program.                        *)

LEMMA LoopsAcp == Loops => Spec
<1>1. LoopsInit => Init
  BY DEF LoopsInit
<1>2. [LoopsNext]_<<loop, vars, codexvars, viewvars>> => [Next]_vars
  BY DEF LoopsNext
<1>. QED
  BY <1>1, <1>2, PTL DEF Loops, Spec

LEMMA LoopsCodex == Loops => CP!Spec
<1>1. LoopsInit => CP!Init
  BY DEF LoopsInit, Codex!Init, CP!Init, Codex!NewTurn, CP!NewTurn, Codex!NoCall, CP!NoCall, Codex!Tasks,
         CP!Tasks, Codex!NoOwner, CP!NoOwner, Codex!NoControl, CP!NoControl, Codex!Turn, CP!Turn,
         Codex!Goals, CP!Goals
<1>2. UNCHANGED codexvars => UNCHANGED CP!vars
  BY DEF codexvars, CP!vars, CP!engine, CP!native, CP!record
<1>3. [LoopsNext]_<<loop, vars, codexvars, viewvars>> => [CP!Next]_CP!vars
  BY <1>2, SameCodex DEF LoopsNext
<1>. QED
  BY <1>1, <1>3, PTL DEF Loops, CP!Spec

LEMMA LoopsView == Loops => VP!Spec
<1>1. LoopsInit => VP!Init
  BY DEF LoopsInit, View!Init, VP!Init, View!NoList, VP!NoList, View!NoOp, VP!NoOp, View!Commands,
         VP!Commands
<1>2. UNCHANGED viewvars => UNCHANGED VP!vars
  BY DEF viewvars, VP!vars, VP!rowvars, VP!viewvars
<1>3. [LoopsNext]_<<loop, vars, codexvars, viewvars>> => [VP!Next]_VP!vars
  BY <1>2, SameView DEF LoopsNext
<1>. QED
  BY <1>1, <1>3, PTL DEF Loops, VP!Spec

\* What the loops assume is what the proofs do.
LEMMA Assumed == CP!CodexAssumption /\ VP!ViewAssumption
  BY CodexAssumed, ViewAssumed
  DEF Codex!CodexAssumption, CP!CodexAssumption, View!ViewAssumption, VP!ViewAssumption, View!Finals,
      VP!Finals

----------------------------------------------------------------------------
(* The theorems.                                                           *)

\* Each program's state is always of its type, whichever of them runs.
THEOREM AllTyped == Loops => []Types
<1>1. Loops => []TypeOK
  BY LoopsAcp, TypeCorrect, PTL
<1>2. Loops => []CP!TypeOK
  <2>1. CP!Spec => []CP!TypeOK
    BY Assumed, CP!TypeCorrect
  <2>. QED
    BY <2>1, LoopsCodex, PTL
<1>3. Loops => []VP!TypeOK
  <2>1. VP!Spec => []VP!TypeOK
    BY Assumed, VP!TypeCorrect
  <2>. QED
    BY <2>1, LoopsView, PTL
<1>4. CP!TypeOK => Codex!TypeOK
  BY DEF Codex!TypeOK, CP!TypeOK, Codex!Turn, CP!Turn, Codex!Run, CP!Run, Codex!Goals, CP!Goals,
         Codex!Statuses, CP!Statuses, Codex!Tasks, CP!Tasks
<1>5. VP!TypeOK => View!TypeOK
  <2>1. VP!Event = View!Event
    BY DEF View!Event, VP!Event, View!Kinds, VP!Kinds, View!Finals, VP!Finals
  <2>. QED
    BY <2>1
    DEF View!TypeOK, VP!TypeOK, View!HostTypes, VP!HostTypes, View!EventTypes, VP!EventTypes,
        View!WindowTypes, VP!WindowTypes, View!States, VP!States, View!Ended, VP!Ended, View!Commands,
        VP!Commands
<1>6. TypeOK /\ CP!TypeOK /\ VP!TypeOK => Types
  BY <1>4, <1>5 DEF Types
<1>. QED
  BY <1>1, <1>2, <1>3, <1>6, PTL

\* A Codex turn is reported once at most and answered as done only after that
\* (completeProjectedTurn, perform), for any number of turns, runs, stops and failed reads.
THEOREM CodexTurnsAnswered == Loops => []TurnAnswered
<1>1. CP!Spec => []CP!TurnAnswered
  BY Assumed, CP!AnsweredOnce
<1>2. CP!TurnAnswered => TurnAnswered
  BY DEF TurnAnswered, Codex!TurnAnswered, CP!TurnAnswered, Codex!Turn, CP!Turn, Codex!Statuses, CP!Statuses
<1>. QED
  BY <1>1, <1>2, LoopsCodex, PTL

\* No native run of Codex goes on for a turn that is over, unless it or one before it was
\* stopped (finishNativeTurn, waitForGoalTurn), for any number of turns, runs and stops.
THEOREM CodexRunsFollowed == Loops => []RunsTracked
<1>1. CP!Spec => []CP!RunsTracked
  BY Assumed, CP!RunsFollowed
<1>2. CP!RunsTracked => RunsTracked
  BY DEF RunsTracked, Codex!RunsTracked, CP!RunsTracked, Codex!Unsettled, CP!Unsettled
<1>. QED
  BY <1>1, <1>2, LoopsCodex, PTL

\* A Codex turn is completed only when its runs, its children and its goal are through, and
\* interrupted only once it or one before it was stopped (finishTurn, scheduleSubagents).
THEOREM CodexReportsHonest == Loops => StatusHonest
<1>1. CP!Spec => CP!StatusHonest
  BY Assumed, CP!HonestReports
<1> DEFINE HonestHere == \A t \in Codex!Turn : reported'[t] # reported[t] =>
                           /\ reported'[t] = "completed" =>
                                \/ Codex!Unsettled(t, stopped')
                                \/ run = 0 /\ child' # "active" /\ ~reading' /\ goal' # "active"
                           /\ reported'[t] = "interrupted" => Codex!Unsettled(t, stopped')
           HonestThere == \A t \in CP!Turn : reported'[t] # reported[t] =>
                           /\ reported'[t] = "completed" =>
                                \/ CP!Unsettled(t, stopped')
                                \/ run = 0 /\ child' # "active" /\ ~reading' /\ goal' # "active"
                           /\ reported'[t] = "interrupted" => CP!Unsettled(t, stopped')
<1>2. [HonestThere]_CP!vars => [HonestHere]_Codex!vars
  BY DEF Codex!Unsettled, CP!Unsettled, Codex!Turn, CP!Turn, Codex!vars, CP!vars, Codex!engine, CP!engine,
         Codex!native, CP!native, Codex!record, CP!record
<1>. QED
  BY <1>1, <1>2, LoopsCodex, PTL DEF StatusHonest, Codex!StatusHonest, CP!StatusHonest

\* A window that has heard of everything shows a session running exactly if it is, unless a
\* receipt came too late, however many turns, events and commands there are.
THEOREM WindowConverges == Loops => []Converged
<1>1. VP!Spec => []VP!Converged
  BY Assumed, VP!Converges
<1>2. VP!Converged => Converged
  BY DEF Converged, View!Converged, VP!Converged, View!Settled, VP!Settled, View!Running, VP!Running,
         View!Ended, VP!Ended, View!Commands, VP!Commands, View!NoOp, VP!NoOp
<1>. QED
  BY <1>1, <1>2, LoopsView, PTL

\* Its cards are then those of the requests that wait, and what it shows at work is.
THEOREM WindowCardsMatch == Loops => []CardsMatch
<1>1. VP!Spec => []VP!CardsMatch
  BY Assumed, VP!CardsAgree
<1>2. VP!CardsMatch => CardsMatch
  BY DEF CardsMatch, View!CardsMatch, VP!CardsMatch, View!Settled, VP!Settled, View!Running, VP!Running,
         View!Ended, VP!Ended, View!Commands, VP!Commands, View!NoOp, VP!NoOp
<1>. QED
  BY <1>1, <1>2, LoopsView, PTL

\* A turn whose end the window was told never runs again for it, but by the receipt of a
\* rename.
THEOREM WindowEndsStay == Loops => EndStays
<1>1. VP!Spec => VP!EndStays
  BY Assumed, VP!EndsRemain
<1>2. [~VP!Running(shown) /\ VP!Running(shown') =>
         turns > ended \/ (op["rename"].at = "done" /\ op'["rename"] = VP!NoOp)]_VP!vars
      => [~View!Running(shown) /\ View!Running(shown') =>
           turns > ended \/ (op["rename"].at = "done" /\ op'["rename"] = View!NoOp)]_View!vars
  BY DEF View!Running, VP!Running, View!Ended, VP!Ended, View!NoOp, VP!NoOp, View!vars, VP!vars,
         View!rowvars, VP!rowvars, View!viewvars, VP!viewvars
<1>. QED
  BY <1>1, <1>2, LoopsView, PTL DEF EndStays, View!EndStays, VP!EndStays
=============================================================================
