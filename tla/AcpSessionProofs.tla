-------------------------- MODULE AcpSessionProofs --------------------------
(***************************************************************************)
(* Proofs about AcpSession, for any number of turns, requests and modes:   *)
(*   - the type invariant (TypeCorrect);                                   *)
(*   - each announced turn is reported once (Reported);                    *)
(*   - a turn's authority to write is never exceeded unseen (Authorised);  *)
(* and, unless a prompt's own time limit ends within a cancel's grace,     *)
(*   - the agent works on one prompt at a time, and a process that goes on *)
(*     unseen only on one that is reported as failed (OneAtATime);         *)
(*   - its requests are answered once and never forgotten (Answered).      *)
(* Turns, Authority, Working, Unread and Asked are what they rest on.      *)
(***************************************************************************)
EXTENDS AcpSession, TLAPS

\* 0, "no turn", is not the number of a turn.
LEMMA TurnPositive == 0 \notin Turn
  BY DEF Turn

----------------------------------------------------------------------------
(* Types.                                                                  *)

\* TypeOK with its functions and records by name, so that a step need not look into those
\* it leaves alone.  The last conjunct is what a mode report
\* and a restored mode rely on.
PendingMaps == [Requests -> Entries]
RequestMaps == [Requests -> {"unasked", "asked", "late", "answered", "dropped", "twice"}]
EndMaps     == [Turn -> Statuses \union {"none", "twice"}]
Plans       == [turn : Turn \union {0}, write : BOOLEAN]

Scalars ==
    /\ phase \in Phases /\ modeId \in Modes \union {NoMode}
    /\ nativeMode \in Modes \union {NoMode} /\ expected \in Modes \union {NoMode}
    /\ violated \in BOOLEAN /\ turnId \in Turn \union {0}
    /\ grace \in BOOLEAN
    /\ job \in {"none", "open", "turn", "configure", "close"}
    /\ at \in {"none", "prompt"} \union Calls \union Closing
    /\ answer \in {"none", "waiting", "ok", "error", "timeout", "closed"} \union Stops
    /\ wire \in {"none", "open", "closing", "closed"}
    /\ prompts \subseteq Turn /\ orphans \subseteq Turn
    /\ started \subseteq Turn /\ strayed \subseteq Turn /\ cancelled \subseteq Turn
    /\ consent \subseteq Modes
    /\ (phase = "prompting" => turnId # 0) /\ (at = "restore" => plan.turn # 0)

Typed ==
    /\ Scalars
    /\ pending \in PendingMaps /\ request \in RequestMaps /\ ends \in EndMaps /\ plan \in Plans

LEMMA TypedIsTypeOK == Typed => TypeOK
  BY DEF Typed, Scalars, PendingMaps, RequestMaps, EndMaps, Plans, TypeOK

\* What the handlers write into the functions and the record.
LEMMA Writes ==
    ASSUME Typed
    PROVE  /\ NonePending \in PendingMaps /\ NoPlan \in Plans
           /\ Forgotten \in RequestMaps
           /\ \A S : Reply(S) => request' \in RequestMaps
           /\ \A t : \A status \in Statuses : Report(t, status) => ends' \in EndMaps
           /\ Status \in Statuses
           /\ \A t \in Turn, write \in BOOLEAN : [turn |-> t, write |-> write] \in Plans
<1>1. NonePending \in PendingMaps /\ NoPlan \in Plans /\ Status \in Statuses
    BY DEF NonePending, PendingMaps, Entries, NoPlan, Plans, Status, Statuses
<1>2. Forgotten \in RequestMaps /\ \A S : Reply(S) => request' \in RequestMaps
    BY DEF Typed, Forgotten, Reply, RequestMaps
<1>3. ASSUME NEW t, NEW status \in Statuses, Report(t, status)
      PROVE  ends' \in EndMaps
    BY <1>3 DEF Typed, Report, EndMaps
<1>4. \A t \in Turn, write \in BOOLEAN : [turn |-> t, write |-> write] \in Plans
    BY DEF Plans
<1> QED
    BY <1>1, <1>2, <1>3, <1>4

LEMMA TypeInit == Init => Typed
<1>1. NonePending \in PendingMaps /\ NoPlan \in Plans
    BY DEF NonePending, PendingMaps, Entries, NoPlan, Plans
<1>2. [r \in Requests |-> "unasked"] \in RequestMaps
    BY DEF RequestMaps
<1>3. [t \in Turn |-> "none"] \in EndMaps
    BY DEF EndMaps
<1> QED
    BY <1>1, <1>2, <1>3 DEF Init, Typed, Scalars, Phases

LEMMA TypeStep == Typed /\ [Next]_vars => Typed'
<1> SUFFICES ASSUME Typed, [Next]_vars
             PROVE  Typed'
  OBVIOUS
<1>a. /\ NonePending \in PendingMaps /\ NoPlan \in Plans
      /\ Forgotten \in RequestMaps
      /\ \A S : Reply(S) => request' \in RequestMaps
      /\ \A t : \A status \in Statuses : Report(t, status) => ends' \in EndMaps
      /\ Status \in Statuses
      /\ \A t \in Turn, write \in BOOLEAN : [turn |-> t, write |-> write] \in Plans
  BY Writes
<1>b. ASSUME NEW place \in Closing, NEW invocation \in {"open", "close"},
             CloseSession(place, invocation)
      PROVE  Typed'
  BY <1>a, <1>b DEF Typed, Scalars, CloseSession, EndJob, host, Phases, Closing
<1>c. ASSUME NEW t \in Turn, NEW write \in BOOLEAN, BeginTurn(t, write),
             nativeMode' \in Modes \union {NoMode},
             UNCHANGED <<modeId, pending, grace, wire, orphans, request, ends>>
      PROVE  Typed'
  BY <1>a, <1>c, TurnPositive
  DEF Typed, Scalars, BeginTurn, CallAgent, EndJob, Phases
<1>d. ASSUME Finally, UNCHANGED <<modeId, nativeMode, violated, agent, started, strayed, cancelled>>,
             ends' \in EndMaps
      PROVE  Typed'
  BY <1>a, <1>d DEF Typed, Scalars, Finally, EndJob, agent, Phases
<1>1. ASSUME NEW call \in Opening \union {"done"}, ContinueOpen(call)
      PROVE  Typed'
  BY <1>a, <1>1
  DEF ContinueOpen, CallAgent, EndJob, Typed, Scalars, agent, host, Opening, Calls, Phases
<1>2. CASE FailOpen
  BY <1>2, <1>b DEF FailOpen, Closing
<1>3. CASE ModeRestored
  <2>1. plan.turn \in Turn \union {0} /\ plan.write \in BOOLEAN
    BY DEF Typed, Plans
  <2> QED
    BY <1>3, <1>c, <2>1 DEF ModeRestored, Typed, Scalars
<1>4. CASE ModeNotRestored
  BY <1>4, <1>a DEF ModeNotRestored, EndJob, Typed, Scalars, session, agent, host
<1>5. CASE PromptAnswered
  BY <1>5, <1>a, <1>d DEF PromptAnswered
<1>6. CASE PromptRejected
  <2>1. ends' \in EndMaps
    BY <1>6, <1>a DEF PromptRejected, Statuses
  <2>2. CASE Finally
    BY <1>6, <1>d, <2>1, <2>2 DEF PromptRejected
  <2>3. CASE ~Finally
    BY <1>6, <2>1, <2>3 DEF PromptRejected, agent, Typed, Scalars, Closing
  <2> QED
    BY <2>2, <2>3
<1>7. CASE FailedTurnClosed
  BY <1>7, <1>d DEF FailedTurnClosed, host, Typed
<1>8. CASE ConfigureEnds
  BY <1>8, <1>a DEF ConfigureEnds, EndJob, Typed, Scalars, agent, host, Phases
<1>9. CASE SessionClosed
  BY <1>9, <1>a DEF SessionClosed, EndJob, Typed, Scalars, session, agent, host
<1>10. ASSUME NEW a \in {"ok", "error"}, AnswerCall(a)
       PROVE  Typed'
  BY <1>10 DEF AnswerCall, Typed, Scalars, session, agent, host
<1>11. ASSUME NEW t \in Turn, NEW a \in Stops \union {"error"}, EndPrompt(t, a)
       PROVE  Typed'
  BY <1>11, <1>a DEF EndPrompt, Typed, Scalars, session, host
<1>12. ASSUME NEW mode \in Modes, ReportMode(mode)
       PROVE  Typed'
  <2>1. /\ UNCHANGED <<turnId, job, at, plan, wire, prompts, orphans, started, ends, cancelled,
                        consent, answer>>
        /\ nativeMode' = mode /\ modeId' \in {modeId, mode} /\ expected' \in {expected, NoMode}
        /\ violated' \in BOOLEAN /\ grace' \in BOOLEAN
    BY <1>12 DEF ReportMode, CancelPrompt, Typed, Scalars
  <2>2. /\ request' \in RequestMaps /\ pending' \in PendingMaps
        /\ phase' \in {phase, "cancelling"}
        /\ strayed' = strayed \/ (turnId # 0 /\ strayed' = strayed \union {turnId})
    BY <1>12, <1>a DEF ReportMode, CancelPrompt, Typed
  <2> QED
    BY <2>1, <2>2 DEF Typed, Scalars, Phases
<1>13. ASSUME NEW r \in Requests, NEW kind \in Kinds, Ask(r, kind)
       PROVE  Typed'
  <2>1. pending' \in PendingMaps /\ request' \in RequestMaps
    BY <1>13 DEF Ask, Kinds, Entries, Typed, PendingMaps, RequestMaps
  <2> QED
    BY <1>13, <2>1 DEF Ask, host, Typed, Scalars
<1>14. CASE WireFails \/ StreamFails \/ AgentExits
  <2>1. Finish /\ orphans' \subseteq Turn
    BY <1>14 DEF WireFails, StreamFails, AgentExits, Abandon, Typed, Scalars
  <2> QED
    BY <1>a, <2>1 DEF Finish, Typed, Scalars, host, Phases
<1>15. ASSUME NEW mode \in Modes, Open(mode)
       PROVE  Typed'
  BY <1>15, <1>a DEF Open, Typed, Scalars, agent, host, Phases, Calls, Opening
<1>16. ASSUME NEW t \in Turn, NEW write \in BOOLEAN, Prompt(t, write)
       PROVE  Typed'
  <2>1. CASE nativeMode = modeId
    BY <1>16, <1>c, <2>1 DEF Prompt, Typed, Scalars
  <2>2. CASE nativeMode # modeId
    BY <1>16, <1>a, <2>2, TurnPositive DEF Prompt, CallAgent, Typed, Scalars, Calls
  <2> QED
    BY <2>1, <2>2
<1>17. CASE Cancel
  <2>1. /\ UNCHANGED <<modeId, nativeMode, expected, violated, turnId, job, at,
                        answer, plan, wire, prompts, orphans, started, ends, strayed, consent>>
        /\ cancelled' = cancelled \union {turnId} /\ turnId # 0
        /\ phase' = "cancelling" /\ grace' \in BOOLEAN
        /\ request' \in RequestMaps /\ pending' \in PendingMaps
    BY <1>17, <1>a DEF Cancel, CancelPrompt, Typed, Scalars
  <2> QED
    BY <2>1 DEF Typed, Scalars, Phases
<1>18. ASSUME NEW r \in Requests, NEW switch \in BOOLEAN, Respond(r, switch)
       PROVE  Typed'
  <2>1. pending' \in PendingMaps /\ request' \in RequestMaps
    BY <1>18, <1>a DEF Respond, Entries, Typed, PendingMaps
  <2> QED
    BY <1>18, <2>1 DEF Respond, Typed, Scalars
<1>19. CASE Configure
  BY <1>19 DEF Configure, CallAgent, Typed, Scalars, agent, host, Phases, Calls
<1>20. CASE Close
  BY <1>20, <1>b DEF Close, Closing
<1>21. CASE GraceExpires
  <2>1. /\ UNCHANGED <<phase, modeId, nativeMode, expected, violated, turnId, pending,
                        job, at, answer, plan, agent, host>>
        /\ grace' \in BOOLEAN /\ wire' \in {wire, "closing"}
    BY <1>21 DEF GraceExpires
  <2> QED
    BY <2>1 DEF Typed, Scalars, agent, host
<1>22. CASE KillAgent
  BY <1>22, <1>a DEF KillAgent, Typed, Scalars, session, host
<1>23. CASE CallTimesOut
  BY <1>23 DEF CallTimesOut, Typed, Scalars, session, agent, host
<1>24. CASE \E t \in Turn : OrphanEnds(t)
  BY <1>24 DEF OrphanEnds, Typed, Scalars, session, host
<1>25. CASE UNCHANGED vars
  BY <1>25 DEF vars, session, agent, host, Typed, Scalars
<1> QED
  BY <1>1, <1>2, <1>3, <1>4, <1>5, <1>6, <1>7, <1>8, <1>9, <1>10, <1>11, <1>12, <1>13, <1>14,
     <1>15, <1>16, <1>17, <1>18, <1>19, <1>20, <1>21, <1>22, <1>23, <1>24, <1>25
  DEF Next, Continue, Agent, Host, Timers

\* Every state the worker reaches is of its type.
THEOREM TypeCorrect == Spec => []TypeOK
<1> QED
  BY TypeInit, TypeStep, TypedIsTypeOK, PTL DEF Spec

----------------------------------------------------------------------------
(* Turns are reported once.                                                *)

\* Where the worker stands says what the host knows of the current turn: there is one
\* while its prompt is awaited or its agent is ended, and it is reported between the two.
Turns ==
    /\ job = "none" => at = "none"
    /\ turnId # 0 <=> at \in {"prompt", "promptClose"}
    /\ turnId # 0 => turnId \in started
    /\ at = "restore" => plan.turn \in Turn \ started
    /\ at = "prompt" => ends[turnId] = "none"
    /\ at = "promptClose" => ends[turnId] \in Statuses
    /\ EveryTurnReported

LEMMA TurnsInit == Init => Turns
  BY DEF Init, Turns, EveryTurnReported

LEMMA TurnsStep == Typed /\ Turns /\ [Next]_vars => Turns'
<1> SUFFICES ASSUME Typed, Turns, [Next]_vars
             PROVE  Turns'
  OBVIOUS
<1>a. CASE UNCHANGED <<job, at, plan, turnId, started, ends>>
  BY <1>a DEF Turns, EveryTurnReported
<1>b. ASSUME at \notin {"prompt", "promptClose"}, at' \notin {"restore", "prompt", "promptClose"},
             job' = "none" => at' = "none",
             UNCHANGED <<turnId, started, ends>>
      PROVE  Turns'
  BY <1>b DEF Turns, EveryTurnReported
<1>c. ASSUME NEW t \in Turn \ started, NEW write \in BOOLEAN, BeginTurn(t, write),
             at \notin {"prompt", "promptClose"}, UNCHANGED ends
      PROVE  Turns'
  <2>1. turnId = 0 /\ ends[t] = "none"
    BY <1>c DEF Turns, EveryTurnReported
  <2>2. CASE write # (modeId \in Writable)
    BY <1>b, <1>c, <2>2 DEF BeginTurn, EndJob
  <2>3. CASE ~(write # (modeId \in Writable))
    BY <1>c, <2>1, <2>3, TurnPositive DEF BeginTurn, CallAgent, Turns, EveryTurnReported
  <2> QED
    BY <2>2, <2>3
<1>d. ASSUME at = "promptClose", Finally, UNCHANGED <<started, ends>>
      PROVE  Turns'
  BY <1>d, TurnPositive DEF Finally, EndJob, Turns, EveryTurnReported
<1>e. ASSUME NEW status \in Statuses, at = "prompt", Report(turnId, status), UNCHANGED started
      PROVE  /\ turnId \in Turn /\ ends' = [ends EXCEPT ![turnId] = status]
             /\ Finally => Turns'
  <2>1. turnId \in Turn /\ ends \in EndMaps
    BY <1>e DEF Typed, Scalars, Turns
  <2>2. ends' = [ends EXCEPT ![turnId] = status]
    BY <1>e, <2>1 DEF Report, Turns, EndMaps
  <2>3. ASSUME Finally PROVE Turns'
    BY <1>e, <2>1, <2>2, <2>3, TurnPositive DEF Finally, EndJob, Turns, EveryTurnReported, EndMaps, Statuses
  <2> QED
    BY <2>1, <2>2, <2>3
<1>1. ASSUME NEW call \in Opening \union {"done"}, ContinueOpen(call)
      PROVE  Turns'
  BY <1>1, <1>b DEF ContinueOpen, CallAgent, EndJob, host, Opening, Turns
<1>2. CASE FailOpen
  BY <1>2, <1>b DEF FailOpen, CloseSession, EndJob, host, Opening
<1>3. CASE ModeRestored
  <2>1. plan.turn \in Turn \ started /\ plan.write \in BOOLEAN
    BY <1>3 DEF ModeRestored, Turns, Typed, Plans
  <2> QED
    BY <1>3, <1>c, <2>1 DEF ModeRestored
<1>4. CASE ModeNotRestored
  BY <1>4, <1>b DEF ModeNotRestored, EndJob, session, host
<1>5. CASE PromptAnswered
  BY <1>5, <1>e, Writes DEF PromptAnswered
<1>6. CASE PromptRejected
  <2>1. PICK status \in Statuses : Report(turnId, status)
    BY <1>6 DEF PromptRejected, Statuses
  <2>2. at = "prompt" /\ UNCHANGED started
    BY <1>6 DEF PromptRejected
  <2>3. CASE Finally
    BY <1>e, <2>1, <2>2, <2>3
  <2>4. CASE ~Finally
    <3>1. turnId \in Turn /\ ends' = [ends EXCEPT ![turnId] = status] /\ ends \in EndMaps
      BY <1>e, <2>1, <2>2 DEF Typed
    <3>2. at' = "promptClose" /\ UNCHANGED <<turnId, job>>
      BY <1>6, <2>4 DEF PromptRejected
    <3> QED
      BY <2>2, <3>1, <3>2 DEF Turns, EveryTurnReported, EndMaps, Statuses
  <2> QED
    BY <2>3, <2>4
<1>7. CASE FailedTurnClosed
  BY <1>7, <1>d DEF FailedTurnClosed, host
<1>8. CASE ConfigureEnds
  BY <1>8, <1>b DEF ConfigureEnds, EndJob, host
<1>9. CASE SessionClosed
  BY <1>9, <1>b DEF SessionClosed, EndJob, session, host
<1>10. CASE \/ \E a \in {"ok", "error"} : AnswerCall(a)
            \/ \E t \in Turn, a \in Stops \union {"error"} : EndPrompt(t, a)
            \/ WireFails \/ StreamFails \/ AgentExits
            \/ \E t \in Turn : OrphanEnds(t)
  BY <1>10, <1>a
  DEF AnswerCall, EndPrompt, WireFails, StreamFails, AgentExits, OrphanEnds, Finish, session, host
<1>11. CASE \/ \E mode \in Modes : ReportMode(mode)
            \/ \E r \in Requests, kind \in Kinds : Ask(r, kind)
  BY <1>11, <1>a DEF ReportMode, Ask, host
<1>12. ASSUME NEW mode \in Modes, Open(mode)
       PROVE  Turns'
  BY <1>12, <1>b DEF Open, host, Turns
<1>13. ASSUME NEW t \in Turn, NEW write \in BOOLEAN, Prompt(t, write)
       PROVE  Turns'
  <2>1. CASE nativeMode = modeId
    BY <1>13, <1>c, <2>1 DEF Prompt, Turns
  <2>2. CASE nativeMode # modeId
    BY <1>13, <2>2 DEF Prompt, CallAgent, Turns, EveryTurnReported
  <2> QED
    BY <2>1, <2>2
<1>14. CASE Cancel \/ \E r \in Requests, switch \in BOOLEAN : Respond(r, switch)
  BY <1>14, <1>a DEF Cancel, Respond, host
<1>15. CASE Configure
  BY <1>15, <1>b DEF Configure, CallAgent, host, Turns
<1>16. CASE Close
  BY <1>16, <1>b DEF Close, CloseSession, EndJob, host, Turns
<1>17. CASE GraceExpires \/ KillAgent \/ CallTimesOut \/ UNCHANGED vars
  BY <1>17, <1>a DEF GraceExpires, KillAgent, CallTimesOut, vars, session, host
<1> QED
  BY <1>1, <1>2, <1>3, <1>4, <1>5, <1>6, <1>7, <1>8, <1>9, <1>10, <1>11, <1>12, <1>13, <1>14,
     <1>15, <1>16, <1>17
  DEF Next, Continue, Agent, Host, Timers

\* Whatever becomes of the agent, its wire or a cancel, the host is told of each turn's end
\* once, and before the next begins.
THEOREM Reported == Spec => []EveryTurnReported
<1>1. Init => Typed /\ Turns
  BY TypeInit, TurnsInit
<1>2. Typed /\ Turns /\ [Next]_vars => Typed' /\ Turns'
  BY TypeStep, TurnsStep
<1>3. Turns => EveryTurnReported
  BY DEF Turns
<1> QED
  BY <1>1, <1>2, <1>3, PTL DEF Spec

----------------------------------------------------------------------------
(* No turn writes unseen without authority.                                *)

\* A turn in which the agent strayed knows so until its status is decided, unless the user
\* had cancelled it: while lines are read it is a prompt or one or the other has stopped it.
\* A switch that is expected was approved during the current turn.
Authority ==
    /\ \A t \in strayed : t \in started /\ (t = turnId => violated \/ t \in cancelled)
    /\ turnId # 0 => \/ phase = "prompting" \/ wire # "open"
                     \/ phase = "cancelling" /\ (violated \/ turnId \in cancelled)
    /\ at = "promptClose" => ends[turnId] = "failed"
    /\ turnId # 0 /\ expected # NoMode => expected \in consent
    /\ ModeAuthority

LEMMA AuthorityInit == Init => Authority
  BY DEF Init, Authority, ModeAuthority, UnstoppedSwitchFails, WriteNeedsConsent

LEMMA AuthorityStep == Typed /\ Turns /\ Authority /\ [Next]_vars => Authority'
<1> SUFFICES ASSUME Typed, Turns, Authority, [Next]_vars
             PROVE  Authority'
  OBVIOUS
<1> USE DEF ModeAuthority, UnstoppedSwitchFails, WriteNeedsConsent
<1>a. ASSUME UNCHANGED <<modeId, expected, violated, turnId, plan, strayed, cancelled, consent,
                         ends, started>>,
             at' = "promptClose" => at = "promptClose",
             wire' # "open" \/ UNCHANGED <<phase, wire>>
      PROVE  Authority'
  BY <1>a DEF Authority
<1>b. ASSUME turnId = 0, at' # "promptClose",
             UNCHANGED <<turnId, strayed, cancelled, started, ends>>
      PROVE  Authority'
  <2>1. 0 \notin strayed
    BY TurnPositive DEF Typed, Scalars
  <2> QED
    BY <1>b, <2>1 DEF Authority
<1>c. ASSUME NEW t \in Turn \ started, NEW write \in BOOLEAN, BeginTurn(t, write), turnId = 0,
             UNCHANGED <<modeId, ends>>
      PROVE  Authority'
  <2>1. CASE write # (modeId \in Writable)
    BY <1>b, <1>c, <2>1 DEF BeginTurn, EndJob
  <2>2. CASE write = (modeId \in Writable)
    <3>1. /\ turnId' = t /\ at' = "prompt" /\ expected' = NoMode /\ phase' = "prompting"
          /\ started' = started \union {t} /\ plan'.write = write /\ strayed' = {}
      BY <1>c, <2>2 DEF BeginTurn, CallAgent
    <3> QED
      BY <1>c, <2>2, <3>1 DEF Authority
  <2> QED
    BY <2>1, <2>2
<1>d. ASSUME Finally, UNCHANGED <<strayed, cancelled, started>>,
             UnstoppedSwitchFails'
      PROVE  Authority'
  <2>1. turnId' = 0 /\ at' = "none" /\ 0 \notin strayed
    BY <1>d, TurnPositive DEF Finally, EndJob, Typed, Scalars
  <2> QED
    BY <1>d, <2>1 DEF Authority
<1>e. ASSUME NEW status, Report(turnId, status), at = "prompt", violated => status = "failed",
             UNCHANGED <<strayed, cancelled>>
      PROVE  UnstoppedSwitchFails' /\ ends'[turnId] = status
  <2>1. turnId \in Turn /\ ends \in EndMaps /\ ends[turnId] = "none"
    BY <1>e DEF Typed, Scalars, Turns
  <2>2. ends' = [ends EXCEPT ![turnId] = status]
    BY <1>e, <2>1 DEF Report, EndMaps
  <2> QED
    BY <1>e, <2>1, <2>2 DEF Authority, EndMaps
<1>1. ASSUME NEW call \in Opening \union {"done"}, ContinueOpen(call)
      PROVE  Authority'
  BY <1>1, <1>b DEF ContinueOpen, CallAgent, EndJob, host, Opening, Turns
<1>2. CASE FailOpen
  BY <1>2, <1>b DEF FailOpen, CloseSession, EndJob, host, Opening, Turns
<1>3. CASE ModeRestored
  <2>1. plan.turn \in Turn \ started /\ plan.write \in BOOLEAN /\ turnId = 0
    BY <1>3 DEF ModeRestored, Turns, Typed, Plans
  <2> QED
    BY <1>3, <1>c, <2>1 DEF ModeRestored
<1>4. CASE ModeNotRestored
  BY <1>4, <1>b DEF ModeNotRestored, EndJob, session, host, Turns
<1>5. CASE PromptAnswered
  <2>1. violated => Status = "failed"
    BY DEF Status
  <2> QED
    BY <1>5, <1>d, <1>e, <2>1 DEF PromptAnswered
<1>6. CASE PromptRejected
  <2>1. PICK status : /\ Report(turnId, status)
                      /\ violated \/ phase # "cancelling" => status = "failed"
    BY <1>6 DEF PromptRejected
  <2>2. UnstoppedSwitchFails' /\ ends'[turnId] = status
    BY <1>6, <1>e, <2>1 DEF PromptRejected
  <2>3. CASE Finally
    BY <1>6, <1>d, <2>2, <2>3 DEF PromptRejected
  <2>4. CASE ~Finally
    <3>1. /\ phase # "cancelling"
          /\ UNCHANGED <<modeId, expected, violated, turnId, plan, strayed, cancelled, consent,
                         started>>
          /\ wire' = "closing"
      BY <1>6, <2>4 DEF PromptRejected
    <3> QED
      BY <2>1, <2>2, <3>1 DEF Authority
  <2> QED
    BY <2>3, <2>4
<1>7. CASE FailedTurnClosed
  BY <1>7, <1>d DEF FailedTurnClosed, host, Authority
<1>8. CASE ConfigureEnds
  BY <1>8, <1>b DEF ConfigureEnds, EndJob, host, Turns
<1>9. CASE SessionClosed
  BY <1>9, <1>b DEF SessionClosed, EndJob, session, host, Turns
<1>10. CASE \/ \E a \in {"ok", "error"} : AnswerCall(a)
            \/ \E t \in Turn, a \in Stops \union {"error"} : EndPrompt(t, a)
            \/ \E r \in Requests, kind \in Kinds : Ask(r, kind)
            \/ WireFails \/ StreamFails \/ AgentExits
            \/ \E t \in Turn : OrphanEnds(t)
  BY <1>10, <1>a
  DEF AnswerCall, EndPrompt, Ask, WireFails, StreamFails, AgentExits, OrphanEnds, Finish, session,
      host
<1>11. ASSUME NEW mode \in Modes, ReportMode(mode)
       PROVE  Authority'
  <2>1. wire = "open" /\ UNCHANGED <<turnId, at, plan, started, ends, consent, cancelled, wire>>
    BY <1>11 DEF ReportMode, Lines
  <2>2. strayed' = IF turnId # 0 /\ mode \notin {modeId, expected}
                   THEN strayed \union {turnId} ELSE strayed
    BY <1>11 DEF ReportMode
  <2>3. CASE mode = modeId
    BY <1>11, <1>a, <2>1, <2>2, <2>3 DEF ReportMode
  <2>4. CASE mode # modeId /\ mode = expected
    <3>1. modeId' = mode /\ expected' = NoMode /\ UNCHANGED <<phase, violated, strayed>>
      BY <1>11, <2>2, <2>4 DEF ReportMode
    <3> QED
      BY <2>1, <2>4, <3>1, AcpAssumption DEF Authority
  <2>5. CASE mode \notin {modeId, expected} /\ (phase # "prompting" \/ violated)
    <3>1. UNCHANGED <<phase, modeId, expected, violated>>
      BY <1>11, <2>5 DEF ReportMode
    <3>2. turnId # 0 => violated \/ turnId \in cancelled
      BY <2>1, <2>5 DEF Authority
    <3>3. turnId # 0 => turnId \in started /\ (ends[turnId] \in {"none", "failed"} \/ turnId \in cancelled)
      BY DEF Turns, Authority
    <3>4. 0 \notin strayed
      BY TurnPositive DEF Typed, Scalars
    <3> QED
      BY <2>1, <2>2, <3>1, <3>2, <3>3, <3>4 DEF Authority
  <2>6. CASE mode \notin {modeId, expected} /\ phase = "prompting" /\ ~violated
    <3>1. phase' = "cancelling" /\ violated' = TRUE /\ UNCHANGED <<modeId, expected>>
      BY <1>11, <2>6 DEF ReportMode, CancelPrompt
    <3>2. turnId # 0 /\ turnId \in started /\ ends[turnId] \in {"none", "failed"}
      BY <2>6 DEF Typed, Scalars, Turns, Authority
    <3> QED
      BY <2>1, <2>2, <3>1, <3>2 DEF Authority
  <2> QED
    BY <2>3, <2>4, <2>5, <2>6
<1>12. ASSUME NEW mode \in Modes, Open(mode)
       PROVE  Authority'
  BY <1>12, <1>b DEF Open, host, Turns
<1>13. ASSUME NEW t \in Turn, NEW write \in BOOLEAN, Prompt(t, write)
       PROVE  Authority'
  <2>1. turnId = 0
    BY <1>13 DEF Prompt, Turns
  <2>2. CASE nativeMode = modeId
    BY <1>13, <1>c, <2>1, <2>2 DEF Prompt
  <2>3. CASE nativeMode # modeId
    BY <1>13, <1>b, <2>1, <2>3 DEF Prompt, CallAgent
  <2> QED
    BY <2>2, <2>3
<1>14. CASE Cancel
  <2>1. /\ UNCHANGED <<modeId, expected, violated, turnId, at, plan, strayed, consent, ends, started>>
        /\ phase' = "cancelling" /\ cancelled' = cancelled \union {turnId}
    BY <1>14 DEF Cancel, CancelPrompt
  <2> QED
    BY <2>1 DEF Authority
<1>15. ASSUME NEW r \in Requests, NEW switch \in BOOLEAN, Respond(r, switch)
       PROVE  Authority'
  <2>1. UNCHANGED <<phase, modeId, violated, turnId, at, plan, wire, strayed, cancelled, started,
                    ends>>
    BY <1>15 DEF Respond
  <2>2. \/ UNCHANGED <<expected, consent>>
        \/ expected' = pending[r] /\ consent' = consent \union {pending[r]}
    BY <1>15 DEF Respond
  <2> QED
    BY <2>1, <2>2 DEF Authority
<1>16. CASE Configure
  BY <1>16, <1>b DEF Configure, CallAgent, host, Turns
<1>17. CASE Close
  BY <1>17, <1>b DEF Close, CloseSession, EndJob, host, Turns
<1>18. CASE GraceExpires \/ KillAgent \/ CallTimesOut \/ UNCHANGED vars
  BY <1>18, <1>a DEF GraceExpires, KillAgent, CallTimesOut, vars, session, host
<1> QED
  BY <1>1, <1>2, <1>3, <1>4, <1>5, <1>6, <1>7, <1>8, <1>9, <1>10, <1>11, <1>12, <1>13, <1>14,
     <1>15, <1>16, <1>17, <1>18
  DEF Next, Continue, Agent, Host, Timers

\* A turn in which the agent leaves the committed mode, reported before the user cancels it,
\* is failed, and one that was not authorised to write is in a writable mode only by the
\* user's approval during it.
THEOREM Authorised == Spec => []ModeAuthority
<1>1. Init => Typed /\ Turns /\ Authority
  BY TypeInit, TurnsInit, AuthorityInit
<1>2. Typed /\ Turns /\ Authority /\ [Next]_vars => Typed' /\ Turns' /\ Authority'
  BY TypeStep, TurnsStep, AuthorityStep
<1>3. Authority => ModeAuthority
  BY DEF Authority
<1> QED
  BY <1>1, <1>2, <1>3, PTL DEF Spec

----------------------------------------------------------------------------
(* One prompt at a time.                                                   *)

\* The agent can only work on the prompt that is awaited, and on that of a failed turn
\* until it has ended.  An expired prompt is one that nobody cancelled.
Working ==
    /\ at = "prompt" =>
         /\ prompts \subseteq {turnId}
         /\ prompts # {} => answer \in {"waiting", "timeout"}
         /\ answer = "timeout" => phase = "prompting" /\ wire = "open"
         /\ answer = "waiting" => wire = "open" \/ (wire = "closing" /\ phase = "cancelling")
    /\ at = "promptClose" =>
         /\ prompts \subseteq {turnId} /\ wire # "open"
         /\ prompts # {} => wire = "closing" /\ answer = "waiting"
    /\ at \notin {"prompt", "promptClose"} => prompts = {}

LEMMA WorkingInit == Init => Working
  BY DEF Init, Working

LEMMA WorkingStep ==
    ASSUME ~LimitInGrace, Typed, Turns, Working, [Next]_vars
    PROVE  Working'
<1>a. ASSUME at \notin {"prompt", "promptClose"}, at' \notin {"prompt", "promptClose"},
             UNCHANGED prompts
      PROVE  Working'
  BY <1>a DEF Working
<1>b. ASSUME NEW t, NEW write, BeginTurn(t, write), at \notin {"prompt", "promptClose"},
             UNCHANGED wire
      PROVE  Working'
  BY <1>b DEF BeginTurn, CallAgent, EndJob, Working
<1>c. ASSUME Finally, prompts = {}, UNCHANGED prompts
      PROVE  Working'
  BY <1>c DEF Finally, EndJob, Working
<1>1. ASSUME NEW call \in Opening \union {"done"}, ContinueOpen(call)
      PROVE  Working'
  BY <1>1, <1>a DEF ContinueOpen, CallAgent, EndJob, agent, Opening
<1>2. CASE FailOpen
  BY <1>2, <1>a DEF FailOpen, CloseSession, EndJob, Opening
<1>3. CASE ModeRestored
  BY <1>3, <1>b DEF ModeRestored
<1>4. CASE ModeNotRestored
  BY <1>4, <1>a DEF ModeNotRestored, EndJob, agent
<1>5. CASE PromptAnswered
  BY <1>5, <1>c DEF PromptAnswered, agent, Stops, Working
<1>6. CASE PromptRejected
  <2>1. at = "prompt" /\ answer \in {"error", "timeout", "closed"} /\ UNCHANGED prompts
    BY <1>6 DEF PromptRejected, agent
  <2>2. CASE phase # "cancelling" /\ wire = "open"
    BY <1>6, <2>1, <2>2 DEF PromptRejected, Working
  <2>3. CASE ~(phase # "cancelling" /\ wire = "open")
    BY <1>6, <1>c, <2>1, <2>3 DEF PromptRejected, Working
  <2> QED
    BY <2>2, <2>3
<1>7. CASE FailedTurnClosed
  BY <1>7, <1>c DEF FailedTurnClosed, agent, Working
<1>8. CASE ConfigureEnds
  BY <1>8, <1>a DEF ConfigureEnds, EndJob, agent
<1>9. CASE SessionClosed
  BY <1>9, <1>a DEF SessionClosed, EndJob, agent
<1>10. ASSUME NEW a \in {"ok", "error"}, AnswerCall(a)
       PROVE  Working'
  BY <1>10, <1>a DEF AnswerCall, agent, Calls, Opening
<1>11. ASSUME NEW t \in Turn, NEW a \in Stops \union {"error"}, EndPrompt(t, a)
       PROVE  Working'
  <2>1. /\ at \in {"prompt", "promptClose"} /\ t = turnId /\ prompts' = {}
        /\ UNCHANGED <<at, wire, phase>>
    BY <1>11 DEF EndPrompt, Working, session
  <2>2. answer' \in {a, answer} /\ a \notin {"waiting", "timeout"}
    BY <1>11 DEF EndPrompt, Stops
  <2> QED
    BY <2>1, <2>2 DEF Working
<1>12. ASSUME NEW mode \in Modes, ReportMode(mode)
       PROVE  Working'
  <2>1. wire = "open" /\ answer # "timeout" /\ UNCHANGED <<turnId, at, answer, wire, prompts>>
    BY <1>12 DEF ReportMode, Lines, Stops
  <2> QED
    BY <2>1 DEF Working
<1>13. ASSUME NEW r \in Requests, NEW kind \in Kinds, Ask(r, kind)
       PROVE  Working'
  BY <1>13 DEF Ask, Working
<1>14. CASE WireFails \/ StreamFails \/ AgentExits
  <2>1. answer # "timeout" /\ prompts' = {} /\ wire' = "closed" /\ at' = at
    BY <1>14 DEF WireFails, StreamFails, AgentExits, Finish, Lines, Quiet, Stops
  <2>2. answer' = IF answer = "waiting" THEN "closed" ELSE answer
    BY <1>14 DEF WireFails, StreamFails, AgentExits, Finish
  <2> QED
    BY <2>1, <2>2 DEF Working
<1>15. ASSUME NEW mode \in Modes, Open(mode)
       PROVE  Working'
  BY <1>15, <1>a DEF Open, agent, Turns
<1>16. ASSUME NEW t \in Turn, NEW write \in BOOLEAN, Prompt(t, write)
       PROVE  Working'
  <2>1. CASE nativeMode = modeId
    BY <1>16, <1>b, <2>1 DEF Prompt, Turns
  <2>2. CASE nativeMode # modeId
    BY <1>16, <1>a, <2>2 DEF Prompt, CallAgent, Turns
  <2> QED
    BY <2>1, <2>2
<1>17. CASE Cancel
  <2>1. answer # "timeout" /\ phase' = "cancelling" /\ UNCHANGED <<turnId, at, answer, wire, prompts>>
    BY <1>17 DEF Cancel, CancelPrompt, Quiet
  <2> QED
    BY <2>1 DEF Working
<1>18. ASSUME NEW r \in Requests, NEW switch \in BOOLEAN, Respond(r, switch)
       PROVE  Working'
  BY <1>18 DEF Respond, Working
<1>19. CASE Configure
  BY <1>19, <1>a DEF Configure, CallAgent, agent, Turns
<1>20. CASE Close
  BY <1>20, <1>a DEF Close, CloseSession, EndJob, Turns
<1>21. CASE GraceExpires
  <2>1. answer # "timeout" /\ UNCHANGED <<turnId, at, answer, phase, prompts>>
    BY <1>21 DEF GraceExpires, Quiet, agent
  <2>2. wire' = wire \/ (wire' = "closing" /\ phase = "cancelling" /\ wire = "open")
    BY <1>21 DEF GraceExpires
  <2> QED
    BY <2>1, <2>2 DEF Working
<1>22. CASE KillAgent
  BY <1>22 DEF KillAgent, session, Working
<1>23. CASE CallTimesOut
  <2>1. answer = "waiting" /\ at # "promptClose" /\ UNCHANGED <<turnId, at, phase, wire, prompts>>
    BY <1>23 DEF CallTimesOut, Calls, Opening, session, agent
  <2>2. (at = "prompt" => phase = "prompting") /\ answer' = "timeout"
    BY <1>23 DEF CallTimesOut
  <2> QED
    BY <2>1, <2>2 DEF Working
<1>24. CASE UNCHANGED vars \/ \E t \in Turn : OrphanEnds(t)
  BY <1>24 DEF OrphanEnds, vars, session, agent, Working
<1> QED
  BY <1>1, <1>2, <1>3, <1>4, <1>5, <1>6, <1>7, <1>8, <1>9, <1>10, <1>11, <1>12, <1>13, <1>14,
     <1>15, <1>16, <1>17, <1>18, <1>19, <1>20, <1>21, <1>22, <1>23, <1>24
  DEF Next, Continue, Agent, Host, Timers

LEMMA WorkingHolds == ~LimitInGrace => (Spec => [](Typed /\ Turns /\ Working))
<1> SUFFICES ASSUME ~LimitInGrace
             PROVE  Spec => [](Typed /\ Turns /\ Working)
  OBVIOUS
<1>1. Init => Typed /\ Turns /\ Working
  BY TypeInit, TurnsInit, WorkingInit
<1>2. Typed /\ Turns /\ Working /\ [Next]_vars => Typed' /\ Turns' /\ Working'
  BY TypeStep, TurnsStep, WorkingStep
<1> QED
  BY <1>1, <1>2, PTL DEF Spec

\* A turn some process works on unseen has failed, or its prompt has just been rejected by
\* the end of the wire, and nothing but the catch of prompt can follow.
Unread ==
    /\ orphans \subseteq started
    /\ \A t \in orphans : t # turnId => ends[t] = "failed"
    /\ turnId \in orphans => at = "prompt" /\ answer = "closed" /\ phase = "failed" /\ wire = "closed"

LEMMA UnreadInit == Init => Unread
  BY DEF Init, Unread

LEMMA UnreadStep ==
    ASSUME Typed, Turns, Working, Unread, [Next]_vars
    PROVE  Unread'
<1>a. ASSUME turnId \notin orphans, UNCHANGED <<turnId, orphans, ends, started>>
      PROVE  Unread'
  BY <1>a DEF Unread
<1>b. ASSUME NEW t \in Turn \ started, NEW write, BeginTurn(t, write), turnId = 0,
             UNCHANGED <<orphans, ends>>
      PROVE  Unread'
  <2>1. 0 \notin orphans /\ t \notin orphans
    BY <1>b, TurnPositive DEF Unread, Typed, Scalars
  <2> QED
    BY <1>b, <2>1 DEF BeginTurn, Unread
<1>c. ASSUME Finally, UNCHANGED <<orphans, started>>,
             \A t \in orphans : ends'[t] = "failed"
      PROVE  Unread'
  BY <1>c, TurnPositive DEF Finally, Unread, Typed, Scalars
<1>d. at # "prompt" \/ answer # "closed" => turnId \notin orphans
  BY DEF Unread
<1>e. ASSUME NEW status, Report(turnId, status), at = "prompt",
             turnId \in orphans => status = "failed"
      PROVE  \A t \in orphans : ends'[t] = "failed"
  <2>1. turnId \in Turn /\ ends \in EndMaps /\ ends[turnId] = "none"
    BY <1>e DEF Typed, Scalars, Turns
  <2>2. ends' = [ends EXCEPT ![turnId] = status]
    BY <1>e, <2>1 DEF Report, EndMaps
  <2> QED
    BY <1>e, <2>1, <2>2 DEF Unread, EndMaps
<1>1. ASSUME NEW call \in Opening \union {"done"}, ContinueOpen(call)
      PROVE  Unread'
  BY <1>1, <1>a, <1>d DEF ContinueOpen, agent, host, Opening
<1>2. CASE FailOpen
  BY <1>2, <1>a, <1>d DEF FailOpen, CloseSession, host, Opening
<1>3. CASE ModeRestored
  <2>1. plan.turn \in Turn \ started /\ turnId = 0
    BY <1>3 DEF ModeRestored, Turns
  <2> QED
    BY <1>3, <1>b, <2>1 DEF ModeRestored
<1>4. CASE ModeNotRestored \/ SessionClosed
  BY <1>4, <1>a, <1>d DEF ModeNotRestored, SessionClosed, session, agent, host
<1>5. CASE PromptAnswered
  <2>1. turnId \notin orphans
    BY <1>5, <1>d DEF PromptAnswered, Stops
  <2> QED
    BY <1>5, <1>c, <1>e, <2>1 DEF PromptAnswered, agent
<1>6. CASE PromptRejected
  <2>1. PICK status : /\ Report(turnId, status)
                      /\ phase # "cancelling" => status = "failed"
    BY <1>6 DEF PromptRejected
  <2>2. \A t \in orphans : ends'[t] = "failed"
    BY <1>6, <1>e, <2>1 DEF PromptRejected, Unread
  <2>3. UNCHANGED <<orphans, started>>
    BY <1>6 DEF PromptRejected, agent
  <2>4. CASE Finally
    BY <1>c, <2>2, <2>3, <2>4
  <2>5. CASE ~Finally
    <3>1. turnId \notin orphans /\ turnId' = turnId
      BY <1>6, <2>5 DEF PromptRejected, Unread
    <3> QED
      BY <2>2, <2>3, <3>1 DEF Unread
  <2> QED
    BY <2>4, <2>5
<1>7. CASE FailedTurnClosed
  <2>1. turnId \notin orphans /\ UNCHANGED <<orphans, started, ends>>
    BY <1>7, <1>d DEF FailedTurnClosed, agent
  <2> QED
    BY <1>7, <1>c, <2>1 DEF FailedTurnClosed, Unread
<1>8. CASE ConfigureEnds
  BY <1>8, <1>a, <1>d DEF ConfigureEnds, agent, host
<1>9. CASE \/ \E a \in {"ok", "error"} : AnswerCall(a)
           \/ \E t \in Turn, a \in Stops \union {"error"} : EndPrompt(t, a)
           \/ \E mode \in Modes : ReportMode(mode)
           \/ \E r \in Requests, kind \in Kinds : Ask(r, kind)
  <2>1. Lines /\ UNCHANGED <<turnId, orphans, ends, started>>
    BY <1>9 DEF AnswerCall, EndPrompt, ReportMode, Ask, session, agent, host
  <2> QED
    BY <1>a, <1>d, <2>1 DEF Lines, Stops
<1>10. CASE WireFails \/ StreamFails \/ AgentExits
  <2>1. turnId \notin orphans
    BY <1>10, <1>d DEF WireFails, StreamFails, AgentExits, Lines, Quiet, Stops
  <2>2. Finish /\ UNCHANGED <<turnId, at, ends, started>>
    BY <1>10 DEF WireFails, StreamFails, AgentExits, Finish, host
  <2>3. CASE turnId \notin orphans'
    <3>1. orphans' \subseteq orphans \union prompts
      BY <1>10 DEF WireFails, StreamFails, AgentExits, Abandon
    <3>2. prompts \subseteq {turnId}
      BY DEF Working
    <3> QED
      BY <2>2, <2>3, <3>1, <3>2 DEF Unread
  <2>4. CASE turnId \in orphans'
    <3>1. orphans' = orphans \union prompts /\ turnId \in prompts /\ ~AgentExits
      BY <1>10, <2>1, <2>4 DEF WireFails, StreamFails, AgentExits, Abandon
    <3>2. at \in {"prompt", "promptClose"} /\ prompts \subseteq {turnId}
      BY <3>1 DEF Working
    <3>3. at = "prompt" /\ answer = "waiting"
      BY <1>10, <3>1, <3>2 DEF WireFails, StreamFails, Lines, Quiet, Stops, Working
    <3>4. answer' = "closed" /\ phase' = "failed" /\ wire' = "closed"
      BY <2>2, <3>3 DEF Finish, Closing
    <3>5. turnId \in started
      BY <3>3, TurnPositive DEF Turns
    <3> QED
      BY <2>2, <3>1, <3>2, <3>3, <3>4, <3>5 DEF Unread
  <2> QED
    BY <2>3, <2>4
<1>11. ASSUME NEW t \in Turn, OrphanEnds(t)
       PROVE  Unread'
  BY <1>11 DEF OrphanEnds, session, host, Unread
<1>12. ASSUME NEW mode \in Modes, Open(mode)
       PROVE  Unread'
  BY <1>12, <1>a, <1>d DEF Open, Turns, agent, host
<1>13. ASSUME NEW t \in Turn, NEW write \in BOOLEAN, Prompt(t, write)
       PROVE  Unread'
  <2>1. turnId = 0 /\ t \in Turn \ started
    BY <1>13 DEF Prompt, Turns
  <2>2. CASE nativeMode = modeId
    BY <1>13, <1>b, <2>1, <2>2 DEF Prompt
  <2>3. CASE nativeMode # modeId
    BY <1>13, <1>a, <1>d, <2>1, <2>3 DEF Prompt, Turns
  <2> QED
    BY <2>2, <2>3
<1>14. CASE Cancel \/ \E r \in Requests, switch \in BOOLEAN : Respond(r, switch)
  BY <1>14, <1>a, <1>d DEF Cancel, CancelPrompt, Respond, Quiet
<1>15. CASE Configure \/ Close
  BY <1>15, <1>a, <1>d DEF Configure, Close, CloseSession, Quiet, agent, host
<1>16. CASE GraceExpires \/ KillAgent \/ CallTimesOut
  BY <1>16, <1>a, <1>d DEF GraceExpires, KillAgent, CallTimesOut, Quiet, session, agent, host
<1>17. CASE UNCHANGED vars
  BY <1>17 DEF vars, session, agent, host, Unread
<1> QED
  BY <1>1, <1>2, <1>3, <1>4, <1>5, <1>6, <1>7, <1>8, <1>9, <1>10, <1>11, <1>12, <1>13, <1>14,
     <1>15, <1>16, <1>17
  DEF Next, Continue, Agent, Host, Timers

\* The agent that is read works on no prompt but the current turn's: a turn that is given up
\* takes the agent with it.  One that is not read any more, and survives, works only on turns
\* the host is told have failed, or is about to be.
THEOREM OneAtATime == ~LimitInGrace => (Spec => []OnePromptAtAgent)
<1> SUFFICES ASSUME ~LimitInGrace
             PROVE  Spec => []OnePromptAtAgent
  OBVIOUS
<1>1. Init => Unread
  BY UnreadInit
<1>2. Typed /\ Turns /\ Working /\ Unread /\ [Next]_vars => Unread'
  BY UnreadStep
<1>3. Working /\ Unread => OnePromptAtAgent
  BY DEF Working, Unread, OnePromptAtAgent
<1>4. Spec => [](Typed /\ Turns /\ Working)
  BY WorkingHolds
<1> QED
  BY <1>1, <1>2, <1>3, <1>4, PTL DEF Spec

----------------------------------------------------------------------------
(* Requests are answered.                                                  *)

\* A request waits for its first answer, and the agent only asks while it works.
Asked ==
    /\ RequestsSettled
    /\ \A r \in Requests :
         /\ pending[r] # "no" => request[r] \notin {"unasked", "answered"}
         /\ request[r] = "asked" => prompts # {}

LEMMA AskedInit == Init => Asked
  BY DEF Init, Asked, RequestsSettled, NonePending

\* What becomes of a request when some are answered.
LEMMA RequestMoves ==
    ASSUME Typed
    PROVE  /\ \A S : Reply(S) => \A r \in Requests :
                 /\ r \notin S => request'[r] = request[r]
                 /\ r \in S /\ request[r] \notin {"answered", "twice"} =>
                      request'[r] \notin {"asked", "twice"}
           /\ \A r \in Requests : NonePending[r] = "no"
  BY DEF Typed, RequestMaps, Reply, NonePending

LEMMA AskedStep ==
    ASSUME Typed, Turns, Working, Asked, [Next]_vars
    PROVE  Asked'
<1> USE DEF RequestsSettled, Waiting
<1>a. ASSUME UNCHANGED <<pending, request>>,
             wire' = wire \/ wire' # "open" \/ prompts = {},
             prompts \subseteq prompts'
      PROVE  Asked'
  BY <1>a DEF Asked
<1>b. ASSUME request' = request, pending' = NonePending, UNCHANGED prompts,
             wire' = "open" => prompts = {}
      PROVE  Asked'
  BY <1>b, RequestMoves DEF Asked
<1>c. ASSUME wire = "open", Reply(Waiting), pending' = NonePending, UNCHANGED prompts
      PROVE  Asked'
  BY <1>c, RequestMoves DEF Asked
<1>d. ASSUME request' = Forgotten, UNCHANGED pending
      PROVE  Asked'
  <2> SUFFICES ASSUME NEW r \in Requests
               PROVE  /\ request'[r] \notin {"asked", "twice"}
                      /\ pending[r] # "no" => request'[r] \notin {"unasked", "answered"}
    BY <1>d DEF Asked
  <2>1. /\ Forgotten[r] # "asked" /\ (request[r] # "twice" => Forgotten[r] # "twice")
        /\ Forgotten[r] \in {"unasked", "answered"} => Forgotten[r] = request[r]
    BY DEF Typed, RequestMaps, Forgotten
  <2> QED
    BY <1>d, <2>1 DEF Asked
<1>e. ASSUME NEW place, NEW invocation, CloseSession(place, invocation)
      PROVE  Asked'
  BY <1>b, <1>c, <1>e DEF CloseSession
<1>f. ASSUME NEW t, NEW write, BeginTurn(t, write), UNCHANGED <<pending, wire, request>>
      PROVE  Asked'
  BY <1>a, <1>f DEF BeginTurn
<1>g. ASSUME Finally, UNCHANGED <<prompts, request>>, wire = "open" => prompts = {}
      PROVE  Asked'
  BY <1>b, <1>g DEF Finally
<1>1. ASSUME NEW call \in Opening \union {"done"}, ContinueOpen(call)
      PROVE  Asked'
  BY <1>1, <1>a DEF ContinueOpen, agent
<1>2. CASE FailOpen \/ Close
  BY <1>2, <1>e DEF FailOpen, Close
<1>3. CASE ModeRestored
  BY <1>3, <1>f DEF ModeRestored
<1>4. CASE ModeNotRestored
  BY <1>4, <1>a DEF ModeNotRestored, session, agent
<1>5. CASE PromptAnswered
  BY <1>5, <1>g DEF PromptAnswered, agent, Stops, Working
<1>6. CASE PromptRejected
  BY <1>6, <1>a, <1>g DEF PromptRejected, agent, Working
<1>7. CASE FailedTurnClosed
  BY <1>7, <1>g DEF FailedTurnClosed, agent, Working
<1>8. CASE ConfigureEnds \/ SessionClosed
  BY <1>8, <1>a DEF ConfigureEnds, SessionClosed, session, agent
<1>9. ASSUME NEW a \in {"ok", "error"}, AnswerCall(a)
      PROVE  Asked'
  BY <1>9, <1>a DEF AnswerCall, session, agent
<1>10. ASSUME NEW t \in Turn, NEW a \in Stops \union {"error"}, EndPrompt(t, a)
       PROVE  Asked'
  BY <1>10, <1>d DEF EndPrompt, session
<1>11. ASSUME NEW mode \in Modes, ReportMode(mode)
       PROVE  Asked'
  BY <1>11, <1>a, <1>c DEF ReportMode, CancelPrompt, Lines
<1>12. ASSUME NEW r \in Requests, NEW kind \in Kinds, Ask(r, kind)
       PROVE  Asked'
  <2>1. /\ request[r] = "unasked" /\ pending[r] = "no" /\ UNCHANGED <<wire, prompts>>
        /\ \A q \in Requests \ {r} : request'[q] = request[q] /\ pending'[q] = pending[q]
    BY <1>12 DEF Ask, Asked, Typed, PendingMaps, RequestMaps
  <2>2. CASE Waits(kind)
    <3>1. pending'[r] # "no" /\ request'[r] = IF prompts = {} THEN "late" ELSE "asked"
      BY <1>12, <2>2, AcpAssumption DEF Ask, Kinds, Typed, PendingMaps, RequestMaps
    <3> QED
      BY <2>1, <3>1 DEF Asked
  <2>3. CASE ~Waits(kind)
    <3>1. pending'[r] = "no" /\ request'[r] = "answered"
      BY <1>12, <2>1, <2>3 DEF Ask, Typed, RequestMaps
    <3> QED
      BY <2>1, <3>1 DEF Asked
  <2> QED
    BY <2>2, <2>3
<1>13. CASE WireFails \/ StreamFails \/ AgentExits \/ KillAgent
  BY <1>13, <1>d DEF WireFails, StreamFails, AgentExits, KillAgent, Finish, session
<1>14. ASSUME NEW mode \in Modes, Open(mode)
       PROVE  Asked'
  BY <1>14, <1>b DEF Open, agent, Turns, Working
<1>15. ASSUME NEW t \in Turn, NEW write \in BOOLEAN, Prompt(t, write)
       PROVE  Asked'
  BY <1>15, <1>a, <1>f DEF Prompt
<1>16. CASE Cancel
  BY <1>16, <1>a, <1>c DEF Cancel, CancelPrompt
<1>17. ASSUME NEW r \in Requests, NEW switch \in BOOLEAN, Respond(r, switch)
       PROVE  Asked'
  <2>1. CASE wire # "open"
    BY <1>17, <1>a, <2>1 DEF Respond
  <2>2. CASE wire = "open"
    <3>1. /\ pending'[r] = "no" /\ UNCHANGED <<wire, prompts>>
          /\ \A q \in Requests \ {r} : pending'[q] = pending[q]
      BY <1>17, <2>2 DEF Respond, Typed, PendingMaps
    <3>2. /\ request'[r] \notin {"asked", "twice"}
          /\ \A q \in Requests \ {r} : request'[q] = request[q]
      BY <1>17, <2>2, RequestMoves DEF Respond, Asked
    <3> QED
      BY <3>1, <3>2 DEF Asked
  <2> QED
    BY <2>1, <2>2
<1>18. CASE Configure \/ GraceExpires \/ CallTimesOut
  BY <1>18, <1>a DEF Configure, GraceExpires, CallTimesOut, session, agent
<1>19. CASE UNCHANGED vars \/ \E t \in Turn : OrphanEnds(t)
  BY <1>19, <1>a DEF OrphanEnds, vars, session, agent
<1> QED
  BY <1>1, <1>2, <1>3, <1>4, <1>5, <1>6, <1>7, <1>8, <1>9, <1>10, <1>11, <1>12, <1>13, <1>14,
     <1>15, <1>16, <1>17, <1>18, <1>19
  DEF Next, Continue, Agent, Host, Timers

\* What the agent asks during a prompt is answered once, and while its wire is up not
\* forgotten before the agent ends that prompt.
THEOREM Answered == ~LimitInGrace => (Spec => []RequestsSettled)
<1> SUFFICES ASSUME ~LimitInGrace
             PROVE  Spec => []RequestsSettled
  OBVIOUS
<1>1. Init => Asked
  BY AskedInit
<1>2. Typed /\ Turns /\ Working /\ Asked /\ [Next]_vars => Asked'
  BY AskedStep
<1>3. Asked => RequestsSettled
  BY DEF Asked
<1>4. Spec => [](Typed /\ Turns /\ Working)
  BY WorkingHolds
<1> QED
  BY <1>1, <1>2, <1>3, <1>4, PTL DEF Spec

=============================================================================
