---------------------------- MODULE SessionQueue ----------------------------
(***************************************************************************)
(* One session of the host: its durable message queue (session_queue.rs),  *)
(* the turn that is running in it (session_host.rs), the events a provider *)
(* reports about that turn (session_projection.rs), the evidence the       *)
(* broker leaves about its delivery (capability_broker.rs) and the         *)
(* recovery that runs after the application restarts (session_recovery.rs).*)
(*                                                                         *)
(* Two locks order the work on a session: the queue gate                   *)
(* ("queue:<session>"), held for a whole queue operation, and the session  *)
(* gate (the admission), held while a turn is being started, a session     *)
(* closed or a goal resumed.  A turn that is running holds neither.        *)
(*                                                                         *)
(* Messages and turns are numbered in the order in which they are created, *)
(* 0 stands for "none", and one window owns the session.  A definition     *)
(* whose name ends in Mutant is a plausible slip in the definition that    *)
(* follows it; no action uses it.                                          *)
(***************************************************************************)
EXTENDS Naturals, FiniteSets

CONSTANTS
    MaxMsgs,    \* messages the user ever submits
    MaxGoals,   \* turns a goal.resume may start
    MaxWakes,   \* scheduled dispatches waiting for the queue gate (saturates)
    Commands,   \* the operations the user (and the application's life) offers
    CanSteer,   \* the session negotiated queue.steer
    Truthful    \* the provider ends every turn before it answers the call

AllCommands == {"send", "followUp", "steer", "sendNow", "remove", "resume",
                "goal", "stop", "close", "archive", "restart"}

ASSUME ConstantsAssumption ==
    /\ MaxMsgs \in Nat /\ MaxGoals \in Nat /\ MaxWakes \in Nat \ {0}
    /\ Commands \subseteq AllCommands
    /\ CanSteer \in BOOLEAN /\ Truthful \in BOOLEAN

Msg  == 1..MaxMsgs
Turn == 1..(MaxMsgs + MaxGoals)

VARIABLES
    \* durable: tables queued_messages, session_queues, sessions, turns, turn_delivery
    status,     \* of each message: not submitted, one of the four row states, or gone
    via,        \* column delivery of a row ("direct": never had one)
    bound,      \* column turn_id of a row
    paused,     \* session_queues.paused
    session,    \* sessions.state
    archived,   \* sessions.archived
    turns,      \* turns.status
    carries,    \* the message a turn was started for (0: a goal)
    delivery,   \* turn_delivery.state
    \* volatile: locks, spawned tasks and the map of live turns
    live,       \* the turn in SessionHost.live
    task,       \* how far the spawned task of the live turn has come
    cancelled,  \* turns whose LiveTurn.cancel flag is set
    gate,       \* the operation that holds the queue gate
    adm,        \* who holds the session gate, and its place in run_admitted
    stop,       \* the stop, close or archive call under way
    wakes,      \* schedule_queue tasks that wait for the queue gate
    \* the provider
    copies      \* how often it was handed each message

durable  == <<status, via, bound, paused, session, archived, turns, carries, delivery>>
volatile == <<live, task, cancelled, gate, adm, stop, wakes>>
vars     == <<durable, volatile, copies>>
rowVars  == <<status, via, bound>>
turnVars == <<turns, carries, delivery>>

RowStates   == {"pending", "sending", "failed", "uncertain"}
MsgStates   == RowStates \union {"unsent", "gone"}
Startable   == {"idle", "interrupted", "failed"}
Terminals   == {"completed", "interrupted", "failed"}
BeforeSend  == {"spawned", "invoked", "marked"}
Interactive == {"marked", "sent", "started", "active", "ended"}
Steering    == {"invoke", "control", "answered"}
Settling    == {"failing", "final", "settled"}
Answers     == {"none", "ok", "no_active_turn", "steer_rejected", "lost", "finished"}

FreeGate == [op |-> "none", pc |-> "idle", msg |-> 0, run |-> 0, to |-> 0, answer |-> "none"]
FreeAdm  == [by |-> "none", pc |-> "idle"]
NoStop   == [op |-> "none", pc |-> "idle", run |-> 0]

Init ==
    /\ status = [m \in Msg |-> "unsent"]
    /\ via = [m \in Msg |-> "turn"]
    /\ bound = [m \in Msg |-> 0]
    /\ paused = FALSE
    /\ session = "idle"
    /\ archived = FALSE
    /\ turns = [t \in Turn |-> "none"]
    /\ carries = [t \in Turn |-> 0]
    /\ delivery = [t \in Turn |-> "not_sent"]
    /\ live = 0
    /\ task = "none"
    /\ cancelled = {}
    /\ gate = FreeGate
    /\ adm = FreeAdm
    /\ stop = NoStop
    /\ wakes = 0
    /\ copies = [m \in Msg |-> 0]

----------------------------------------------------------------------------
(* What several handlers share.                                            *)

\* The next message the user types, and the next turn id.
IsNextMsg(m)  == status[m] = "unsent" /\ \A n \in Msg : n < m => status[n] # "unsent"
IsNextTurn(t) == turns[t] = "none" /\ \A u \in Turn : u < t => turns[u] # "none"

Queued    == {m \in Msg : status[m] \in RowStates}
DeliverableMutant == {"pending", "failed", "uncertain"}
Deliverable == {"pending", "failed"}
Closed    == archived \/ session = "closed"
GateFree  == gate.pc = "idle"
AdmFree   == adm.by = "none"
Immediate == gate.op \in {"steer", "sendNow"}
Winding   == task \in Settling

\* schedule_queue: one more spawned task waits for the queue gate.
Scheduled(n) == IF n < MaxWakes THEN n + 1 ELSE n

SetRow(m, state, how, turn) ==
    /\ status' = [status EXCEPT ![m] = state]
    /\ via' = [via EXCEPT ![m] = how]
    /\ bound' = [bound EXCEPT ![m] = turn]

Enqueue(m) == SetRow(m, "pending", "turn", 0)

\* A row that keeps its delivery and turn columns.
Restate(m, state) ==
    /\ status' = [status EXCEPT ![m] = state]
    /\ UNCHANGED <<via, bound>>

\* fail_queued_display: the row keeps its columns, the queue pauses.
FailQueued(m, uncertain) ==
    /\ Restate(m, IF uncertain THEN "uncertain" ELSE "failed")
    /\ paused' = TRUE

\* The text of a provider's refusal does not survive the runtime and the broker:
\* of the errors deliver_queued sees only the host's own can be recognised.
HostError(answer) ==
    CASE answer = "ok"       -> "ok"
      [] answer = "finished" -> "finished"
      [] OTHER               -> "transport_failed"

SteeringRejectionMutant(error) ==
    [stale |-> error # "steer_rejected", rejected |-> error = "steer_rejected"]

SteeringRejection(error) ==
    [stale |-> error \in {"no_active_turn", "finished"}, rejected |-> error = "steer_rejected"]

----------------------------------------------------------------------------
(* Queue operations that end in the step that takes the queue gate.        *)

Offered(c) == c \in Commands

\* queue_operation "followUp": accept the message and schedule a dispatch.
FollowUp(m) ==
    /\ Offered("followUp") /\ GateFree /\ IsNextMsg(m) /\ ~Closed
    /\ Enqueue(m)
    /\ wakes' = Scheduled(wakes)
    /\ UNCHANGED <<turnVars, paused, session, archived, live, task, cancelled, gate, adm, stop, copies>>

\* queue_operation "remove" (one row) and "clear" (every row): rows that are
\* being sent have been claimed and stay.
Withdraw(S) ==
    /\ Offered("remove") /\ GateFree /\ ~Closed
    /\ S # {} /\ \A m \in S : status[m] \in RowStates \ {"sending"}
    /\ status' = [m \in Msg |-> IF m \in S THEN "gone" ELSE status[m]]
    /\ via' = [m \in Msg |-> IF m \in S THEN "turn" ELSE via[m]]
    /\ bound' = [m \in Msg |-> IF m \in S THEN 0 ELSE bound[m]]
    /\ UNCHANGED <<turnVars, paused, session, archived, volatile, copies>>

Remove(m) == Withdraw({m})
Clear     == Withdraw(Queued \ {m \in Msg : status[m] = "sending"})

----------------------------------------------------------------------------
(* Queue operations that keep the gate for several steps.                  *)

Hold(op, pc, m)  == gate' = [FreeGate EXCEPT !.op = op, !.pc = pc, !.msg = m]
At(pc)           == gate' = [gate EXCEPT !.pc = pc]
Facing(pc, turn) == gate' = [gate EXCEPT !.pc = pc, !.run = turn]
Reaches(turn)    == gate' = [gate EXCEPT !.pc = "control", !.to = turn]
Answered(answer) == gate' = [gate EXCEPT !.pc = "answered", !.answer = answer]

\* send_configured_from takes the queue gate, then the session gate.
Send(m) ==
    /\ Offered("send") /\ GateFree /\ IsNextMsg(m)
    /\ Hold("send", "admit", m)
    /\ UNCHANGED <<durable, live, task, cancelled, adm, stop, wakes, copies>>

\* Behind a live turn or a waiting row the message is queued, otherwise it starts a turn.
MustQueueMutant == live # 0
MustQueue       == live # 0 \/ Queued # {}

SendAdmit ==
    /\ gate.pc = "admit" /\ AdmFree
    /\ \/ /\ MustQueue
          /\ \/ /\ Closed
                /\ UNCHANGED <<rowVars, wakes>>
             \/ /\ ~Closed
                /\ Enqueue(gate.msg)
                /\ wakes' = Scheduled(wakes)
          /\ gate' = FreeGate
          /\ UNCHANGED adm
       \/ /\ ~MustQueue
          /\ At("start")
          /\ adm' = [by |-> "gate", pc |-> "open"]
          /\ UNCHANGED <<rowVars, wakes>>
    /\ UNCHANGED <<turnVars, paused, session, archived, live, task, cancelled, stop, copies>>

\* queue_operation "steer": enqueue first, then deliver at once.
Steer(m) ==
    /\ Offered("steer") /\ GateFree /\ IsNextMsg(m) /\ ~Closed
    /\ live # 0 => CanSteer
    /\ Enqueue(m)
    /\ Hold("steer", "read", m)
    /\ UNCHANGED <<turnVars, paused, session, archived, live, task, cancelled, adm, stop, wakes, copies>>

\* queue_operation "sendNow": deliver a row of the queue at once.
SendNow(m) ==
    /\ Offered("sendNow") /\ GateFree /\ m \in Queued /\ ~Closed
    /\ live # 0 => CanSteer
    /\ Hold("sendNow", "read", m)
    /\ UNCHANGED <<durable, live, task, cancelled, adm, stop, wakes, copies>>

\* The task of schedule_queue: with no live turn, the first pending row of an open,
\* unpaused queue.
Wake ==
    /\ wakes > 0 /\ GateFree
    /\ wakes' = wakes - 1
    /\ \/ /\ live = 0 /\ ~paused /\ ~archived /\ session \in Startable
          /\ \E m \in Msg :
                /\ status[m] = "pending"
                /\ \A n \in Msg : n < m => status[n] # "pending"
                /\ Hold("schedule", "read", m)
       \/ /\ \/ live # 0 \/ paused \/ archived \/ session \notin Startable
             \/ \A m \in Msg : status[m] # "pending"
          /\ UNCHANGED gate
    /\ UNCHANGED <<durable, live, task, cancelled, adm, stop, copies>>

\* queue_operation "resume": refuse while a row is uncertain ...
ResumeCheck ==
    /\ Offered("resume") /\ GateFree /\ ~Closed
    /\ \A m \in Msg : status[m] # "uncertain"
    /\ Hold("resume", "apply", 0)
    /\ UNCHANGED <<durable, live, task, cancelled, adm, stop, wakes, copies>>

\* ... then retry what failed and let the queue run, in later statements.
RetriedMutant == {m \in Msg : status[m] \in {"failed", "uncertain"}}
Retried       == {m \in Msg : status[m] = "failed"}

ResumeApply ==
    /\ gate.pc = "apply"
    /\ status' = [m \in Msg |-> IF m \in Retried THEN "pending" ELSE status[m]]
    /\ via' = [m \in Msg |-> IF m \in Retried THEN "turn" ELSE via[m]]
    /\ bound' = [m \in Msg |-> IF m \in Retried THEN 0 ELSE bound[m]]
    /\ paused' = FALSE
    /\ wakes' = Scheduled(wakes)
    /\ gate' = FreeGate
    /\ UNCHANGED <<turnVars, session, archived, live, task, cancelled, adm, stop, copies>>

----------------------------------------------------------------------------
(* deliver_queued, under the queue gate.                                   *)

\* The error a failed delivery leaves: a steered message keeps a failed or an
\* uncertain row, sendNow only reports it, an automatic dispatch pauses the queue.
DeliveryError ==
    /\ gate' = FreeGate
    /\ CASE gate.op = "steer"    -> FailQueued(gate.msg, status[gate.msg] \in {"sending", "uncertain"})
         [] gate.op = "schedule" -> paused' = TRUE /\ UNCHANGED rowVars
         [] OTHER                -> UNCHANGED <<rowVars, paused>>

Delivering == <<turnVars, session, archived, live, task, cancelled, stop, wakes>>

\* A row that has left the queue, is being sent or whose outcome is unknown is not
\* delivered; an attachment that changed fails the row.
ReadRefused ==
    /\ gate.pc = "read"
    /\ \/ status[gate.msg] \notin Deliverable /\ DeliveryError
       \/ status[gate.msg] \in Deliverable /\ FailQueued(gate.msg, FALSE) /\ gate' = FreeGate
    /\ UNCHANGED <<Delivering, adm, copies>>

\* Choose between steering the live turn and starting a new one.  A turn that was
\* stopped is not steered, nor with attachments its session does not take.
ReadLive ==
    /\ gate.pc = "read" /\ status[gate.msg] \in Deliverable
    /\ \/ live = 0 /\ At("start") /\ UNCHANGED <<rowVars, paused>>
       \/ /\ live # 0 /\ Winding
          /\ Facing("await", live)
          /\ UNCHANGED <<rowVars, paused>>
       \/ /\ live # 0 /\ ~Winding /\ ~Immediate
          /\ gate' = FreeGate
          /\ UNCHANGED <<rowVars, paused>>
       \/ /\ live # 0 /\ ~Winding /\ Immediate
          /\ DeliveryError
       \/ /\ live # 0 /\ ~Winding /\ Immediate /\ live \notin cancelled /\ CanSteer
          /\ Facing("mark", live)
          /\ UNCHANGED <<rowVars, paused>>
    /\ UNCHANGED <<Delivering, adm, copies>>

\* A finishing turn releases the session before a new one starts.
Awaited ==
    /\ gate.pc = "await" /\ live # gate.run
    /\ At("start")
    /\ UNCHANGED <<durable, live, task, cancelled, adm, stop, wakes, copies>>

\* The row is claimed for the turn that was read, which may be over by now.
MarkSteer ==
    /\ gate.pc = "mark"
    /\ SetRow(gate.msg, "sending", "steer", gate.run)
    /\ At("invoke")
    /\ UNCHANGED <<turnVars, paused, session, archived, live, task, cancelled, adm, stop, wakes, copies>>

\* invoke_provider_capability reads the live turn again.  A turn that takes
\* controls gets this one; one that is finishing refuses it.
Invoke ==
    /\ gate.pc = "invoke" /\ live # 0
    /\ \/ /\ task \in Interactive
          /\ Reaches(live)
       \/ /\ Winding
          /\ Answered("finished")
    /\ UNCHANGED <<durable, live, task, cancelled, adm, stop, wakes, copies>>

\* With no live turn the call opens the session under its gate and reaches a
\* provider that has nothing to steer.
InvokeIdle ==
    /\ gate.pc = "invoke" /\ live = 0 /\ AdmFree
    /\ \E a \in {"no_active_turn", "steer_rejected", "lost"} :
          Answered(a)
    /\ session' \in IF Closed THEN {session} ELSE {session, "idle"}
    /\ UNCHANGED <<rowVars, paused, turnVars, archived, live, task, cancelled, adm, stop, wakes, copies>>

\* The provider takes the message, refuses it, or its answer never arrives.
Control ==
    /\ gate.pc = "control"
    /\ \E a \in {"ok", "no_active_turn", "steer_rejected", "lost"}, heard \in BOOLEAN :
          /\ a = "ok" => heard
          /\ heard => a \in {"ok", "lost"} /\ task \in {"sent", "started", "active"}
          /\ Answered(a)
          /\ copies' = IF heard THEN [copies EXCEPT ![gate.msg] = @ + 1] ELSE copies
    /\ UNCHANGED <<durable, live, task, cancelled, adm, stop, wakes>>

\* What the answer does to the row: recorded under the turn it was claimed for,
\* kept for a normal turn, or failed / uncertain with the queue paused.
Conclude ==
    /\ gate.pc = "answered"
    /\ LET error == HostError(gate.answer)
           why   == SteeringRejection(error)
       IN  \/ /\ error = "ok"
              /\ SetRow(gate.msg, "gone", "turn", 0)
              /\ gate' = FreeGate
              /\ UNCHANGED paused
           \/ /\ error # "ok" /\ why.stale
              /\ SetRow(gate.msg, "pending", via[gate.msg], 0)
              /\ At("drain")
              /\ UNCHANGED paused
           \/ /\ error # "ok" /\ ~why.stale
              /\ FailQueued(gate.msg, ~why.rejected)
              /\ gate' = FreeGate
    /\ UNCHANGED <<Delivering, adm, copies>>

\* The refused message waits for the turn it was claimed for, ten seconds at most,
\* and then starts a turn of its own unless that turn was stopped.
Drained ==
    /\ gate.pc = "drain" /\ live # gate.run
    /\ IF gate.run \in cancelled THEN gate' = FreeGate ELSE At("start")
    /\ UNCHANGED <<durable, live, task, cancelled, adm, stop, wakes, copies>>

DrainTimeout ==
    /\ gate.pc = "drain" /\ live = gate.run
    /\ DeliveryError
    /\ UNCHANGED <<Delivering, adm, copies>>

----------------------------------------------------------------------------
(* start_queued and run_admitted, under the session gate.                  *)

\* start_queued looks at the pause flag once it has the session gate;
\* run_admitted refuses a session that has a live turn.
HeldBackMutant == FALSE
HeldBack       == ~Immediate /\ paused

StartAdmit ==
    /\ gate.pc = "start" /\ AdmFree
    /\ \/ /\ HeldBack
          /\ gate' = FreeGate
          /\ UNCHANGED <<rowVars, paused, adm>>
       \/ /\ ~HeldBack
          /\ live # 0
          /\ FailQueued(gate.msg, FALSE)
          /\ gate' = FreeGate
          /\ UNCHANGED adm
       \/ /\ ~HeldBack
          /\ live = 0
          /\ adm' = [by |-> "gate", pc |-> "open"]
          /\ UNCHANGED <<rowVars, paused, gate>>
    /\ UNCHANGED <<Delivering, copies>>

\* goal.resume takes the session gate only.
Goal ==
    /\ Offered("goal") /\ AdmFree /\ live = 0
    /\ Cardinality({t \in Turn : turns[t] # "none" /\ carries[t] = 0}) < MaxGoals
    /\ adm' = [by |-> "goal", pc |-> "open"]
    /\ UNCHANGED <<durable, live, task, cancelled, gate, stop, wakes, copies>>

\* An error inside run_admitted fails a queued row and leaves a direct message
\* with the user.
FreedMutant == [adm EXCEPT !.pc = "idle"]
Freed       == FreeAdm

Abort ==
    /\ adm' = Freed
    /\ IF adm.by = "gate" /\ gate.op # "send"
       THEN FailQueued(gate.msg, FALSE) ELSE UNCHANGED <<rowVars, paused>>
    /\ gate' = IF adm.by = "gate" THEN FreeGate ELSE gate

\* open_display: the runtime is still there, or is opened again, or cannot be; what
\* follows it up to the transaction may fail too.
Open ==
    /\ adm.pc = "open"
    /\ session' \in IF Closed THEN {session} ELSE {session, "idle"}
    /\ \/ /\ ~Closed
          /\ adm' = [adm EXCEPT !.pc = "commit"]
          /\ UNCHANGED <<rowVars, paused, gate>>
       \/ Abort
    /\ UNCHANGED <<turnVars, archived, live, task, cancelled, stop, wakes, copies>>

\* The transaction that creates the turn, claims its row and makes it live.
Claim ==
    /\ adm.pc = "commit" /\ session \in Startable
    /\ \E t \in Turn :
          /\ IsNextTurn(t)
          /\ turns' = [turns EXCEPT ![t] = "running"]
          /\ carries' = [carries EXCEPT ![t] = IF adm.by = "gate" THEN gate.msg ELSE 0]
          /\ delivery' = [delivery EXCEPT ![t] = "not_sent"]
          /\ live' = t
          /\ \/ /\ adm.by = "gate" /\ gate.op # "send"
                /\ SetRow(gate.msg, "sending", "turn", t)
                /\ UNCHANGED paused
             \/ /\ adm.by = "gate" /\ gate.op = "send"
                /\ SetRow(gate.msg, "gone", "direct", 0)
                /\ paused' = (paused /\ Queued # {})
             \/ /\ adm.by = "goal"
                /\ UNCHANGED <<rowVars, paused>>
    /\ session' = "running"
    /\ task' = "spawned"
    /\ gate' = IF adm.by = "gate" THEN FreeGate ELSE gate
    /\ adm' = FreeAdm
    /\ UNCHANGED <<archived, cancelled, stop, wakes, copies>>

NotIdle ==
    /\ adm.pc = "commit" /\ session \notin Startable
    /\ Abort
    /\ UNCHANGED <<turnVars, session, archived, live, task, cancelled, stop, wakes, copies>>

----------------------------------------------------------------------------
(* The spawned task of the live turn.                                      *)

Elsewhere == <<archived, cancelled, adm, stop>>

\* A turn that was stopped before its dispatch never reaches the broker.
TaskInvoke ==
    /\ task = "spawned"
    /\ task' = IF live \in cancelled THEN "failing" ELSE "invoked"
    /\ UNCHANGED <<durable, live, cancelled, gate, adm, stop, wakes, copies>>

\* The broker registers the interactive invocation and, before it writes the
\* request, commits that the turn may have been sent.
PossiblySentMutant == delivery
PossiblySent       == [delivery EXCEPT ![live] = "possibly_sent"]

MarkSent ==
    /\ task = "invoked"
    /\ task' = "marked"
    /\ delivery' = PossiblySent
    /\ UNCHANGED <<rowVars, turns, carries, paused, session, live, Elsewhere, gate, wakes, copies>>

\* The provider has the request.
Dispatch ==
    /\ task = "marked"
    /\ task' = "sent"
    /\ copies' = [m \in Msg |-> IF m = carries[live] THEN copies[m] + 1 ELSE copies[m]]
    /\ UNCHANGED <<durable, live, Elsewhere, gate, wakes>>

\* A turn event from the provider is projected, in the order it was emitted.
Event(turnStatus, sessionState) ==
    /\ turns[live] = "running"
    /\ turns' = [turns EXCEPT ![live] = turnStatus]
    /\ delivery' = [delivery EXCEPT ![live] = "responded"]
    /\ session' = sessionState
    /\ UNCHANGED <<rowVars, carries, paused, live, Elsewhere, gate, wakes, copies>>

\* turn.started; the observer acknowledges the queue after the projection committed.
NativeStart ==
    /\ task = "sent"
    /\ task' = "started"
    /\ Event("running", session)

\* The row of a queued turn that its provider has started.
AcknowledgedMutant == {m \in Msg : status[m] = "sending"}
Acknowledged       == {m \in Msg : status[m] = "sending" /\ via[m] = "turn" /\ bound[m] = live}

\* acknowledge_queued_turn
Acknowledge ==
    /\ task = "started"
    /\ task' = "active"
    /\ status' = [m \in Msg |-> IF m \in Acknowledged THEN "gone" ELSE status[m]]
    /\ bound' = [m \in Msg |-> IF m \in Acknowledged THEN 0 ELSE bound[m]]
    /\ UNCHANGED <<via, turnVars, paused, session, live, Elsewhere, gate, wakes, copies>>

\* An approval, a user input or a compaction is requested, and resolved.
Ask     == task = "active" /\ session = "running" /\ Event("running", "waiting") /\ UNCHANGED task
Resolve == task = "active" /\ session = "waiting" /\ Event("running", "running") /\ UNCHANGED task

\* turn.completed or turn.failed
Terminal ==
    /\ task \in {"sent", "active"}
    /\ task' = "ended"
    /\ \E s \in Terminals : Event(s, IF s = "completed" THEN "idle" ELSE s)

\* While a control is being answered the invocation does not return.
ControlPending == gate.pc = "control" /\ gate.to = live

\* The provider answers the call; its recovery state is saved or is invalid.
Reply ==
    /\ \/ task = "ended"
       \/ ~Truthful /\ task \in {"sent", "active"}
    /\ ~ControlPending
    /\ task' \in {"final", "failing"}
    /\ delivery' = [delivery EXCEPT ![live] = "responded"]
    /\ UNCHANGED <<rowVars, turns, carries, paused, session, live, Elsewhere, gate, wakes, copies>>

\* The invocation is refused, is cancelled, times out, or its runtime dies.
Fail ==
    /\ task \in {"invoked"} \union Interactive
    /\ ~ControlPending
    /\ task' = "failing"
    /\ UNCHANGED <<durable, live, cancelled, gate, adm, stop, wakes, copies>>

\* The host's own terminal event, ignored when the provider's is committed.
AlreadyEndedMutant == FALSE
AlreadyEnded       == turns[live] # "running"

HostTerminal ==
    /\ task = "failing"
    /\ task' = "final"
    /\ \/ /\ AlreadyEnded
          /\ UNCHANGED <<turns, session>>
       \/ /\ ~AlreadyEnded
          /\ \E s \in {"interrupted"} \union (IF live \in cancelled THEN {} ELSE {"failed"}) :
                turns' = [turns EXCEPT ![live] = s] /\ session' = s
    /\ UNCHANGED <<rowVars, carries, delivery, paused, live, Elsewhere, gate, wakes, copies>>

\* settle_queue_turn: a row still being sent was never acknowledged.
UnacknowledgedMutant == {m \in Msg : status[m] = "sending" /\ bound[m] = live /\ turns[live] # "completed"}
Unacknowledged       == {m \in Msg : status[m] = "sending" /\ bound[m] = live}

TurnPausesMutant == live \in cancelled \/ turns[live] # "completed"
TurnPauses       == live \in cancelled \/ turns[live] # "completed" \/ Unacknowledged # {}

SettleQueue ==
    /\ task = "final"
    /\ task' = "settled"
    /\ status' = [m \in Msg |-> IF m \in Unacknowledged THEN "uncertain" ELSE status[m]]
    /\ paused' = (paused \/ TurnPauses)
    /\ UNCHANGED <<via, bound, turnVars, session, live, Elsewhere, gate, wakes, copies>>

\* The turn leaves the live map, waiters see it finished, a dispatch is scheduled.
ReleaseMutant ==
    /\ task = "settled"
    /\ task' = "none"
    /\ live' = 0
    /\ UNCHANGED <<durable, Elsewhere, gate, wakes, copies>>

Release ==
    /\ task = "settled"
    /\ task' = "none"
    /\ live' = 0
    /\ wakes' = Scheduled(wakes)
    /\ UNCHANGED <<durable, Elsewhere, gate, copies>>

----------------------------------------------------------------------------
(* cancel_from_display, close_from_display, archive_from_display.          *)

Stopping == <<rowVars, turnVars, live, task, gate, wakes, copies>>

StopBegin(op) ==
    /\ Offered(op) /\ stop.op = "none"
    /\ op = "archive" => live = 0 /\ ~archived
    /\ stop' = [NoStop EXCEPT !.op = op, !.pc = "look"]
    /\ UNCHANGED <<Stopping, paused, session, archived, cancelled, adm>>

\* A live turn is cancelled without the session gate, an idle session under it.
StopLook ==
    /\ stop.pc = "look"
    /\ stop' = [stop EXCEPT !.pc = "read"]
    /\ \/ live # 0 /\ UNCHANGED adm
       \/ live = 0 /\ AdmFree /\ adm' = [by |-> "stop", pc |-> "idle"]
    /\ UNCHANGED <<Stopping, paused, session, archived, cancelled>>

\* cancel_admitted copies the live turn ...
StopRead ==
    /\ stop.pc \in {"read", "reread"}
    /\ stop' = [stop EXCEPT !.pc = IF @ = "read" THEN "flag" ELSE "reflag", !.run = live]
    /\ UNCHANGED <<Stopping, paused, session, archived, cancelled, adm>>

\* ... pauses the queue and flags the turn it copied.  The session gate is given
\* back between the two passes of close_from_display.
AfterCancelMutant == adm
AfterCancel       == IF adm.by = "stop" THEN FreeAdm ELSE adm

StopFlag ==
    /\ stop.pc \in {"flag", "reflag"}
    /\ paused' = TRUE
    /\ cancelled' = cancelled \union ({stop.run} \ {0})
    /\ \/ /\ stop.pc = "reflag"
          /\ stop' = [stop EXCEPT !.pc = "drain", !.run = 0]
          /\ UNCHANGED adm
       \/ /\ stop.pc = "flag"
          /\ stop' = IF stop.op = "stop" THEN NoStop ELSE [stop EXCEPT !.pc = "admit", !.run = 0]
          /\ adm' = AfterCancel
    /\ UNCHANGED <<Stopping, session, archived>>

\* close_from_display takes the session gate and cancels again: a queued send may
\* have started in between.
StopAdmit ==
    /\ stop.pc = "admit" /\ AdmFree
    /\ adm' = [by |-> "stop", pc |-> "idle"]
    /\ stop' = [stop EXCEPT !.pc = "reread"]
    /\ UNCHANGED <<Stopping, paused, session, archived, cancelled>>

\* The session closes once its turn is over and its runtime has stopped; either
\* may take too long.
QuietMutant == TRUE
Quiet       == live = 0

StopClose ==
    /\ stop.pc = "drain" /\ Quiet
    /\ adm' = FreeAdm
    /\ session' = "closed"
    /\ stop' = IF stop.op = "archive" THEN [stop EXCEPT !.pc = "archive"] ELSE NoStop
    /\ UNCHANGED <<Stopping, paused, archived, cancelled>>

StopTimeout ==
    /\ stop.pc = "drain"
    /\ adm' = FreeAdm
    /\ stop' = NoStop
    /\ UNCHANGED <<Stopping, paused, session, archived, cancelled>>

\* archive_from_display marks the closed session without a lock.
StopArchive ==
    /\ stop.pc = "archive"
    /\ archived' = TRUE
    /\ stop' = NoStop
    /\ UNCHANGED <<Stopping, paused, session, cancelled, adm>>

Unarchive ==
    /\ Offered("archive") /\ archived /\ AdmFree
    /\ archived' = FALSE
    /\ session' = "interrupted"
    /\ UNCHANGED <<Stopping, paused, cancelled, adm, stop>>

----------------------------------------------------------------------------
(* The application dies at any point; the next start recovers the database.*)

RecoverableMutant == ~archived /\ session = "running"
Recoverable       == ~archived /\ session \in {"running", "waiting"}

RecoveredMutant(state) == IF state = "sending" THEN "pending" ELSE state
Recovered(state)       == IF state = "sending" THEN "uncertain" ELSE state

Restart ==
    /\ Offered("restart")
    /\ turns' = [t \in Turn |-> IF Recoverable /\ turns[t] = "running"
                                THEN "interrupted" ELSE turns[t]]
    /\ session' = IF Recoverable THEN "interrupted" ELSE session
    /\ paused' = TRUE
    /\ status' = [m \in Msg |-> Recovered(status[m])]
    /\ live' = 0 /\ task' = "none" /\ cancelled' = {}
    /\ gate' = FreeGate /\ adm' = FreeAdm /\ stop' = NoStop /\ wakes' = 0
    /\ UNCHANGED <<via, bound, carries, delivery, archived, copies>>

----------------------------------------------------------------------------

\* Steps that wait for a lock, and the others of whoever holds one.
QueueLocks == SendAdmit \/ InvokeIdle \/ StartAdmit
QueueStep ==
    \/ ResumeApply \/ ReadRefused \/ ReadLive \/ Awaited \/ MarkSteer \/ Invoke
    \/ Control \/ Conclude \/ Drained

AdmissionStep == Open \/ Claim \/ NotIdle

TaskStep ==
    \/ TaskInvoke \/ MarkSent \/ Dispatch \/ NativeStart \/ Acknowledge
    \/ Terminal \/ Reply \/ HostTerminal \/ SettleQueue \/ Release

StopLocks == StopLook \/ StopAdmit
StopStep  == StopRead \/ StopFlag \/ StopClose \/ StopArchive

UserStep ==
    \/ \E m \in Msg : FollowUp(m) \/ Steer(m) \/ SendNow(m) \/ Send(m) \/ Remove(m)
    \/ Clear \/ ResumeCheck \/ Goal \/ Unarchive
    \/ \E op \in {"stop", "close", "archive"} : StopBegin(op)

Next ==
    \/ UserStep \/ Wake \/ QueueLocks \/ QueueStep \/ AdmissionStep \/ TaskStep
    \/ StopLocks \/ StopStep
    \/ DrainTimeout \/ Ask \/ Resolve \/ Fail \/ StopTimeout \/ Restart

Spec == Init /\ [][Next]_vars

\* Tokio's mutexes are first come, first served, spawned tasks run, and providers
\* answer and end their turns.
Fairness ==
    /\ SF_vars(Wake) /\ SF_vars(QueueLocks) /\ SF_vars(StopLocks)
    /\ WF_vars(QueueStep) /\ WF_vars(AdmissionStep) /\ WF_vars(TaskStep) /\ WF_vars(StopStep)

FairSpec == Spec /\ Fairness

----------------------------------------------------------------------------
(* What must hold.                                                         *)

GateOps  == {"none", "send", "schedule", "steer", "sendNow", "resume"}
GatePcs  == {"idle", "admit", "read", "await", "mark", "invoke", "control", "answered",
             "drain", "start", "apply"}
TaskPcs  == {"none", "spawned", "invoked", "started"} \union Interactive \union Settling
StopPcs  == {"idle", "look", "read", "flag", "admit", "reread", "reflag", "drain", "archive"}

GateSet  == [op : GateOps, pc : GatePcs, msg : Msg \union {0}, run : Turn \union {0},
             to : Turn \union {0}, answer : Answers]
AdmSet   == [by : {"none", "gate", "goal", "stop"}, pc : {"idle", "open", "commit"}]
StopSet  == [op : {"none", "stop", "close", "archive"}, pc : StopPcs, run : Turn \union {0}]

RowsOK ==
    /\ status \in [Msg -> MsgStates]
    /\ via \in [Msg -> {"turn", "steer", "direct"}]
    /\ bound \in [Msg -> Turn \union {0}]
    /\ copies \in [Msg -> Nat]

SessionOK ==
    /\ paused \in BOOLEAN /\ archived \in BOOLEAN
    /\ session \in Startable \union {"running", "waiting", "closed"}

TurnsOK ==
    /\ turns \in [Turn -> Terminals \union {"none", "running"}]
    /\ carries \in [Turn -> Msg \union {0}]
    /\ delivery \in [Turn -> {"not_sent", "possibly_sent", "responded"}]

\* The live map and the spawned task agree.
LiveOK == live \in Turn \union {0} /\ task \in TaskPcs /\ (live = 0 <=> task = "none")

\* Whoever is inside run_admitted for a row still holds the queue gate.
LocksOK ==
    /\ gate \in GateSet /\ adm \in AdmSet /\ stop \in StopSet
    /\ adm.by = "gate" => gate.pc = "start"

\* Every table column and every in-memory value is one the code uses, and the
\* parts of one handler's state agree.
TypeOK ==
    /\ RowsOK /\ SessionOK /\ TurnsOK /\ LiveOK /\ LocksOK
    /\ cancelled \in SUBSET Turn
    /\ wakes \in 0..MaxWakes

\* The provider is handed a message at most once, as a turn or as steering,
\* whatever is lost, retried, stopped or restarted in between.
AtMostOnce == \A m \in Msg : copies[m] <= 1

\* Why: a message that can still be delivered has not been handed over, ...
Unheard == \A m \in Msg : status[m] \in Deliverable \union {"unsent"} => copies[m] = 0

\* ... the row of a turn never becomes deliverable again, ...
Carried ==
    \A t \in Turn : carries[t] # 0 => status[carries[t]] \in {"sending", "uncertain", "gone"}

\* ... a turn that has not been dispatched carries an unheard message, ...
Undispatched ==
    live # 0 /\ task \in BeforeSend /\ carries[live] # 0 => copies[carries[live]] = 0

\* ... a message that is being steered is carried by no turn and is claimed, as
\* steering, until the answer is concluded, ...
SteerHolds ==
    gate.pc \in Steering =>
        /\ gate.op # "send"
        /\ status[gate.msg] \in {"sending", "uncertain"} /\ via[gate.msg] = "steer"
        /\ \A t \in Turn : carries[t] # gate.msg
        /\ (gate.pc = "answered" => gate.answer \notin {"ok", "lost"}) => copies[gate.msg] = 0

\* ... and an operation on its way to start a turn still has its message.
StartHolds ==
    /\ gate.pc \notin {"idle", "apply"} => gate.msg \in Msg
    /\ gate.pc = "admit" => gate.op = "send"
    /\ gate.pc \in {"read", "await", "mark", "drain"} => gate.op # "send"
    /\ gate.pc \in {"admit", "start"} /\ gate.op = "send" => status[gate.msg] = "unsent"
    /\ (\/ gate.pc = "start" /\ gate.op # "send"
        \/ gate.pc = "read" /\ gate.op = "steer"
        \/ gate.pc \in {"await", "mark", "drain"}) => status[gate.msg] \in Deliverable

HandedOnce == AtMostOnce /\ Unheard /\ Carried /\ Undispatched /\ SteerHolds /\ StartHolds

\* A claimed row always has somebody who will resolve it: the live turn it was
\* claimed for, or the operation that still holds the queue gate.  Nobody else
\* may touch it, so a row without an owner could never be removed or resumed.
ClaimsOwned ==
    \A m \in Msg : status[m] = "sending" =>
        \/ via[m] = "turn" /\ live # 0 /\ bound[m] = live /\ task # "settled"
        \/ via[m] = "steer" /\ gate.msg = m /\ gate.pc \in Steering

\* A claimed row leaves the queue only after the provider has its message.
OnlyHeardLeaves ==
    [][\A m \in Msg : status[m] = "sending" /\ status'[m] = "gone" => copies[m] > 0]_vars

\* Whoever sees a message whose outcome is unknown decides: nothing but the
\* delivery still under way moves the row except its removal.
UncertainKept ==
    [][\A m \in Msg : status[m] = "uncertain" /\ gate.msg # m => status'[m] \in {"uncertain", "gone"}]_vars

\* While a row's outcome is unknown the queue does not run.
UncertainPauses == (\E m \in Msg : status[m] = "uncertain") => paused

\* No wake-up is lost: when a message waits in an open queue that is not paused
\* and no turn, start or queue operation is under way, a dispatch is scheduled.
NoLostWake ==
    (/\ \E m \in Msg : status[m] = "pending"
     /\ ~paused /\ ~archived /\ session \in Startable
     /\ live = 0 /\ adm.pc # "commit" /\ GateFree) => wakes > 0

\* Messages are handed over in the order of their acceptance: none passes one
\* that still waits.
FifoDispatch ==
    [][\A m, n \in Msg : n < m /\ copies'[m] > copies[m] => status[n] # "pending"]_vars

\* An automatic dispatch never starts a turn in a queue that is paused.
AutoRespectsPause ==
    [][Claim /\ adm.by = "gate" /\ gate.op = "schedule" => ~paused]_vars

\* session_rebuild.rs gives the text of a failed turn back to the composer.
Restorable(t) ==
    /\ Queued = {} /\ turns[t] = "failed" /\ delivery[t] = "not_sent"
    /\ \A u \in Turn : u # t => turns[u] = "none"

\* A message that is given back as a draft has never reached the provider.
DraftRestoredUnheard ==
    \A t \in Turn : Restorable(t) /\ carries[t] # 0 => copies[carries[t]] = 0

\* A turn has one outcome: neither a late failure of its invocation nor a
\* restart rewrites it.
OutcomeFinal ==
    [][\A t \in Turn : turns[t] \in Terminals => turns'[t] = turns[t]]_vars

\* No turn stays recorded as running once nothing runs it.
NoZombieTurn == \A t \in Turn : turns[t] = "running" => live = t

\* A closed session runs nothing and nothing is being started in it.
ClosedQuiet == session = "closed" => live = 0 /\ adm.pc # "commit"

\* A steering message is recorded under the turn that received it.
SteerAttributed ==
    gate.pc = "answered" /\ gate.answer = "ok" => gate.to = gate.run

\* A steering message the provider explicitly refused is not left as unknown.
RefusalIsDefinite ==
    [][(gate.pc = "answered" /\ gate.answer \in {"no_active_turn", "steer_rejected"} /\ gate'.pc # "answered")
         => status'[gate.msg] # "uncertain"]_vars

\* The whole of it implements what a session promises about every message.
FateOf(m) ==
    CASE status[m] = "unsent"                -> "draft"
      [] status[m] \in {"pending", "failed"} -> "waiting"
      [] status[m] = "sending"               -> "claimed"
      [] status[m] = "uncertain"             -> "unknown"
      [] OTHER                               -> IF via[m] = "direct" THEN "direct" ELSE "gone"

Fate == INSTANCE MessageFate WITH fate <- [m \in Msg |-> FateOf(m)]

KeepsPromise == Fate!Spec

\* Stopping, closing and archiving end.
StopsEnd == []<>(stop.op = "none")

\* The two gates never deadlock: a queue operation ends.
OperationsEnd == []<>(gate.pc = "idle")

\* A message that waits in an open, unpaused queue is eventually taken up.
EventuallyDispatched ==
    \A m \in Msg : []<>~(status[m] = "pending" /\ ~paused /\ ~Closed)
=============================================================================
