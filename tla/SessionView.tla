----------------------------- MODULE SessionView -----------------------------
(***************************************************************************)
(* What the window shows of one session (src/lib/app): the state in its    *)
(* list, its approval cards and its activity, and how they follow the      *)
(* host's record.                                                          *)
(*                                                                         *)
(* The window learns of the record in three ways.  Events tell every change*)
(* a turn makes, in the order of their commits; a list refresh and the     *)
(* receipts of a send and of a rename carry the row as it was when it was  *)
(* read; the receipt of a stop carries nothing and is taken for an end.    *)
(* Events and receipts reach the window by ways of their own: neither waits*)
(* for the other, and an event may be delivered again.                     *)
(*                                                                         *)
(* A definition whose name ends in Mutant is a plausible slip in the       *)
(* definition that follows it; no action uses it.                          *)
(***************************************************************************)
EXTENDS Naturals, Sequences, FiniteSets

CONSTANTS
    MaxSends,   \* turns of the session
    MaxGens,    \* runtime generations
    MaxExtras,  \* messages, approvals, compactions and reopenings the host tells of
    MaxOps,     \* commands of the user under way at a time
    MaxLag,     \* events on their way to the window
    MaxPast,    \* how many of the events that have arrived may arrive once more
    Outcomes    \* how turns end, of Finals

VARIABLES
    \* the host
    row,        \* sessions.state
    turns,      \* how many turns there have been; the last one is the current
    gen,        \* runtime generation
    paused,     \* the queue does not start the next turn
    begun,      \* the current turn: "no" event yet, "begun" or "over"
    seq,        \* the last event's sequence in its generation
    clock,      \* the last event's time
    sent,       \* the events on their way to the window
    extras,     \* how many events told of anything but a start or an end
    open,       \* the provider's requests that wait for the user
    compacting, \* the generation of the compaction whose end was not told, 0 for none
    \* the window
    past,       \* the last events that have arrived
    cursor,     \* the gate's cursor
    retired,    \* the generations it has left
    shown,      \* the state of the session in the list
    cards,      \* pendingApprovals, by request
    active,     \* activeAgentSessionIds
    busy,
    list,       \* the latest list request; clean: the session's object is the baseline's
    op,         \* the window's other requests, by command
    \* what has become of the window's knowledge
    ended,      \* the last turn whose end it was told
    late,       \* it shows a state that a receipt told it too late
    lost        \* the receipt of a stop took the cards of a later turn away

rowvars  == <<row, turns, gen, paused, begun, seq, clock, sent, extras, open, compacting>>
viewvars == <<past, cursor, retired, shown, cards, active, ended, late, lost>>
vars     == <<rowvars, viewvars, busy, list, op>>

Ended    == {"idle", "interrupted", "failed"}
States   == Ended \union {"running", "waiting", "compacting"}
Finals   == {"completed", "interrupted", "failed"}
Commands == {"send", "stop", "answer", "rename"}
NoList   == [at |-> "none", value |-> "idle", clean |-> FALSE]
NoOp     == [at |-> "none", value |-> "idle", fresh |-> FALSE, about |-> 0]

\* There is a generation and a past, and turns end in one of the ways turns end.
ViewAssumption ==
    /\ {MaxSends, MaxGens, MaxExtras, MaxOps, MaxLag, MaxPast} \subseteq Nat
    /\ MaxPast > 0 /\ MaxGens > 0
    /\ Outcomes \subseteq Finals

\* A further command may be given.
MayAsk == Cardinality({c \in Commands : op[c] # NoOp}) < MaxOps

\* isSessionRunning
Running(state) == state \notin Ended

Init ==
    /\ row = "idle" /\ turns = 0 /\ gen = 1 /\ paused = FALSE
    /\ begun = "over" /\ seq = 0 /\ clock = 0 /\ sent = <<>> /\ extras = 0
    /\ open = {} /\ compacting = 0
    /\ past = <<>> /\ cursor = [gen |-> 0, seq |-> 0, time |-> 0] /\ retired = {}
    /\ shown = "idle" /\ cards = {} /\ active = FALSE /\ busy = FALSE
    /\ list = NoList /\ op = [c \in Commands |-> NoOp]
    /\ ended = 0 /\ late = FALSE /\ lost = FALSE

----------------------------------------------------------------------------
(* The host and the provider.                                              *)

\* project_event: an event gets its sequence, is committed with the state it brings and
\* sent to the window.  It bears the turn under way, or none (0), and the request it is
\* about, if any.
Tell(kind, ask, generation, number) ==
    /\ Len(sent) < MaxLag
    /\ seq' = number /\ clock' = clock + 1
    /\ sent' = Append(sent, [gen |-> generation, seq |-> number, time |-> clock', kind |-> kind,
                             turn |-> IF begun = "over" THEN 0 ELSE turns, ask |-> ask])
Told(kind, ask) == Tell(kind, ask, gen, seq + 1)
Silent == UNCHANGED <<seq, clock, sent>>

\* run_admitted: the row is running before anything is told of the turn.
StartTurn == row' = "running" /\ turns' = turns + 1 /\ begun' = "no" /\ Silent

\* start_queued: the queue hands over its next message.
Dispatch ==
    /\ row \in Ended /\ ~paused /\ turns < MaxSends
    /\ StartTurn
    /\ UNCHANGED <<gen, paused, extras, open, compacting, viewvars, busy, list, op>>

\* A session that is opened again, in a new generation, is idle; nothing tells of it but
\* the provider's first event.
Reopen ==
    /\ row \in Ended /\ gen < MaxGens /\ extras < MaxExtras
    /\ gen' = gen + 1 /\ row' = "idle" /\ extras' = extras + 1
    /\ Tell("opened", 0, gen', 1)
    /\ UNCHANGED <<turns, paused, begun, open, compacting, viewvars, busy, list, op>>

TurnStarted ==
    /\ begun = "no" /\ begun' = "begun"
    /\ Told("started", 0)
    /\ UNCHANGED <<row, turns, gen, paused, extras, open, compacting, viewvars, busy, list, op>>

\* message.completed
Message ==
    /\ begun = "begun"
    /\ extras < MaxExtras /\ extras' = extras + 1
    /\ Told("message", 0)
    /\ UNCHANGED <<row, turns, gen, paused, begun, open, compacting, viewvars, busy, list, op>>

\* approval.requested
Asked ==
    /\ begun = "begun"
    /\ extras < MaxExtras /\ extras' = extras + 1
    /\ Told("asked", extras')
    /\ open' = open \union {extras'} /\ row' = "waiting"
    /\ UNCHANGED <<turns, gen, paused, begun, compacting, viewvars, busy, list, op>>

\* compaction.started, during a turn or between turns: without a turn it changes no state.
Compacting ==
    /\ begun # "no" /\ compacting # gen
    /\ extras < MaxExtras /\ extras' = extras + 1
    /\ Told("compacting", 0)
    /\ compacting' = gen
    /\ row' = IF begun = "over" THEN row ELSE "compacting"
    /\ UNCHANGED <<turns, gen, paused, begun, open, viewvars, busy, list, op>>

\* compaction.completed, perhaps of another turn than the start.
Compacted ==
    /\ compacting = gen
    /\ Told("compacted", 0)
    /\ compacting' = 0
    /\ row' = IF begun = "over" THEN row ELSE "running"
    /\ UNCHANGED <<turns, gen, paused, begun, extras, open, viewvars, busy, list, op>>

\* approval.resolved: the row is running, whatever else waits.
Resolve(ask) ==
    /\ ask \in open /\ open' = open \ {ask}
    /\ Told("resolved", ask)
    /\ row' = "running"

\* The provider has withdrawn its request.
Withdrawn ==
    /\ \E ask \in open : Resolve(ask)
    /\ UNCHANGED <<turns, gen, paused, begun, extras, compacting, viewvars, busy, list, op>>

\* turn.completed and turn.failed, from the provider or, when it has crashed, the host;
\* no request outlives its turn.
EndTurn(status) ==
    /\ begun # "over" /\ begun' = "over"
    /\ Told(status, 0)
    /\ row' = IF status = "completed" THEN "idle" ELSE status
    /\ paused' = (paused \/ status # "completed")
    /\ open' = {}
    /\ UNCHANGED <<turns, gen, extras, compacting, viewvars, busy, list, op>>

\* list_sessions reads the row.
ListRead ==
    /\ list.at = "asked"
    /\ list' = [list EXCEPT !.at = "read", !.value = row]
    /\ UNCHANGED <<rowvars, viewvars, busy, op>>

\* send_agent_prompt is admitted, or refused.
AdmitSend ==
    /\ op["send"].at = "asked"
    /\ \/ /\ row \in Ended /\ turns < MaxSends
          /\ StartTurn /\ paused' = FALSE
          /\ op' = [op EXCEPT !["send"].at = "admitted"]
       \/ /\ op' = [op EXCEPT !["send"].at = "refused"]
          /\ Silent /\ UNCHANGED <<row, turns, begun, paused>>
    /\ UNCHANGED <<gen, extras, open, compacting, viewvars, busy, list>>

\* send_agent_prompt, once the message is admitted, and rename_session read the row.
ReadRow(c) ==
    /\ op[c].at = IF c = "send" THEN "admitted" ELSE "asked"
    /\ op' = [op EXCEPT ![c].at = "done", ![c].value = row]
    /\ UNCHANGED <<rowvars, viewvars, busy, list>>

\* cancel_agent_turn: the queue is paused and the provider asked to end the turn.
AcceptStop ==
    /\ op["stop"].at = "asked"
    /\ op' = [op EXCEPT !["stop"].at = "done"]
    /\ paused' = TRUE
    /\ Silent
    /\ UNCHANGED <<row, turns, gen, begun, extras, open, compacting, viewvars, busy, list>>

\* resolve_agent_approval: the provider takes the answer and tells so, or refuses it.
AcceptAnswer ==
    /\ op["answer"].at = "asked"
    /\ \/ /\ Resolve(op["answer"].about)
          /\ op' = [op EXCEPT !["answer"].at = "done"]
       \/ /\ op["answer"].about \notin open
          /\ op' = [op EXCEPT !["answer"].at = "refused"]
          /\ Silent /\ UNCHANGED <<row, open>>
    /\ UNCHANGED <<turns, gen, paused, begun, extras, compacting, viewvars, busy, list>>

----------------------------------------------------------------------------
(* The window: events.                                                     *)

\* createAgentEventGate.accept: within a generation sequences grow, and a generation that
\* was left, or is older, is not heard any more.
AcceptsMutant(e) ==
    cursor.gen # e.gen => e.gen \notin retired /\ e.time >= cursor.time
Accepts(e) ==
    IF cursor.gen = e.gen THEN e.seq > cursor.seq
    ELSE e.gen \notin retired /\ e.time >= cursor.time

\* The state an event brings; an end of the compaction brings none.
StateOfMutant(kind) ==
    CASE kind \in {"started", "resolved"} -> "running"
      [] kind = "asked"                   -> "waiting"
      [] kind \in Finals                  -> kind
      [] OTHER                            -> "none"
StateOf(kind) ==
    CASE kind \in {"started", "resolved"} -> "running"
      [] kind = "asked"                   -> "waiting"
      [] kind = "completed"               -> "idle"
      [] kind \in {"interrupted", "failed"} -> kind
      [] OTHER                            -> "none"

\* refreshSessions up to its await; the request before it is not the latest any more.
AskList == [at |-> "asked", value |-> "idle", clean |-> TRUE]

\* The list as a change of the session's object leaves it.
Changed == [list EXCEPT !.clean = FALSE]

\* handleAgentEvent: the state, the activity and the cards first, then a refresh.
HandleEventMutant(e) ==
    /\ shown' = IF StateOf(e.kind) = "none" THEN shown ELSE StateOf(e.kind)
    /\ late' = (late /\ StateOf(e.kind) = "none")
    /\ lost' = (lost /\ e.kind \notin Finals)
    /\ op' = IF StateOf(e.kind) = "none" THEN op ELSE [op EXCEPT !["send"].fresh = FALSE]
    /\ active' = CASE e.kind \in {"started", "asked", "resolved", "compacting"} -> TRUE
                   [] e.kind = "compacted" -> e.turn # 0
                   [] e.kind \in Finals    -> FALSE
                   [] OTHER                -> active
    /\ cards' = CASE e.kind = "asked"    -> cards \union {e.ask}
                  [] e.kind = "resolved" -> cards \ {e.ask}
                  [] OTHER               -> cards
    /\ ended' = IF e.kind \in Finals /\ e.turn > ended THEN e.turn ELSE ended
    /\ list' = CASE e.kind \in Finals \union {"message"} -> AskList
                 [] e.kind \in {"started", "resolved", "asked"} -> Changed
                 [] OTHER -> list
HandleEvent(e) ==
    /\ shown' = IF StateOf(e.kind) = "none" THEN shown ELSE StateOf(e.kind)
    /\ late' = (late /\ StateOf(e.kind) = "none")
    /\ lost' = (lost /\ e.kind \notin Finals)
    /\ op' = IF StateOf(e.kind) = "none" THEN op ELSE [op EXCEPT !["send"].fresh = FALSE]
    /\ active' = CASE e.kind \in {"started", "asked", "resolved", "compacting"} -> TRUE
                   [] e.kind = "compacted" -> e.turn # 0
                   [] e.kind \in Finals    -> FALSE
                   [] OTHER                -> active
    /\ cards' = CASE e.kind = "asked"    -> cards \union {e.ask}
                  [] e.kind = "resolved" -> cards \ {e.ask}
                  [] e.kind \in Finals   -> {}
                  [] OTHER               -> cards
    /\ ended' = IF e.kind \in Finals /\ e.turn > ended THEN e.turn ELSE ended
    /\ list' = CASE e.kind \in Finals \union {"message"} -> AskList
                 [] e.kind \in {"started", "resolved", "asked"} -> Changed
                 [] OTHER -> list

\* handleAgentEvent of App.svelte.
Handle(e) ==
    IF Accepts(e)
    THEN /\ cursor' = [gen |-> e.gen, seq |-> e.seq, time |-> e.time]
         /\ retired' = IF cursor.gen \in {0, e.gen} THEN retired ELSE retired \union {cursor.gen}
         /\ HandleEvent(e)
    ELSE UNCHANGED <<cursor, retired, shown, cards, active, ended, late, lost, list, op>>

Arrives ==
    /\ sent # <<>> /\ sent' = Tail(sent)
    /\ past' = IF Len(past) < MaxPast THEN Append(past, Head(sent))
               ELSE Append(Tail(past), Head(sent))
    /\ Handle(Head(sent))
    /\ UNCHANGED <<row, turns, gen, paused, begun, seq, clock, extras, open, compacting, busy>>

ArrivesAgain(i) ==
    /\ Handle(past[i])
    /\ UNCHANGED <<rowvars, past, busy>>

----------------------------------------------------------------------------
(* The window: refreshes and the user's commands.                          *)

Refresh ==
    /\ list.at = "none" /\ list' = AskList
    /\ UNCHANGED <<rowvars, viewvars, busy, op>>

\* reconcileSessionRefresh: what has changed in the window since the request wins.
ReconcileMutant(mine, theirs, clean) == theirs
Reconcile(mine, theirs, clean) == IF clean THEN theirs ELSE mine

\* refreshSessions after its await.
ListArrives ==
    /\ list.at = "read" /\ list' = NoList
    /\ shown' = Reconcile(shown, list.value, list.clean)
    /\ late' = (late /\ ~list.clean)
    /\ UNCHANGED <<rowvars, past, cursor, retired, cards, active, busy, op, ended, lost>>

\* sendPrompt up to its first await: one submission at a time.
Submit ==
    /\ ~busy /\ ~Running(shown) /\ op["send"] = NoOp /\ MayAsk
    /\ op' = [op EXCEPT !["send"].at = "checking"]
    /\ UNCHANGED <<rowvars, viewvars, busy, list>>

\* sendPromptOnce once the attachments are valid; the revision is that of the request.
Send ==
    /\ op["send"].at = "checking"
    /\ busy' = TRUE
    /\ op' = [op EXCEPT !["send"] = [NoOp EXCEPT !.at = "asked", !.fresh = TRUE]]
    /\ UNCHANGED <<rowvars, viewvars, list>>

\* abortPrompt, resolveApproval and saveSessionRename up to their await.
Ask(c) ==
    /\ op[c] = NoOp /\ MayAsk
    /\ CASE c = "stop"   -> ~busy /\ Running(shown)
         [] c = "answer" -> ~busy /\ cards # {}
         [] c = "rename" -> TRUE
    /\ busy' = TRUE
    /\ \E n \in IF c = "answer" THEN cards ELSE {turns} :
         op' = [op EXCEPT ![c] = [NoOp EXCEPT !.at = "asked", !.about = n]]
    /\ UNCHANGED <<rowvars, viewvars, list>>

\* What the receipt of a send brings: the row as it was read, unless an event has brought
\* a state since the request.
ReceiptMutant(receipt) == receipt.value
Receipt(receipt) == IF receipt.fresh THEN receipt.value ELSE shown

\* sendPromptOnce after its await, up to the reading of the timeline.
SendArrives ==
    /\ op["send"].at = "done"
    /\ shown' = Receipt(op["send"])
    /\ late' = (late /\ ~op["send"].fresh)
    /\ list' = Changed
    /\ op' = [op EXCEPT !["send"] = [NoOp EXCEPT !.at = "reading"]]
    /\ UNCHANGED <<rowvars, past, cursor, retired, cards, active, busy, ended, lost>>

\* abortPrompt after its await: the session is shown interrupted, whatever turn it is.
StopArrives ==
    /\ op["stop"].at = "done"
    /\ shown' = "interrupted" /\ cards' = {}
    /\ late' = (turns > op["stop"].about)
    /\ lost' = (lost \/ turns > op["stop"].about)
    /\ list' = Changed
    /\ op' = [op EXCEPT !["stop"].at = "reading"]
    /\ UNCHANGED <<rowvars, past, cursor, retired, active, busy, ended>>

\* saveSessionRename after its await: the row as it was read replaces what is shown.
RenameArrives ==
    /\ op["rename"].at = "done"
    /\ shown' = op["rename"].value
    /\ late' = (op["rename"].value # row)
    /\ list' = Changed /\ busy' = FALSE
    /\ op' = [op EXCEPT !["rename"] = NoOp]
    /\ UNCHANGED <<rowvars, past, cursor, retired, cards, active, ended, lost>>

\* resolveApproval after its await.
AnswerArrives ==
    /\ op["answer"].at = "done"
    /\ cards' = cards \ {op["answer"].about} /\ busy' = FALSE
    /\ op' = [op EXCEPT !["answer"] = NoOp]
    /\ UNCHANGED <<rowvars, past, cursor, retired, shown, active, ended, late, lost, list>>

\* The finally of a command: its timeline has been read, or it was refused.
Finish(c) ==
    /\ op[c].at \in {"reading", "refused"}
    /\ busy' = FALSE
    /\ op' = [op EXCEPT ![c] = NoOp]
    /\ UNCHANGED <<rowvars, viewvars, list>>

Next ==
    \/ Dispatch
    \/ Reopen
    \/ TurnStarted
    \/ Message
    \/ Asked
    \/ Compacting
    \/ Compacted
    \/ Withdrawn
    \/ \E status \in Outcomes : EndTurn(status)
    \/ ListRead
    \/ AdmitSend
    \/ \E c \in {"send", "rename"} : ReadRow(c)
    \/ AcceptStop
    \/ AcceptAnswer
    \/ Arrives
    \/ \E i \in 1..Len(past) : ArrivesAgain(i)
    \/ Refresh
    \/ ListArrives
    \/ Submit
    \/ Send
    \/ \E c \in Commands \ {"send"} : Ask(c)
    \/ SendArrives
    \/ StopArrives
    \/ RenameArrives
    \/ AnswerArrives
    \/ \E c \in {"send", "stop", "answer"} : Finish(c)

Spec == Init /\ [][Next]_vars

----------------------------------------------------------------------------
(* Properties.                                                             *)

Kinds == Finals \union {"opened", "started", "asked", "resolved", "message", "compacting", "compacted"}
Event == [gen : 1..MaxGens, seq : 1..clock, time : 1..clock, kind : Kinds, turn : 0..MaxSends,
          ask : 0..MaxExtras]

HostTypes ==
    /\ row \in States /\ begun \in {"no", "begun", "over"} /\ paused \in BOOLEAN
    /\ turns \in 0..MaxSends /\ extras \in 0..MaxExtras /\ seq \in Nat /\ clock \in Nat
    /\ gen \in 1..MaxGens /\ compacting \in 0..MaxGens /\ open \subseteq 1..MaxExtras
EventTypes ==
    /\ sent \in Seq(Event) /\ Len(sent) <= MaxLag
    /\ past \in Seq(Event) /\ Len(past) <= MaxPast
    /\ cursor \in [gen : 0..MaxGens, seq : 0..clock, time : 0..clock] /\ retired \subseteq 1..MaxGens
WindowTypes ==
    /\ shown \in States /\ cards \subseteq 0..MaxExtras /\ ended \in 0..MaxSends
    /\ {active, busy, late, lost} \subseteq BOOLEAN
    /\ list \in [at : {"none", "asked", "read"}, value : States, clean : BOOLEAN]
    /\ op \in [Commands -> [at : {"none", "checking", "asked", "admitted", "refused", "done",
                                  "reading"},
                            value : States, fresh : BOOLEAN, about : Nat]]
TypeOK == HostTypes /\ EventTypes /\ WindowTypes

\* Everything sent has arrived and everything asked was answered, the current turn has
\* been announced and none goes on that was stopped.
Settled ==
    /\ sent = <<>> /\ list.at = "none" /\ \A c \in Commands : op[c] = NoOp
    /\ Running(row) => begun # "no" /\ ~paused

\* Once settled, the window shows a session running exactly if it is - unless a receipt
\* of a stop or a rename came too late.
Converged == Settled => late \/ Running(shown) = Running(row)

\* Once settled, the requests that wait for the user have their cards and there are no
\* others, and nothing is shown at work but a turn or a compaction whose end was not told.
CardsMatch ==
    Settled => /\ cards \subseteq open
               /\ cards = open \/ lost
               /\ active => Running(row) \/ compacting # 0

\* A turn whose end the window has been told never runs again for it: no event delivered
\* twice, no list and no receipt, but that of a rename, brings it back.
EndStays ==
    [][~Running(shown) /\ Running(shown') =>
         turns > ended \/ (op["rename"].at = "done" /\ op'["rename"] = NoOp)]_vars

\* The same without the exception.
NoRevival == [][~Running(shown) /\ Running(shown') => turns > ended]_vars
=============================================================================
