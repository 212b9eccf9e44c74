----------------------------- MODULE AcpSession -----------------------------
(***************************************************************************)
(* One worker process that serves an ACP agent (packages/acp-adapter): the *)
(* session (session.mjs), its JSON-RPC wire to the agent process           *)
(* (transport.mjs) and the one invocation the worker runs at a time        *)
(* (worker.mjs).                                                           *)
(*                                                                         *)
(* JavaScript runs to completion between awaits, so an action is what runs *)
(* between two of them.  An answer only settles a promise; its handler runs*)
(* when the call stack is empty, and until then only further lines of the  *)
(* chunk that carried the answer are handled.  Hence Lines (what the agent *)
(* writes) may come between an answer and its handler, and Quiet (timers,  *)
(* exits and the host's requests) may not.                                 *)
(*                                                                         *)
(* Turns are numbered in the order in which the host starts them, 0 stands *)
(* for none.  A definition whose name ends in Mutant is a plausible slip in*)
(* the definition that follows it; no action uses it.                      *)
(***************************************************************************)
EXTENDS Naturals, FiniteSets

CONSTANTS
    MaxTurns,       \* turns the host starts
    Requests,       \* requests the agent makes of the user, in their order
    Modes,          \* native modes of the agent
    Writable,       \* those in which it may write
    NoMode,
    PendingLimit,   \* requests that may wait for the user (32 in the code)
    LimitInGrace    \* a prompt's 12 hours may end during the grace of a cancel

ASSUME AcpAssumption ==
    /\ MaxTurns \in Nat /\ PendingLimit \in Nat \ {0}
    /\ IsFiniteSet(Requests) /\ Requests \subseteq Nat
    /\ Writable \subseteq Modes /\ NoMode \notin Modes
    /\ {"no", "plain"} \cap Modes = {}     \* see Entries
    /\ LimitInGrace \in BOOLEAN

Turn == 1..MaxTurns

VARIABLES
    phase,      \* AcpSession.phase
    job,        \* the invocation that owns the worker
    at,         \* the await it is suspended in
    answer,     \* what the awaited promise was settled with
    plan,       \* turn and write authority of the prompt invocation
    wire,       \* the transport and the agent process behind it
    modeId,     \* the mode the host committed
    nativeMode, \* the mode the session believes the agent is in
    expected,   \* expectedMode: a switch the user has just approved
    violated,   \* modeViolation
    turnId,
    pending,    \* pendingInteractions: the mode each entry offers to switch to
    grace,      \* the cancel timer runs
    \* the agent
    prompts,    \* turns whose prompt it works on
    orphans,    \* those a process works on that the session does not read any more
    request,    \* what became of each of its requests
    \* the host's record
    started,    \* turns announced by turn.started
    ends,       \* the status of each turn's last event
    \* and of the current turn, or the last:
    strayed,    \* the turn, if the agent left the committed mode on its own
    cancelled,  \* the turn, if the user cancelled it
    consent     \* modes the user has switched to in the current turn

session == <<phase, modeId, nativeMode, expected, violated, turnId, pending, grace>>
agent   == <<prompts, orphans, request>>
host    == <<started, ends, strayed, cancelled, consent>>
vars    == <<session, job, at, answer, plan, wire, agent, host>>

Phases  == {"stopped", "initializing", "opening", "loading", "ready",
            "prompting", "cancelling", "configuring", "failed"}
Opening == {"initialize", "authenticate", "create", "mode", "settings"}
Calls   == Opening \union {"restore", "setting"}
Closing == {"openClose", "promptClose", "close"}
Stops   == {"end", "stopped", "odd"}
Statuses == {"completed", "interrupted", "failed"}
NoPlan  == [turn |-> 0, write |-> FALSE]

\* An entry that offers no switch is "plain"; a request without an entry is "no".
Entries     == {"no", "plain"} \union Modes
NonePending == [r \in Requests |-> "no"]
Waiting     == {r \in Requests : pending[r] # "no"}

Init ==
    /\ phase = "stopped" /\ modeId = NoMode /\ nativeMode = NoMode
    /\ expected = NoMode /\ violated = FALSE /\ turnId = 0
    /\ pending = NonePending /\ grace = FALSE
    /\ job = "none" /\ at = "none" /\ answer = "none" /\ plan = NoPlan
    /\ wire = "none" /\ prompts = {} /\ orphans = {} /\ request = [r \in Requests |-> "unasked"]
    /\ started = {} /\ ends = [t \in Turn |-> "none"]
    /\ strayed = {} /\ cancelled = {} /\ consent = {}

----------------------------------------------------------------------------
(* What several handlers share.                                            *)

\* No promise is settled whose handler has yet to run.
Quiet == answer \in {"none", "waiting"}

\* A line of the agent can be handled: the wire is up, and the last promise was
\* settled, if at all, by a line of the same chunk.
Lines == wire = "open" /\ answer \in {"none", "waiting", "ok", "error"} \union Stops

\* transport.request: a wire that is down refuses the frame at once.
CallAgent(call) ==
    /\ at' = call
    /\ answer' = IF wire = "open" THEN "waiting" ELSE "closed"

\* The worker's finally: the next invocation may come.
EndJob == job' = "none" /\ at' = "none" /\ answer' = "none" /\ plan' = NoPlan

\* transport.respond to each request of S.
Reply(S) ==
    request' = [r \in Requests |->
                  IF r \notin S THEN request[r]
                  ELSE CASE request[r] \in {"asked", "late"} -> "answered"
                         [] request[r] = "answered"        -> "twice"
                         [] OTHER                          -> request[r]]

\* An agent that ends, or ends its prompt, waits for no reply any more; one whose wire
\* is down gets none.
Forgotten ==
    [r \in Requests |-> IF request[r] \in {"asked", "late"} THEN "dropped" ELSE request[r]]

\* The host receives a turn's last event.
ReportMutant(t, status) ==
    ends' = [ends EXCEPT ![t] = IF phase = "failed" THEN @ ELSE IF @ = "none" THEN status ELSE "twice"]
Report(t, status) ==
    ends' = [ends EXCEPT ![t] = IF @ = "none" THEN status ELSE "twice"]

\* AcpSession.close up to its await: the session forgets everything, and the wire
\* (and with it the agent's requests) is taken down.
CloseSession(place, invocation) ==
    /\ phase' = "stopped"
    /\ pending' = NonePending /\ grace' = FALSE
    /\ UNCHANGED <<modeId, nativeMode, expected, violated, turnId, prompts, orphans, host>>
    /\ IF wire = "open"
       THEN /\ wire' = "closing" /\ job' = invocation /\ at' = place /\ answer' = "waiting"
            /\ Reply(Waiting)
            /\ UNCHANGED plan
       ELSE /\ wire' = "none" /\ EndJob /\ UNCHANGED request

----------------------------------------------------------------------------
(* Opening a session.                                                      *)

\* open: a session whose wire broke is closed first, so all of them start alike.
Open(mode) ==
    /\ Quiet /\ job = "none"
    /\ phase \in {"stopped", "failed"} \/ wire = "closed"
    /\ phase' = "initializing" /\ job' = "open"
    /\ wire' = "open" /\ at' = "initialize" /\ answer' = "waiting"
    /\ modeId' = mode
    /\ pending' = NonePending /\ grace' = FALSE
    /\ UNCHANGED <<nativeMode, expected, violated, turnId, plan, agent, host>>

\* The calls that may follow an answer; a step the agent makes unnecessary is left out.
NextCalls ==
    CASE at = "initialize"   -> {"authenticate", "create"}
      [] at = "authenticate" -> {"create"}
      [] at = "create"       -> {"mode", "settings", "done"}
      [] at = "mode"         -> {"settings", "done"}
      [] OTHER               -> {"done"}

\* The code after each await of open.  #selectMode takes the committed mode for the
\* native one before it asks for it; open ends ready without looking at the wire.
ContinueOpen(call) ==
    /\ at \in Opening /\ answer = "ok" /\ call \in NextCalls
    /\ nativeMode' = IF at = "create" THEN modeId ELSE nativeMode
    /\ IF call = "done" THEN phase' = "ready" /\ EndJob
       ELSE /\ CallAgent(call)
            /\ IF call = "create" THEN phase' \in {"opening", "loading"} ELSE UNCHANGED phase
            /\ UNCHANGED <<job, plan>>
    /\ UNCHANGED <<modeId, expected, violated, turnId, pending, grace, wire, agent, host>>

\* The catch of open, and after it that of the worker.
FailOpen ==
    /\ at \in Opening /\ answer \in {"error", "timeout", "closed"}
    /\ CloseSession("openClose", "open")

----------------------------------------------------------------------------
(* Prompts.                                                                *)

\* prompt from the check of the write authority to its await: it throws without an
\* event, or announces the turn and hands the agent the prompt.
BeginTurn(t, write) ==
    IF write # (modeId \in Writable)
    THEN /\ EndJob
         /\ UNCHANGED <<phase, expected, violated, turnId, prompts, started, strayed, cancelled,
                        consent>>
    ELSE /\ phase' = "prompting" /\ turnId' = t
         /\ expected' = NoMode /\ violated' = FALSE
         /\ strayed' = {} /\ cancelled' = {} /\ consent' = {}
         /\ started' = started \union {t}
         /\ prompts' = IF wire = "open" THEN prompts \union {t} ELSE prompts
         /\ CallAgent("prompt")
         /\ job' = "turn" /\ plan' = [turn |-> t, write |-> write]

\* prompt: a mode the agent strayed to is put back first.
Prompt(t, write) ==
    /\ Quiet /\ job = "none" /\ phase = "ready"
    /\ t \notin started /\ \A u \in Turn : u < t => u \in started
    /\ IF nativeMode # modeId
       THEN /\ CallAgent("restore")
            /\ job' = "turn" /\ plan' = [turn |-> t, write |-> write]
            /\ UNCHANGED <<phase, expected, violated, turnId, prompts, started, strayed, cancelled,
                           consent>>
       ELSE BeginTurn(t, write)
    /\ UNCHANGED <<modeId, nativeMode, pending, grace, wire, orphans, request, ends>>

\* After #restoreMode: the committed mode is the native one, whatever was reported since.
ModeRestored ==
    /\ at = "restore" /\ answer = "ok"
    /\ nativeMode' = modeId
    /\ BeginTurn(plan.turn, plan.write)
    /\ UNCHANGED <<modeId, pending, grace, wire, orphans, request, ends>>

\* #restoreMode failed: prompt throws, no turn was announced.
ModeNotRestored ==
    /\ at = "restore" /\ answer \in {"error", "timeout", "closed"}
    /\ EndJob
    /\ UNCHANGED <<session, wire, agent, host>>

\* The finally of prompt.
Finally ==
    /\ phase' = IF wire = "open" THEN "ready" ELSE "failed"
    /\ turnId' = 0 /\ expected' = NoMode /\ pending' = NonePending /\ grace' = FALSE
    /\ consent' = {}
    /\ EndJob
    /\ UNCHANGED wire

\* The status of a prompt the agent answered.
StatusMutant ==
    CASE answer = "end"     -> "completed"
      [] answer = "stopped" -> "interrupted"
      [] OTHER              -> "failed"
Status ==
    IF violated THEN "failed"
    ELSE CASE answer = "end"     -> "completed"
           [] answer = "stopped" -> "interrupted"
           [] OTHER              -> "failed"

\* prompt: the agent answered.
PromptAnswered ==
    /\ at = "prompt" /\ answer \in Stops
    /\ Report(turnId, Status)
    /\ Finally
    /\ UNCHANGED <<modeId, nativeMode, violated, agent, started, strayed, cancelled>>

\* The catch of prompt: a cancelled turn is over; any other failed, and an agent that
\* may still work on it is ended before the next.
PromptRejectedMutant ==
    /\ at = "prompt" /\ answer \in {"error", "timeout", "closed"}
    /\ Report(turnId, IF phase = "cancelling" /\ ~violated THEN "interrupted" ELSE "failed")
    /\ Finally
    /\ UNCHANGED <<modeId, nativeMode, violated, agent, started, strayed, cancelled>>
PromptRejected ==
    /\ at = "prompt" /\ answer \in {"error", "timeout", "closed"}
    /\ Report(turnId, IF phase = "cancelling" /\ ~violated THEN "interrupted" ELSE "failed")
    /\ IF phase # "cancelling" /\ wire = "open"
       THEN /\ wire' = "closing" /\ at' = "promptClose" /\ answer' = "waiting"
            /\ UNCHANGED <<phase, turnId, expected, pending, grace, job, plan, consent>>
       ELSE Finally
    /\ UNCHANGED <<modeId, nativeMode, violated, agent, started, strayed, cancelled>>

\* The agent of a failed turn has ended.
FailedTurnClosed ==
    /\ at = "promptClose" /\ answer = "closed"
    /\ Finally
    /\ UNCHANGED <<modeId, nativeMode, violated, agent, started, ends, strayed, cancelled>>

----------------------------------------------------------------------------
(* Cancelling, approvals, settings, close.                                 *)

\* cancel on a wire that is up: every waiting request is answered, the agent is
\* notified and given a time to end its prompt.
CancelPromptMutant ==
    /\ pending' = NonePending
    /\ phase' = "cancelling"
    /\ grace' = TRUE
    /\ UNCHANGED request
CancelPrompt ==
    /\ Reply(Waiting) /\ pending' = NonePending
    /\ phase' = "cancelling"
    /\ grace' = TRUE

\* The control operation aibo.session.cancel.  While a failed turn waits for its agent
\* to end the notification throws, and only what precedes it has happened.
Cancel ==
    /\ Quiet /\ job # "none" /\ phase = "prompting"
    /\ IF wire = "open" THEN CancelPrompt
       ELSE Waiting = {} /\ phase' = "cancelling" /\ UNCHANGED <<pending, grace, request>>
    /\ cancelled' = cancelled \union {turnId}
    /\ UNCHANGED <<modeId, nativeMode, expected, violated, turnId, job, at, answer, plan,
                   wire, prompts, orphans, started, ends, strayed, consent>>

\* The cancel timer: an agent that has not ended its prompt is ended.
GraceExpires ==
    /\ Quiet /\ grace /\ grace' = FALSE
    /\ wire' = IF phase = "cancelling" /\ wire = "open" THEN "closing" ELSE wire
    /\ UNCHANGED <<phase, modeId, nativeMode, expected, violated, turnId, pending,
                   job, at, answer, plan, agent, host>>

\* respondApproval, respondUserInput: the user answers a waiting request, and may pick
\* the option that switches the mode.  The host has committed such a switch already,
\* so it is expected even if the reply cannot be written any more.
Respond(r, switch) ==
    /\ Quiet /\ job # "none" /\ r \in Waiting
    /\ IF switch
       THEN /\ pending[r] \in Modes
            /\ expected' = pending[r] /\ consent' = consent \union {pending[r]}
       ELSE UNCHANGED <<expected, consent>>
    /\ IF wire = "open" THEN Reply({r}) /\ pending' = [pending EXCEPT ![r] = "no"]
       ELSE UNCHANGED <<request, pending>>
    /\ UNCHANGED <<phase, modeId, nativeMode, violated, turnId, grace, job, at, answer,
                   plan, wire, prompts, orphans, started, ends, strayed, cancelled>>

\* models, configure: one call of #setModel or #setParameter.
Configure ==
    /\ Quiet /\ job = "none" /\ phase = "ready"
    /\ phase' = "configuring" /\ job' = "configure"
    /\ CallAgent("setting")
    /\ UNCHANGED <<modeId, nativeMode, expected, violated, turnId, pending, grace,
                   plan, wire, agent, host>>

ConfigureEnds ==
    /\ at = "setting" /\ ~Quiet
    /\ phase' = IF phase = "configuring" THEN "ready" ELSE phase
    /\ EndJob
    /\ UNCHANGED <<modeId, nativeMode, expected, violated, turnId, pending, grace,
                   wire, agent, host>>

\* The invocation aibo.session.close.
Close == Quiet /\ job = "none" /\ phase # "stopped" /\ CloseSession("close", "close")

\* The process of a session that is being closed has ended.
SessionClosed ==
    /\ at \in {"openClose", "close"} /\ answer = "closed"
    /\ wire' = "none" /\ EndJob
    /\ UNCHANGED <<session, agent, host>>

----------------------------------------------------------------------------
(* What the agent writes.                                                  *)

\* The answer to a call other than session/prompt; an answer the session does not
\* accept (no confirmation, wrong identity) throws like an error.
AnswerCall(a) ==
    /\ Lines /\ at \in Calls /\ answer = "waiting" /\ answer' = a
    /\ UNCHANGED <<session, job, at, plan, wire, agent, host>>

\* The answer to session/prompt.  The agent forgets what it asked during it; an
\* answer to a prompt that is not awaited any more is dropped.
EndPrompt(t, a) ==
    /\ Lines /\ t \in prompts
    /\ prompts' = prompts \ {t} /\ request' = Forgotten
    /\ answer' = IF at = "prompt" /\ t = turnId /\ answer = "waiting" THEN a ELSE answer
    /\ UNCHANGED <<session, job, at, plan, wire, orphans, host>>

\* current_mode_update or config_option_update: #observeMode.
ReportMode(mode) ==
    /\ Lines
    /\ phase \notin {"initializing", "loading"}
    /\ phase = "opening" => at \in {"mode", "settings"}
    /\ nativeMode' = mode
    /\ strayed' = IF turnId # 0 /\ mode \notin {modeId, expected}
                  THEN strayed \union {turnId} ELSE strayed
    /\ IF mode = modeId
       THEN UNCHANGED <<phase, modeId, expected, violated, pending, grace, request>>
       ELSE IF mode = expected
       THEN /\ modeId' = mode /\ expected' = NoMode
            /\ UNCHANGED <<phase, violated, pending, grace, request>>
       ELSE IF phase # "prompting" \/ violated
       THEN UNCHANGED <<phase, modeId, expected, violated, pending, grace, request>>
       ELSE /\ violated' = TRUE
            /\ CancelPrompt
            /\ UNCHANGED <<modeId, expected>>
    /\ UNCHANGED <<turnId, job, at, answer, plan, wire, prompts, orphans, started, ends,
                   cancelled, consent>>

\* What a request is: an approval in the agent's usual form, one that offers to switch
\* the mode, a question, or one the adapter answers itself (a host tool, a foreign session).
Kinds == {"approval", "question", "own"} \union Modes

\* Outside a writable mode the user is asked only about switches and questions.
Waits(kind) ==
    /\ turnId # 0 /\ kind # "own"
    /\ kind = "approval" => modeId \in Writable
    /\ Cardinality(Waiting) < PendingLimit

\* #handleRequest: the request waits for the user or is answered at once.  One that
\* follows the answer to the prompt in the same chunk is still taken for the turn's.
Ask(r, kind) ==
    /\ Lines /\ request[r] = "unasked"
    /\ \A q \in Requests : q < r => request[q] # "unasked"
    /\ IF Waits(kind)
       THEN /\ pending' = [pending EXCEPT ![r] = IF kind \in Modes THEN kind ELSE "plain"]
            /\ request' = [request EXCEPT ![r] = IF prompts = {} THEN "late" ELSE "asked"]
       ELSE /\ request' = [request EXCEPT ![r] = "answered"]
            /\ UNCHANGED pending
    /\ UNCHANGED <<phase, modeId, nativeMode, expected, violated, turnId, grace, job, at,
                   answer, plan, wire, prompts, orphans, host>>

----------------------------------------------------------------------------
(* The wire and its end.                                                   *)

\* #finish: the wire is down, every pending call is rejected, and the handler of
\* transport/closed fails the session unless it has let go of this transport.
Finish ==
    /\ wire' = "closed"
    /\ answer' = IF answer = "waiting" THEN "closed" ELSE answer
    /\ phase' = IF at \in Closing THEN phase ELSE "failed"
    /\ prompts' = {} /\ request' = Forgotten
    /\ UNCHANGED <<modeId, nativeMode, expected, violated, turnId, pending, grace,
                   job, at, plan, host>>

\* The process is sent SIGTERM and may survive it: neither prompt's catch nor close looks
\* at a wire that is down again, so nobody kills it, and what it works on it works on.
Abandon == orphans' = orphans \union prompts

\* A malformed or oversized line, or one whose handler throws: the rest of the chunk is
\* not read.
WireFails == Lines /\ Finish /\ Abandon

\* stdout ends or a stream errs while the process lives.  Once close has begun only what
\* a pending call waits for is still rejected by that.
StreamFails ==
    /\ Quiet
    /\ \/ wire = "open"
       \/ wire = "closing" /\ at = "prompt" /\ answer = "waiting"
    /\ Finish /\ Abandon

\* The agent process exits, by itself or because close has asked it to.
AgentExits == Quiet /\ wire \in {"open", "closing"} /\ Finish /\ UNCHANGED orphans

\* A process nobody reads ends its prompt, or ends.
OrphanEnds(t) ==
    /\ t \in orphans /\ orphans' = orphans \ {t}
    /\ UNCHANGED <<session, job, at, answer, plan, wire, prompts, request, host>>

\* close has waited two seconds for the exit: SIGKILL, and the pending calls are
\* rejected without the handler of transport/closed.
KillAgent ==
    /\ Quiet /\ wire = "closing"
    /\ wire' = "closed" /\ answer' = "closed"
    /\ prompts' = {} /\ request' = Forgotten
    /\ UNCHANGED <<session, job, at, plan, orphans, host>>

\* The timer of a call.
CallTimesOut ==
    /\ Quiet /\ at \in Calls \union {"prompt"} /\ answer = "waiting"
    /\ at = "prompt" => phase = "prompting" \/ LimitInGrace
    /\ answer' = "timeout"
    /\ UNCHANGED <<session, job, at, plan, wire, agent, host>>

Continue ==
    \/ \E call \in Opening \union {"done"} : ContinueOpen(call)
    \/ FailOpen
    \/ ModeRestored
    \/ ModeNotRestored
    \/ PromptAnswered
    \/ PromptRejected
    \/ FailedTurnClosed
    \/ ConfigureEnds
    \/ SessionClosed

Agent ==
    \/ \E a \in {"ok", "error"} : AnswerCall(a)
    \/ \E t \in Turn, a \in Stops \union {"error"} : EndPrompt(t, a)
    \/ \E mode \in Modes : ReportMode(mode)
    \/ \E r \in Requests, kind \in Kinds : Ask(r, kind)
    \/ WireFails
    \/ StreamFails
    \/ AgentExits
    \/ \E t \in Turn : OrphanEnds(t)

Host ==
    \/ \E mode \in Modes : Open(mode)
    \/ \E t \in Turn, write \in BOOLEAN : Prompt(t, write)
    \/ Cancel
    \/ \E r \in Requests, switch \in BOOLEAN : Respond(r, switch)
    \/ Configure
    \/ Close

\* The timers of a cancel and of a close; they follow each other.
Timers == GraceExpires \/ KillAgent

Next == Continue \/ Agent \/ Host \/ Timers \/ CallTimesOut

Spec == Init /\ [][Next]_vars

\* Timers fire, a killed process is gone, and a settled promise's handler runs; the
\* agent owes nothing.
Fairness == WF_vars(Continue) /\ WF_vars(Timers)

FairSpec == Spec /\ Fairness

----------------------------------------------------------------------------
(* Properties.                                                             *)

TypeOK ==
    /\ phase \in Phases /\ modeId \in Modes \union {NoMode}
    /\ nativeMode \in Modes \union {NoMode} /\ expected \in Modes \union {NoMode}
    /\ violated \in BOOLEAN /\ turnId \in Turn \union {0}
    /\ pending \in [Requests -> Entries] /\ grace \in BOOLEAN
    /\ job \in {"none", "open", "turn", "configure", "close"}
    /\ at \in {"none", "prompt"} \union Calls \union Closing
    /\ answer \in {"none", "waiting", "ok", "error", "timeout", "closed"} \union Stops
    /\ plan \in [turn : Turn \union {0}, write : BOOLEAN]
    /\ wire \in {"none", "open", "closing", "closed"}
    /\ prompts \subseteq Turn /\ orphans \subseteq Turn
    /\ request \in [Requests -> {"unasked", "asked", "late", "answered", "dropped", "twice"}]
    /\ started \subseteq Turn /\ strayed \subseteq Turn /\ cancelled \subseteq Turn
    /\ consent \subseteq Modes
    /\ ends \in [Turn -> Statuses \union {"none", "twice"}]

\* Every turn that was announced and is not the current one has had exactly one last
\* event: whatever became of the agent, the wire or a cancel, the host is not left
\* with a turn that runs for ever, nor told of its end twice.
EveryTurnReported ==
    \A t \in Turn : IF t \in started /\ t # turnId THEN ends[t] \in Statuses
                    ELSE ends[t] # "twice" /\ (ends[t] # "none" => t \in started)

\* The agent the session talks to works on no prompt but the current turn's: a turn that
\* expires, is refused or is cancelled in vain takes the process with it.  A process may go
\* on with a turn unseen, beside the one of the next turn, only after its wire has failed;
\* the host is then told that the turn has failed, never that it is completed or stopped.
OnePromptAtAgent ==
    /\ prompts \subseteq {turnId}
    /\ \A t \in orphans : t # turnId => ends[t] = "failed"

\* While the wire is up a request the agent made during a prompt is waiting for the user
\* or was answered, once, until the agent itself ends that prompt.
RequestsSettled ==
    \A r \in Requests : /\ request[r] # "twice"
                        /\ request[r] = "asked" /\ wire = "open" => r \in Waiting

\* A turn in which the agent left the committed mode without the user's approval is
\* never reported as completed or merely interrupted.  The code holds this only of
\* turns the user had not cancelled before: see UnstoppedSwitchFails.
UncommittedSwitchFails ==
    \A t \in strayed : ends[t] \in {"none", "failed"}

\* ... unless the user had cancelled it before: a switch the agent reports while it is
\* given time to end its prompt is not looked at.
UnstoppedSwitchFails ==
    \A t \in strayed \ cancelled : ends[t] \in {"none", "failed"}

\* A turn the host did not authorise to write runs in a writable mode only if the user
\* approved that switch during this very turn; an approval does not outlive its turn.
WriteNeedsConsent ==
    turnId # 0 /\ modeId \in Writable => plan.write \/ modeId \in consent

\* Neither an unapproved switch of the agent, unless in a turn the user has cancelled, nor
\* an approval of an earlier turn makes a turn that writes look like one that was allowed to.
ModeAuthority == UnstoppedSwitchFails /\ WriteNeedsConsent

\* A cancelled turn has not ended yet: the agent's silence, its exit or its surviving SIGTERM
\* must not keep the worker from its next invocation.
HeldUp == phase = "cancelling" /\ job # "none"
=============================================================================
