--------------------------- MODULE WorkspaceWrites ---------------------------
(***************************************************************************)
(* The writes of one workspace: the ledger of approved writes              *)
(* (workspace_write_runs.rs), the project tasks that share the workspace   *)
(* with them (project_actions.rs), the writer both take                    *)
(* (workspace_writes.rs) and the execution of capability writes by plugins *)
(* with their nested writes (capability_writes.rs, capability_broker.rs).  *)
(*                                                                         *)
(* A call is one execution of execute_in_lease or of run_project_action.   *)
(* Calls are numbered as they arrive; a call inserts at most one row, which*)
(* has the number of the call.  A "write" may be asked for by a window or, *)
(* as a child, by the plugin that executes another write; a "task" never   *)
(* has children.  0 stands for "none".  A definition whose name ends in    *)
(* Mutant is a plausible slip in the definition that follows it; no action *)
(* uses it.                                                                *)
(***************************************************************************)
EXTENDS Naturals, FiniteSets

CONSTANTS
    MaxCalls,     \* calls that ever arrive
    MaxErrors,    \* statements of the database that fail
    MaxRestarts,  \* crashes of the application
    Kinds,        \* the kinds of calls that arrive
    Requests,     \* request ids windows use
    Inputs        \* inputs they come with

ASSUME WritesAssumption ==
    /\ MaxCalls \in Nat /\ MaxErrors \in Nat /\ MaxRestarts \in Nat
    /\ Kinds \subseteq {"write", "task", "child"}

Call == 1..MaxCalls

VARIABLES
    \* durable: tables workspace_write_runs and project_action_runs
    status,     \* of each row
    cancelled,  \* rows with cancel_requested_at
    \* volatile
    call,       \* what each call asks for
    pc,         \* how far it has come
    result,     \* the local result of an execution
    admission,  \* who holds the two ADMISSION locks
    writer,     \* the root call that holds the workspace in WRITERS
    uncertain,  \* root calls whose WriteContext.uncertain flag is set
    halted,     \* executions whose flight was cancelled, timed out or crashed
    \* what the callers were told, and what happened
    answer,
    performed,  \* calls whose execution was handed to a plugin or a process
    early,      \* calls that were still waiting for approval when they, or one
                \* of the calls they belong to, were cancelled
    errors,
    restarts

rows     == <<status, cancelled>>
locks    == <<admission, writer>>
flags    == <<uncertain, halted>>
history  == <<performed, early>>
counters == <<errors, restarts>>
vars == <<rows, call, pc, result, locks, flags, answer, history, counters>>

Active  == {"awaiting_approval", "running"}
Settled == {"completed", "failed", "rejected", "outcome_unknown"}
Errors  == {"busy", "conflict", "refused", "error", "lost"}
Gone    == {"idle", "ended"}
Steps   == {"admit", "lease", "pending", "insert", "awaiting", "revalidate", "start",
            "reject", "check", "dispatch", "working", "settle"}
NoCall  == [kind |-> "none", request |-> 0, input |-> 0, parent |-> 0, root |-> 0, line |-> {}]

Init ==
    /\ status = [c \in Call |-> "none"]
    /\ cancelled = {}
    /\ call = [c \in Call |-> NoCall]
    /\ pc = [c \in Call |-> "idle"]
    /\ result = [c \in Call |-> "none"]
    /\ admission = [k \in {"write", "task"} |-> 0]
    /\ writer = 0
    /\ uncertain = {}
    /\ halted = {}
    /\ answer = [c \in Call |-> "none"]
    /\ performed = {}
    /\ early = {}
    /\ errors = 0
    /\ restarts = 0

----------------------------------------------------------------------------
(* What the handlers share.                                                *)

IsNext(c)    == pc[c] = "idle" /\ \A d \in Call : d < c => pc[d] # "idle"
Live(c)      == pc[c] \notin Gone
IsActive(c)  == status[c] \in Active
IsTask(c)    == call[c].kind = "task"
IsChild(c)   == call[c].parent # 0
Children(c)  == {d \in Call : Live(d) /\ call[d].parent = c}

\* Request ids are scoped to a workspace and a table; the id of a child is
\* derived from its caller's invocation and belongs to nobody else.
Key(c) == IF IsChild(c) THEN <<"child", c>> ELSE <<call[c].kind, call[c].request>>
SameRequest(c, d) == Key(c) = Key(d)

\* The row an earlier call with the same request id has left.
PriorMutant(c) == {d \in Call : status[d] \notin {"none", "outcome_unknown"} /\ SameRequest(c, d)}
Prior(c) == {d \in Call : status[d] # "none" /\ SameRequest(c, d)}

\* Cancellation::is_requested: the call and all it belongs to are still wanted.
RequestedMutant(c) == c \in cancelled \/ ~IsActive(c)
Requested(c) ==
    \E a \in call[c].line :
        \/ a \in cancelled
        \/ status[a] # "running" /\ ~(a = c /\ status[a] = "awaiting_approval")

\* Chain::is_cancelled, which also watches the flights above a call.
Stopped(c) == Requested(c) \/ call[c].line \intersect halted # {}

\* A child's context can only be prepared while its parent's chain is alive.
Prepares(c) == IsChild(c) => ~Stopped(call[c].parent)

GoTo(c, step) == pc' = [pc EXCEPT ![c] = step]

\* A call ends: it answers, and drops the guards it holds.
ReleasedMutant(c) == admission
Released(c)  == [k \in DOMAIN admission |-> IF admission[k] = c THEN 0 ELSE admission[k]]
FreedMutant(c) == IF writer = c /\ pc[c] # "reject" THEN 0 ELSE writer
Freed(c)     == IF writer = c THEN 0 ELSE writer
Return(c, a) ==
    /\ GoTo(c, "ended")
    /\ answer' = [answer EXCEPT ![c] = a]
    /\ admission' = Released(c)
    /\ writer' = Freed(c)

SetStatus(c, s) == status' = [status EXCEPT ![c] = s]

\* What replaying row d answers to call c: a write in progress is busy, a task
\* in progress is shown as it is.
Replayed(c, d) ==
    IF call[c].input # call[d].input THEN "conflict"
    ELSE IF ~IsTask(c) /\ IsActive(d) THEN "busy"
    ELSE status[d]

----------------------------------------------------------------------------
(* Arrival.                                                                *)

Submit(c, k, r, i) ==
    /\ IsNext(c) /\ k # "child"
    /\ GoTo(c, "admit")
    /\ call' = [call EXCEPT ![c] = [kind |-> k, request |-> r, input |-> i,
                                    parent |-> 0, root |-> c, line |-> {c}]]
    /\ UNCHANGED <<rows, result, locks, flags, answer, history, counters>>

\* invoke_child_write: the executor of write p calls another writing plugin and
\* waits for it.
SubmitChild(c, p) ==
    /\ IsNext(c) /\ "child" \in Kinds
    /\ pc[p] = "working" /\ ~IsTask(p) /\ Children(p) = {}
    /\ call[p].root \notin uncertain
    /\ GoTo(c, "admit")
    /\ call' = [call EXCEPT ![c] = [kind |-> "write", request |-> 0, input |-> 0, parent |-> p,
                                    root |-> call[p].root, line |-> call[p].line \union {c}]]
    /\ UNCHANGED <<rows, result, locks, flags, answer, history, counters>>

----------------------------------------------------------------------------
(* Admission.                                                              *)

\* Under the ledger's ADMISSION lock: an earlier row answers the call.
Replay(c) ==
    LET k == call[c].kind IN
    /\ pc[c] = "admit" /\ admission[k] = 0
    /\ \/ /\ Prior(c) = {}
          /\ GoTo(c, "lease")
          /\ admission' = [admission EXCEPT ![k] = c]
          /\ UNCHANGED <<writer, answer>>
       \/ \E d \in Prior(c) : Return(c, Replayed(c, d))
    /\ UNCHANGED <<rows, call, result, flags, history, counters>>

\* A capability write asked for by a window looks for an earlier row before its
\* provider is resolved, without the lock.
ReplayRequested(c) ==
    /\ pc[c] = "admit" /\ ~IsTask(c) /\ ~IsChild(c)
    /\ \E d \in Prior(c) : Return(c, Replayed(c, d))
    /\ UNCHANGED <<rows, call, result, flags, history, counters>>

\* workspace_writes::acquire, first half: the set of writers of this process.
TakeWriter(c) ==
    /\ pc[c] = "lease" /\ ~IsChild(c)
    /\ \/ /\ writer = 0
          /\ writer' = c
          /\ GoTo(c, "pending")
          /\ UNCHANGED <<admission, answer>>
       \/ writer # 0 /\ Return(c, "busy")
    /\ UNCHANGED <<rows, call, result, flags, history, counters>>

\* A child uses its parent's lease, if its parent is still wanted.
InheritLease(c) ==
    /\ pc[c] = "lease" /\ IsChild(c)
    /\ \/ /\ ~Requested(call[c].parent)
          /\ GoTo(c, "insert")
          /\ admission' = Released(c)
          /\ UNCHANGED <<writer, answer>>
       \/ Requested(call[c].parent) /\ Return(c, "refused")
    /\ UNCHANGED <<rows, call, result, flags, history, counters>>

\* workspace_writes::acquire, second half: rows whose owner is gone still count.
PendingMutant == {d \in Call : IsActive(d) /\ IsTask(d)}
Pending == {d \in Call : IsActive(d)}
CheckPending(c) ==
    /\ pc[c] = "pending"
    /\ \/ /\ Pending = {}
          /\ GoTo(c, "insert")
          /\ admission' = IF IsTask(c) THEN admission ELSE Released(c)
          /\ UNCHANGED <<writer, answer>>
       \/ Pending # {} /\ Return(c, "busy")
    /\ UNCHANGED <<rows, call, result, flags, history, counters>>

\* The context of the approval is prepared and the intent recorded; the unique
\* index turns a second row for the request into a replay.
Insert(c) ==
    /\ pc[c] = "insert" /\ Prepares(c)
    /\ IF Prior(c) = {}
       THEN /\ SetStatus(c, "awaiting_approval")
            /\ GoTo(c, "awaiting")
            /\ admission' = Released(c)
            /\ UNCHANGED <<writer, answer>>
       ELSE /\ \E d \in Prior(c) : Return(c, Replayed(c, d))
            /\ UNCHANGED status
    /\ UNCHANGED <<cancelled, call, result, flags, history, counters>>

\* Preparation fails: of a write with its lease, of a task before it has one.
PrepareFails(c) ==
    /\ pc[c] = IF IsTask(c) THEN "lease" ELSE "insert"
    /\ Return(c, "refused")
    /\ UNCHANGED <<rows, call, result, flags, history, counters>>

----------------------------------------------------------------------------
(* Approval.                                                               *)

\* The user approves, or declines, or is not there, or the wait ends otherwise.
Decide(c) ==
    /\ pc[c] = "awaiting"
    /\ GoTo(c, "revalidate") \/ GoTo(c, "reject")
    /\ UNCHANGED <<rows, call, result, locks, flags, answer, history, counters>>

\* The context is prepared once more and the cancellation looked at.
Confirmed(c) == Prepares(c) /\ (IsTask(c) \/ ~Requested(c))
Revalidate(c) ==
    /\ pc[c] = "revalidate"
    /\ \/ Confirmed(c) /\ GoTo(c, "start")
       \/ GoTo(c, "reject")
    /\ UNCHANGED <<rows, call, result, locks, flags, answer, history, counters>>

\* The update that starts a run is conditional on the state of the row.
StartableMutant(c) == status[c] = "awaiting_approval"
Startable(c) == status[c] = "awaiting_approval" /\ c \notin cancelled
AfterStart(c) == IF IsTask(c) \/ IsChild(c) THEN "dispatch" ELSE "check"
Start(c) ==
    /\ pc[c] = "start"
    /\ \/ Startable(c) /\ SetStatus(c, "running") /\ GoTo(c, AfterStart(c))
       \/ ~Startable(c) /\ GoTo(c, "reject") /\ UNCHANGED status
    /\ UNCHANGED <<cancelled, call, result, locks, flags, answer, history, counters>>

Reject(c) ==
    /\ pc[c] = "reject"
    /\ SetStatus(c, "rejected")
    /\ Return(c, "rejected")
    /\ UNCHANGED <<cancelled, call, result, flags, history, counters>>

----------------------------------------------------------------------------
(* Execution.                                                              *)

Resulting(c, r) == result' = [result EXCEPT ![c] = r] /\ GoTo(c, "settle")

\* The closure of a write asked for by a window looks at its cancellation first.
Check(c) ==
    /\ pc[c] = "check"
    /\ \/ Requested(c) /\ Resulting(c, "failed")
       \/ ~Requested(c) /\ GoTo(c, "dispatch") /\ UNCHANGED result
    /\ UNCHANGED <<rows, call, locks, flags, answer, history, counters>>

\* The request goes to the plugin, or the command is spawned.
MayDispatchMutant(c) == TRUE
MayDispatch(c) == IsTask(c) \/ ~Stopped(c)
Dispatch(c) ==
    /\ pc[c] = "dispatch" /\ MayDispatch(c)
    /\ performed' = performed \union {c}
    /\ GoTo(c, "working")
    /\ UNCHANGED <<rows, call, result, locks, flags, answer, early, counters>>

\* The execution returns, and with it its flight goes: it did what was asked and
\* said so.  A write with an uncertain descendant cannot say so.
Finish(c) ==
    /\ pc[c] = "working" /\ Children(c) = {}
    /\ \/ call[c].root \notin uncertain /\ Resulting(c, "completed")
       \/ IsTask(c) /\ Resulting(c, "failed")
    /\ halted' = halted \ {c}
    /\ UNCHANGED <<rows, call, locks, uncertain, answer, history, counters>>

\* Anything else, before or after the dispatch, leaves an unknown outcome.  The
\* caller of a nested write marks the one flag of the root and all its children.
FailMark(c) == IF IsChild(c) THEN uncertain \union {call[c].root} ELSE uncertain
Fail(c) ==
    /\ pc[c] \in {"dispatch", "working"} /\ Children(c) = {}
    /\ Resulting(c, "outcome_unknown")
    /\ uncertain' = FailMark(c)
    /\ halted' = halted \ {c}
    /\ UNCHANGED <<rows, call, locks, answer, history, counters>>

Settle(c) ==
    /\ pc[c] = "settle"
    /\ SetStatus(c, result[c])
    /\ Return(c, result[c])
    /\ UNCHANGED <<cancelled, call, result, flags, history, counters>>

----------------------------------------------------------------------------
(* What happens around a call.                                             *)

\* The window cancels a run by its id; cancelling it again changes nothing.
Affected(c) == {d \in Call : c \in call[d].line /\ status[d] = "awaiting_approval"}
Cancel(c) ==
    /\ IsActive(c) /\ c \notin cancelled
    /\ cancelled' = cancelled \union {c}
    /\ early' = early \union Affected(c)
    /\ UNCHANGED <<status, call, pc, result, locks, flags, answer, performed, counters>>

\* The flight of an execution is cancelled, its deadline passes or its process dies.
Halt(c) ==
    /\ pc[c] \in {"dispatch", "working"} /\ ~IsTask(c) /\ c \notin halted
    /\ halted' = halted \union {c}
    /\ UNCHANGED <<rows, call, pc, result, locks, uncertain, answer, history, counters>>

\* A statement fails: the call ends at once and leaves its row as it is.  Only
\* a write that cannot store its result reports that it does not know.
Unstored(c) == pc[c] = "settle" /\ ~IsTask(c)
ErrorAnswerMutant(c) == IF Unstored(c) THEN "failed" ELSE "error"
ErrorAnswer(c) == IF Unstored(c) THEN "outcome_unknown" ELSE "error"
DoubtMutant(c) == uncertain
Doubt(c) == IF Unstored(c) THEN FailMark(c) ELSE uncertain
DatabaseError(c) ==
    /\ errors < MaxErrors
    /\ pc[c] \in {"pending", "insert", "start", "reject", "settle"}
    /\ errors' = errors + 1
    /\ Return(c, ErrorAnswer(c))
    /\ uncertain' = Doubt(c)
    /\ UNCHANGED <<rows, call, result, halted, history, restarts>>

\* The application dies and starts again; recovery settles what was under way.
RecoveredMutant(s) == IF s \in Active THEN "rejected" ELSE s
Recovered(s) ==
    CASE s = "awaiting_approval" -> "rejected"
      [] s = "running"           -> "outcome_unknown"
      [] OTHER                   -> s
Restart ==
    /\ restarts < MaxRestarts
    /\ restarts' = restarts + 1
    /\ status' = [c \in Call |-> Recovered(status[c])]
    /\ pc' = [c \in Call |-> IF Live(c) THEN "ended" ELSE pc[c]]
    /\ answer' = [c \in Call |-> IF Live(c) THEN "lost" ELSE answer[c]]
    /\ admission' = [k \in DOMAIN admission |-> 0]
    /\ writer' = 0
    /\ uncertain' = {}
    /\ halted' = {}
    /\ UNCHANGED <<cancelled, call, result, history, errors>>

----------------------------------------------------------------------------

\* The steps a call takes on its own.
Advance(c) ==
    \/ ReplayRequested(c) \/ TakeWriter(c) \/ InheritLease(c) \/ CheckPending(c) \/ Insert(c) \/ PrepareFails(c)
    \/ Decide(c) \/ Revalidate(c) \/ Start(c) \/ Reject(c)
    \/ Check(c) \/ Dispatch(c) \/ Finish(c) \/ Fail(c) \/ Settle(c)

Next ==
    \/ Restart
    \/ \E c \in Call :
         \/ \E k \in Kinds, r \in Requests, i \in Inputs : Submit(c, k, r, i)
         \/ \E p \in Call : SubmitChild(c, p)
         \/ Replay(c) \/ Advance(c) \/ Cancel(c) \/ Halt(c) \/ DatabaseError(c)

Spec == Init /\ [][Next]_vars

\* A call that can move does: Tokio's mutex serves its waiters, approvals and executions
\* have deadlines.  (The calls are finitely many, so that weak fairness is enough for the
\* wait for ADMISSION.)
MayProceed(c) == Replay(c) \/ Advance(c)
Fairness == \A c \in Call : WF_vars(MayProceed(c))

FairSpec == Spec /\ Fairness

----------------------------------------------------------------------------
(* Properties.                                                             *)

\* The types, and the relations the rest is built on: the row of a call agrees
\* with the place it has come to, an execution that returned has a result, and an
\* ADMISSION lock is held by a call of its kind that is being admitted.
Before    == {"idle", "admit", "lease", "pending", "insert"}
Asking    == {"awaiting", "revalidate", "start", "reject"}
Executing == {"check", "dispatch", "working", "settle"}

RowsOK ==
    /\ status \in [Call -> {"none"} \union Active \union Settled]
    /\ \A c \in Call : /\ pc[c] \in Before    => status[c] = "none"
                       /\ pc[c] \in Asking    => status[c] = "awaiting_approval"
                       /\ pc[c] \in Executing => status[c] = "running"

CallSet == [kind : {"none", "write", "task"}, request : {0} \union Requests, input : {0} \union Inputs,
            parent : {0} \union Call, root : {0} \union Call, line : SUBSET Call]

CallsOK ==
    /\ call \in [Call -> CallSet]
    /\ pc \in [Call -> Gone \union Steps]
    /\ \A c \in Call : pc[c] # "idle" => call[c].kind # "none" /\ call[c].root \in Call
    /\ result \in [Call -> {"none", "completed", "failed", "outcome_unknown"}]
    /\ \A c \in Call : pc[c] = "settle" => result[c] # "none"

LocksOK ==
    /\ admission \in [{"write", "task"} -> {0} \union Call]
    /\ \A k \in {"write", "task"} : admission[k] # 0 =>
          call[admission[k]].kind = k /\ pc[admission[k]] \in {"lease", "pending", "insert"}
    /\ writer \in {0} \union Call

TypeOK ==
    /\ RowsOK /\ CallsOK /\ LocksOK
    /\ cancelled \subseteq Call /\ uncertain \subseteq Call /\ halted \subseteq Call
    /\ performed \subseteq Call /\ early \subseteq Call
    /\ answer \in [Call -> {"none"} \union Active \union Settled \union Errors]
    /\ errors \in 0..MaxErrors /\ restarts \in 0..MaxRestarts

\* One lineage writes: the rows under way all belong to one root, whether their
\* callers are still there or not, and what executes belongs to the holder of
\* the workspace.
OneWriter ==
    /\ \A c, d \in Call : IsActive(c) /\ IsActive(d) => call[c].root = call[d].root
    /\ \A c \in Call : pc[c] \in Steps \ {"admit", "lease"} => writer = call[c].root

\* A request is performed at most once, whatever was retried, lost or restarted.
PerformedOnce ==
    \A c, d \in performed : SameRequest(c, d) => c = d

\* A write that was cancelled while it waited for its approval, or whose parent
\* was, is never performed, however late the cancellation is noticed.
CancelledNotPerformed == early \intersect performed = {}

\* All who ask about a request with its input hear the same outcome; with
\* another input nobody is told an outcome.
SameOutcome ==
    \A c, d \in Call :
        SameRequest(c, d) /\ answer[c] \in Settled /\ answer[d] \in Settled
            => answer[c] = answer[d] /\ call[c].input = call[d].input

\* A write does not succeed over a nested write whose outcome nobody knows.
UnknownNotHidden ==
    \A c \in Call : status[c] = "completed" =>
        \A d \in Call : c \in call[d].line => status[d] \notin {"running", "outcome_unknown"}

\* A workspace stays blocked only after a failed statement: a row under way has
\* a call that will settle it, and so has the writer.
NothingStranded ==
    errors = 0 =>
        /\ \A c \in Call : IsActive(c) => Live(c)
        /\ writer # 0 => Live(writer)

\* What is told about a request never says that nothing happened when something did.
PerformedKnown ==
    \A c \in performed : \A d \in Call :
        SameRequest(c, d) /\ ~IsTask(c) => answer[d] \notin {"rejected", "failed"}

\* All of it implements what is promised about each write, a request of a
\* window or a nested write.
RowOf(key) == {c \in Call : status[c] # "none" /\ Key(c) = key}
OutcomeOf(key) ==
    IF RowOf(key) = {} THEN "none"
    ELSE LET s == status[CHOOSE c \in RowOf(key) : TRUE] IN
         IF s = "awaiting_approval" THEN "proposed" ELSE s
Keys == (Kinds \X Requests) \union ({"child"} \X Call)
Promise == INSTANCE WritePromise WITH
    Write <- Keys,
    outcome <- [w \in Keys |-> OutcomeOf(w)],
    times <- [w \in Keys |-> Cardinality({c \in performed : Key(c) = w})]
KeepsWritePromise == Promise!Spec

\* Every call is answered (a call is made once, so at some time they all have been).
CallsEnd == []<>\A c \in Call : ~Live(c)
=============================================================================
