---------------------------- MODULE CodexSession ----------------------------
(***************************************************************************)
(* One worker process that serves an open Codex session: the invocation it *)
(* works on and its controls (capability-plugins/session-provider.mjs), the*)
(* host turn it reports about (codex/engine.mjs) and the native app server *)
(* behind it.                                                              *)
(*                                                                         *)
(* One host turn may span several native runs: a goal that is active makes *)
(* the native side start the next run by itself.  The engine follows it    *)
(* with calls whose answers come late: each async function that awaits one *)
(* is an entry of "calls", settled by a line of the native process and     *)
(* continued when the chunk that carried the line has been handled.  Lines *)
(* may therefore come between an answer and its continuation, and timers   *)
(* and requests of the host may not (Quiet).  What the native side writes  *)
(* is handled in the order in which it is written, so a native step and    *)
(* its line are one action.                                                *)
(*                                                                         *)
(* Turns and native runs are numbered in the order in which they start, 0  *)
(* stands for none.  A definition whose name ends in Mutant is a plausible *)
(* slip in the definition that follows it; no action uses it.              *)
(***************************************************************************)
EXTENDS Naturals, FiniteSets

CONSTANTS
    MaxTurns,   \* turns the host starts
    ChildTurns, \* turns of a session in which children are started
    MaxRuns,    \* native runs
    MaxStops,   \* turns that are stopped before the host stops no more
    MaxFails    \* failed reads after which a child is given up (3 in the code)

CodexAssumption ==
    {MaxTurns, ChildTurns, MaxRuns, MaxStops} \subseteq Nat /\ MaxFails \in Nat \ {0}

Turn == 1..MaxTurns
Run  == 1..MaxRuns

VARIABLES
    \* engine.mjs
    turn,       \* session.turn
    cur,        \* its fields
    goal,       \* session.goal, by status
    calls,      \* the async functions that await an answer
    child,      \* status of the subagent, as the engine knows it
    reading,    \* agent.reading
    fails,      \* agent.failures
    poll,       \* subagentTimer, and whether its callback awaits a read
    \* session-provider.mjs
    owner,      \* the invocation under way
    control,    \* the control under way
    \* the native process
    proc,
    run,        \* the native run in progress
    runs,       \* how many there have been
    announced,  \* turn/started has been written
    halting,    \* turn/interrupt has been accepted
    nativeGoal,
    nativeChild,\* the child thread runs
    serves,     \* the host turn the native side works for
    \* the host's record
    reported,   \* the status of each turn's last event
    answered,   \* how each turn's invocation was answered
    stopped     \* turns the user stopped, or that waited too long for a native run

engine   == <<turn, cur, goal, calls, child, reading, fails, poll>>
native   == <<proc, run, runs, announced, halting, nativeGoal, nativeChild, serves>>
record   == <<reported, answered, stopped>>
vars     == <<engine, owner, control, native, record>>

Goals    == {"none", "active", "paused"}
Statuses == {"completed", "interrupted", "failed"}
Tasks    == {"send", "goal", "finish", "timer", "control"}

\* newTurn: no native run yet, nothing awaited.  "missed" is of the model's record: the
\* last poll found no child at work, but one that was being read.
NewTurn == [native |-> 0, seen |-> FALSE, waiting |-> FALSE, timer |-> FALSE,
            last |-> "completed", childCompletion |-> FALSE, missed |-> FALSE]
NoCall  == [at |-> "none", turn |-> 0, run |-> 0, reply |-> "none", said |-> "none", fresh |-> FALSE]
NoOwner == [turn |-> 0, terminal |-> "none", settling |-> FALSE, final |-> FALSE]
NoControl == [op |-> "none", turn |-> 0]

Init ==
    /\ turn = 0 /\ cur = NewTurn
    /\ goal = "none" /\ nativeGoal \in {"none", "paused"}
    /\ calls = [k \in Tasks |-> NoCall]
    /\ child = "none" /\ reading = FALSE /\ fails = 0
    /\ poll = [armed |-> FALSE, awaits |-> FALSE]
    /\ owner = NoOwner /\ control = NoControl
    /\ proc = "up" /\ run = 0 /\ runs = 0 /\ announced = FALSE /\ halting = FALSE
    /\ nativeChild = FALSE /\ serves = 0
    /\ reported = [t \in Turn |-> "none"] /\ answered = [t \in Turn |-> "none"]
    /\ stopped = {}

----------------------------------------------------------------------------
(* What several handlers share.                                            *)

Quiet == \A k \in Tasks : calls[k].reply \in {"none", "waiting"}

\* rpc: function k awaits the answer to "at", about the turn and the run it knows.
Await(k, at, t, n) ==
    [calls EXCEPT ![k] = [at |-> at, turn |-> t, run |-> n, reply |-> "waiting",
                          said |-> "none", fresh |-> k \in {"goal", "finish"}]]
Done(k) == [calls EXCEPT ![k] = NoCall]

\* A goal read or set before a change is stale (goalRevision); Said is what a function
\* goes on with.
Stale(c) == [k \in Tasks |-> [c[k] EXCEPT !.fresh = FALSE]]
Said(c)  == IF c.fresh THEN c.said ELSE goal

ChildBusy == child = "active" \/ reading

\* publish: the last event of turn t reaches the host in the stream of invocation o,
\* which settles with its own turn, once no control of it is under way.
Told(o, t, status) ==
    IF o.turn # t THEN o
    ELSE [o EXCEPT !.terminal = status, !.settling = @ \/ control'.turn # t]

\* finishTurn: only the current turn is finished, and as completed only when no child
\* is at work or being read; until then the poll of the children keeps it.
FinishTurnMutant(o, t, status) ==
    IF turn # t
    THEN owner' = o /\ UNCHANGED <<turn, cur, child, poll, reported>>
    ELSE /\ turn' = 0 /\ cur' = NewTurn
         /\ child' = child
         /\ poll' = [poll EXCEPT !.armed = FALSE]
         /\ reported' = [reported EXCEPT ![t] = IF @ = "none" THEN status ELSE "twice"]
         /\ owner' = Told(o, t, status)
FinishTurn(o, t, status) ==
    IF turn # t
    THEN owner' = o /\ UNCHANGED <<turn, cur, child, poll, reported>>
    ELSE IF status = "completed" /\ ChildBusy
    THEN /\ cur' = [cur EXCEPT !.childCompletion = TRUE]
         /\ poll' = [poll EXCEPT !.armed = TRUE]
         /\ owner' = o
         /\ UNCHANGED <<turn, child, reported>>
    ELSE /\ turn' = 0 /\ cur' = NewTurn
         /\ child' = IF child = "active" THEN "over" ELSE child
         /\ poll' = [poll EXCEPT !.armed = FALSE]
         /\ reported' = [reported EXCEPT ![t] = IF @ = "none" THEN status ELSE "twice"]
         /\ owner' = Told(o, t, status)
Unfinished(o) == owner' = o /\ UNCHANGED <<turn, cur, child, poll, reported>>

\* updateGoal; c is what the calls are once the function that learnt the goal goes on.
SetGoal(value, c) ==
    /\ goal' = value
    /\ calls' = IF value = goal THEN c ELSE Stale(c)

\* updateGoal finishes a turn that waits for a goal that will not continue.
GoalReleases(value) == value # goal /\ value # "active" /\ turn # 0 /\ cur.waiting

\* The end of finishNativeTurn and of the start of a goal: wait (waitForGoalTurn) for
\* the next run of an active goal, or finish.  A turn that is over, or has a run again,
\* is left alone.
ContinueOrFinishMutant(t, value) ==
    IF turn # t \/ cur.native # 0 THEN Unfinished(owner)
    ELSE FinishTurn(owner, t, "completed")
ContinueOrFinish(t, value) ==
    IF GoalReleases(value) THEN FinishTurn(owner, turn, cur.last)
    ELSE IF turn # t \/ cur.native # 0 THEN Unfinished(owner)
    ELSE IF value = "active"
    THEN /\ cur' = [cur EXCEPT !.waiting = TRUE, !.timer = TRUE]
         /\ UNCHANGED <<turn, child, poll, owner, reported>>
    ELSE FinishTurn(owner, t, "completed")

\* invoke's finally.
EndInvocation(how) ==
    /\ answered' = [answered EXCEPT ![owner.turn] = how]
    /\ owner' = NoOwner

----------------------------------------------------------------------------
(* Invocations.                                                            *)

MayInvoke(t) ==
    /\ Quiet /\ proc = "up" /\ owner = NoOwner
    /\ answered[t] = "none" /\ \A u \in Turn : u < t => answered[u] # "none"
    /\ child # "none" => t <= ChildTurns

\* A turn that a refused start has left behind makes the session busy.
Busy(t) ==
    /\ MayInvoke(t) /\ turn # 0
    /\ answered' = [answered EXCEPT ![t] = "error"]
    /\ UNCHANGED <<engine, owner, control, native, reported, stopped>>

\* aibo.session.turn: send up to its await.
Send(t) ==
    /\ MayInvoke(t) /\ turn = 0
    /\ turn' = t /\ cur' = NewTurn
    /\ calls' = Await("send", "start", t, 0)
    /\ owner' = [NoOwner EXCEPT !.turn = t]
    /\ UNCHANGED <<goal, child, reading, fails, poll, control, native, record>>

\* aibo.session.goal.resume: resumeGoal up to the reading of the goal.
ResumeGoal(t) ==
    /\ MayInvoke(t) /\ turn = 0
    /\ turn' = t /\ cur' = NewTurn
    /\ calls' = Await("goal", "get", t, 0)
    /\ owner' = [NoOwner EXCEPT !.turn = t]
    /\ UNCHANGED <<goal, child, reading, fails, poll, control, native, record>>

\* send after its await: the run is known from the answer unless it was announced
\* before.  A refusal throws and leaves session.turn as it is.
SendAnswered ==
    LET c == calls["send"] IN
    /\ c.reply \in {"ok", "error"}
    /\ calls' = Done("send")
    /\ IF c.reply = "ok"
       THEN /\ cur' = IF turn = c.turn /\ ~cur.seen THEN [cur EXCEPT !.native = c.run] ELSE cur
            /\ UNCHANGED <<owner, answered>>
       ELSE EndInvocation("error") /\ UNCHANGED cur
    /\ UNCHANGED <<turn, goal, child, reading, fails, poll, control, native, reported, stopped>>

\* A pause that awaits goalStarting goes on, or throws, with it.
Joined(c, how) ==
    IF c["control"].at = "starting" THEN [c EXCEPT !["control"].reply = how] ELSE c

\* resumeGoal after reading: there is a goal, and it is made active.
GoalRead ==
    LET c == calls["goal"] IN
    /\ c.at = "get" /\ c.reply = "ok" /\ Said(c) # "none"
    /\ goal' = Said(c)
    /\ calls' = [(IF goal' = goal THEN calls ELSE Stale(calls)) EXCEPT
                    !["goal"] = Await("goal", "set", c.turn, 0)["goal"]]
    /\ UNCHANGED <<turn, cur, child, reading, fails, poll, owner, control, native, record>>

\* resumeGoal after activating: its run may have been announced already.
GoalActivated ==
    LET c == calls["goal"] IN
    /\ c.at = "set" /\ c.reply = "ok"
    /\ UNCHANGED control
    /\ SetGoal(Said(c), Joined(Done("goal"), "ok"))
    /\ ContinueOrFinish(c.turn, Said(c))
    /\ UNCHANGED <<reading, fails, native, answered, stopped>>

\* resumeGoal's catch: the turn is dropped without an event, the invocation fails.
GoalNotResumed ==
    LET c == calls["goal"]
        missing == c.at = "get" /\ c.reply = "ok" /\ Said(c) = "none"
    IN
    /\ c.reply = "error" \/ missing
    /\ SetGoal(IF missing THEN "none" ELSE goal, Joined(Done("goal"), "error"))
    /\ IF turn = c.turn THEN turn' = 0 /\ cur' = NewTurn ELSE UNCHANGED <<turn, cur>>
    /\ EndInvocation("error")
    /\ UNCHANGED <<child, reading, fails, poll, control, native, reported, stopped>>

\* settle's setImmediate: owner.done is resolved unless a control has begun.
Settle ==
    /\ Quiet /\ owner.settling
    /\ owner' = [owner EXCEPT !.settling = FALSE, !.final = @ \/ control.turn # owner.turn]
    /\ UNCHANGED <<engine, control, native, record>>

\* perform: the engine's call and owner.done are both through.
InvocationEndsMutant ==
    /\ owner # NoOwner /\ calls["send"] = NoCall /\ calls["goal"] = NoCall
    /\ EndInvocation("ok")
    /\ UNCHANGED <<engine, control, native, reported, stopped>>
InvocationEnds ==
    /\ owner.final /\ calls["send"] = NoCall /\ calls["goal"] = NoCall
    /\ EndInvocation("ok")
    /\ UNCHANGED <<engine, control, native, reported, stopped>>

----------------------------------------------------------------------------
(* Controls.                                                               *)

MayControl ==
    /\ Quiet /\ proc = "up" /\ owner # NoOwner /\ control = NoControl
    /\ Cardinality(stopped) < MaxStops

\* control's finally: an invocation whose turn ended during the control settles now.
Released ==
    IF owner.turn = control.turn /\ owner.terminal # "none"
    THEN [owner EXCEPT !.settling = TRUE] ELSE owner

\* cancel once the children are told: a turn without a run is finished here, a run is
\* interrupted.  The first test does not look at which turn it is.
Interrupt(o, t, c) ==
    IF turn # 0 /\ cur.native = 0
    THEN /\ control' = NoControl /\ calls' = c
         /\ FinishTurn(o, turn, "interrupted")
    ELSE IF turn = t
    THEN /\ control' = [op |-> "cancel", turn |-> t]
         /\ calls' = [c EXCEPT !["control"] = Await("control", "interrupt", t, cur.native)["control"]]
         /\ Unfinished(owner)
    ELSE control' = NoControl /\ calls' = c /\ Unfinished(o)

\* aibo.session.cancel
Cancel ==
    /\ MayControl /\ turn = owner.turn
    /\ stopped' = stopped \union {turn}
    /\ IF child = "active" /\ nativeChild
       THEN /\ control' = [op |-> "cancel", turn |-> turn]
            /\ calls' = Await("control", "children", turn, 0)
            /\ Unfinished(owner)
       ELSE Interrupt(owner, turn, calls)
    /\ UNCHANGED <<goal, reading, fails, native, answered>>

\* cancel after the children's interrupts: one that fails makes cancel throw.
ChildrenInterrupted ==
    LET c == calls["control"] IN
    /\ c.at = "children" /\ c.reply \in {"ok", "error"}
    /\ IF c.reply = "ok" THEN Interrupt(Released, c.turn, Done("control"))
       ELSE control' = NoControl /\ calls' = Done("control") /\ Unfinished(Released)
    /\ UNCHANGED <<goal, reading, fails, native, answered, stopped>>

\* The goal operation with action pause: pauseGoal up to its first await.
Pause ==
    /\ MayControl
    /\ control' = [op |-> "pause", turn |-> owner.turn]
    /\ calls' = IF calls["goal"] = NoCall THEN Await("control", "set", 0, 0)
                ELSE Await("control", "starting", 0, 0)
    /\ stopped' = stopped \union {owner.turn}
    /\ UNCHANGED <<turn, cur, goal, child, reading, fails, poll, owner, native, reported, answered>>

\* pauseGoal goes on once the goal that is being resumed has started.
PauseJoins ==
    LET c == calls["control"] IN
    /\ c.at = "starting" /\ c.reply \in {"ok", "error"}
    /\ IF c.reply = "ok"
       THEN calls' = Await("control", "set", 0, 0) /\ UNCHANGED <<control, owner>>
       ELSE calls' = Done("control") /\ control' = NoControl /\ owner' = Released
    /\ UNCHANGED <<turn, cur, goal, child, reading, fails, poll, native, record>>

\* pauseGoal: the pause is persisted; the run is interrupted, a turn without one ends.
PausePersisted ==
    LET c == calls["control"] IN
    /\ c.at = "set" /\ c.reply = "ok"
    /\ stopped' = IF turn = 0 THEN stopped ELSE stopped \union {turn}
    /\ IF turn # 0 /\ cur.native # 0
       THEN /\ SetGoal(c.said, [calls EXCEPT !["control"] =
                 [Await("control", "interrupt", turn, cur.native)["control"] EXCEPT !.said = c.said]])
            /\ UNCHANGED control /\ Unfinished(owner)
       ELSE /\ SetGoal(c.said, Done("control"))
            /\ control' = NoControl
            /\ IF turn = 0 THEN Unfinished(Released)
               ELSE IF GoalReleases(c.said) /\ ~(cur.last = "completed" /\ ChildBusy)
               THEN FinishTurn(Released, turn, cur.last)
               ELSE FinishTurn(Released, turn, "interrupted")
    /\ UNCHANGED <<reading, fails, native, answered>>

\* The interrupt of a cancel or a pause is answered.  A pause retries a refused one on
\* the run that has followed; it ends with updateGoal once more.
InterruptAnswered ==
    LET c == calls["control"] IN
    /\ c.at \in {"interrupt", "retry"} /\ c.reply \in {"ok", "error"}
    /\ IF /\ control.op = "pause" /\ c.at = "interrupt" /\ c.reply = "error"
          /\ turn = c.turn /\ cur.native \notin {0, c.run}
       THEN /\ calls' = [calls EXCEPT !["control"] =
                 [Await("control", "retry", turn, cur.native)["control"] EXCEPT !.said = c.said]]
            /\ UNCHANGED <<goal, control>> /\ Unfinished(owner)
       ELSE /\ control' = NoControl
            /\ IF control.op = "pause" /\ ~(c.reply = "error" /\ turn = c.turn /\ cur.native # 0)
               THEN /\ SetGoal(c.said, Done("control"))
                    /\ IF GoalReleases(c.said) THEN FinishTurn(Released, turn, cur.last)
                       ELSE Unfinished(Released)
               ELSE calls' = Done("control") /\ UNCHANGED goal /\ Unfinished(Released)
    /\ UNCHANGED <<reading, fails, native, answered, stopped>>

\* pauseGoal: the pause could not be persisted.
PauseFails ==
    LET c == calls["control"] IN
    /\ c.at = "set" /\ c.reply = "error"
    /\ calls' = Done("control") /\ control' = NoControl /\ owner' = Released
    /\ UNCHANGED <<turn, cur, goal, child, reading, fails, poll, native, record>>

----------------------------------------------------------------------------
(* The end of a native run, and timers.                                    *)

\* finishNativeTurn after reading the goal; if that fails the goal is what it was.
RunFinished ==
    LET c == calls["finish"]
        value == IF c.reply = "ok" THEN Said(c) ELSE goal
    IN
    /\ c.reply \in {"ok", "error"}
    /\ UNCHANGED control
    /\ SetGoal(value, Done("finish"))
    /\ ContinueOrFinish(c.turn, value)
    /\ UNCHANGED <<reading, fails, native, answered, stopped>>

\* waitForGoalTurn: 30 seconds without a run.
WaitExpires ==
    /\ Quiet /\ turn # 0 /\ cur.timer /\ cur.native = 0 /\ calls["timer"] = NoCall
    /\ cur' = [cur EXCEPT !.timer = FALSE, !.last = "failed"]
    /\ calls' = Await("timer", "set", turn, 0)
    /\ stopped' = stopped \union {turn}
    /\ UNCHANGED <<turn, goal, child, reading, fails, poll, owner, control, native, reported, answered>>

\* ... and after the attempt to pause the goal, the turn has failed.
WaitFails ==
    LET c == calls["timer"]
        value == IF c.reply = "ok" THEN c.said ELSE goal
    IN
    /\ c.reply \in {"ok", "error"}
    /\ UNCHANGED control
    /\ SetGoal(value, Done("timer"))
    /\ IF GoalReleases(value) THEN FinishTurn(owner, turn, cur.last)
       ELSE FinishTurn(owner, c.turn, "failed")
    /\ UNCHANGED <<reading, fails, native, answered, stopped>>

\* scheduleSubagents' callback after its reads: a turn that only waits for its children
\* is completed when none is at work or being read; while one is at work the poll goes on,
\* but not for one that is only being read.  "armed" is whether another poll is due already,
\* "awaits" whether another one reads.
PollMutant(armed, childNow, readNow, awaits) ==
    IF turn # 0 /\ cur.childCompletion /\ childNow # "active" /\ ~readNow
    THEN /\ turn' = 0 /\ cur' = NewTurn /\ child' = childNow
         /\ poll' = [armed |-> FALSE, awaits |-> awaits]
         /\ reported' = [reported EXCEPT ![turn] = IF @ = "none" THEN "completed" ELSE "twice"]
         /\ owner' = Told(owner, turn, "completed")
    ELSE /\ child' = childNow
         /\ poll' = [armed |-> armed, awaits |-> awaits]
         /\ cur' = [cur EXCEPT !.missed = cur.childCompletion /\ childNow # "active"]
         /\ UNCHANGED <<turn, owner, reported>>
Poll(armed, childNow, readNow, awaits) ==
    IF turn # 0 /\ cur.childCompletion /\ childNow # "active" /\ ~readNow
    THEN /\ turn' = 0 /\ cur' = NewTurn /\ child' = childNow
         /\ poll' = [armed |-> FALSE, awaits |-> awaits]
         /\ reported' = [reported EXCEPT ![turn] = IF @ = "none" THEN "completed" ELSE "twice"]
         /\ owner' = Told(owner, turn, "completed")
    ELSE /\ child' = childNow
         /\ poll' = [armed |-> armed \/ (turn # 0 /\ childNow = "active"), awaits |-> awaits]
         /\ cur' = [cur EXCEPT !.missed = cur.childCompletion /\ childNow # "active"]
         /\ UNCHANGED <<turn, owner, reported>>

\* The poll's timer: children at work are read, unless they are being read.  A read has
\* five seconds and the timer 700 ms, so it may fire while the last read is under way.
PollFires ==
    /\ Quiet /\ poll.armed
    /\ UNCHANGED control
    /\ IF turn # 0 /\ child = "active" /\ ~reading
       THEN /\ reading' = TRUE
            /\ poll' = [armed |-> FALSE, awaits |-> TRUE]
            /\ UNCHANGED <<turn, cur, child, owner, reported>>
       ELSE Poll(FALSE, child, reading, poll.awaits) /\ UNCHANGED reading
    /\ UNCHANGED <<goal, calls, fails, native, answered, stopped>>

\* readSubagent after its await: the child's state as the native side has it, or one
\* more failure.  The answer to a poll's read runs the rest of the poll.
ReadAnswered(ok) ==
    LET failed == IF turn = 0 THEN fails ELSE IF ok THEN 0
                  ELSE IF fails < MaxFails THEN fails + 1 ELSE fails
        state == IF turn = 0 THEN child
                 ELSE IF ok THEN (IF nativeChild THEN "active" ELSE "over")
                 ELSE IF failed = MaxFails THEN "over" ELSE child
    IN
    /\ Quiet /\ proc = "up" /\ reading
    /\ reading' = FALSE /\ fails' = failed
    /\ UNCHANGED control
    /\ IF poll.awaits THEN Poll(poll.armed, state, FALSE, FALSE)
       ELSE child' = state /\ UNCHANGED <<turn, cur, poll, owner, reported>>
    /\ UNCHANGED <<goal, calls, native, answered, stopped>>

----------------------------------------------------------------------------
(* What the native process does, with the line that tells of it.           *)

Answer(k, how, said) == [calls EXCEPT ![k].reply = how, ![k].said = said]

\* A request written while a chunk is handled is not answered in that chunk; of answers
\* that share one, each might as well come after the continuation of the one before.
Due(k, places) ==
    Quiet /\ proc = "up" /\ calls[k].reply = "waiting" /\ calls[k].at \in places

\* turn/start is taken up, unless a run is in progress; or it is refused.
TakeStart ==
    /\ proc = "up" /\ calls["send"].reply = "waiting" /\ calls["send"].run = 0
    /\ run = 0 /\ runs < MaxRuns
    /\ run' = runs + 1 /\ runs' = runs + 1 /\ serves' = calls["send"].turn
    /\ calls' = [calls EXCEPT !["send"].run = run']
    /\ UNCHANGED <<turn, cur, goal, child, reading, fails, poll, owner, control, proc,
                   announced, halting, nativeGoal, nativeChild, record>>

\* The answer to turn/start; it may come after the run's own lines.
AnswerStart ==
    /\ Due("send", {"start"})
    /\ calls' = Answer("send", IF calls["send"].run # 0 THEN "ok" ELSE "error", "none")
    /\ UNCHANGED <<turn, cur, goal, child, reading, fails, poll, owner, control, native, record>>

\* turn/started: whatever run it is, it is the current turn's from now on.
Announce ==
    /\ proc = "up" /\ run # 0 /\ ~announced /\ announced' = TRUE
    /\ cur' = IF turn = 0 THEN cur
              ELSE [cur EXCEPT !.native = run, !.seen = TRUE, !.waiting = FALSE, !.timer = FALSE]
    /\ UNCHANGED <<turn, goal, calls, child, reading, fails, poll, owner, control, proc,
                   run, runs, halting, nativeGoal, nativeChild, serves, record>>

\* An active goal starts the next run.
ContinueGoal ==
    /\ proc = "up" /\ nativeGoal = "active" /\ run = 0 /\ runs < MaxRuns
    /\ run' = runs + 1 /\ runs' = runs + 1
    /\ UNCHANGED <<engine, owner, control, proc, announced, halting, nativeGoal, nativeChild,
                   serves, record>>

\* The run reaches or gives up its goal, and tells so.
GoalEnds(value) ==
    /\ proc = "up" /\ run # 0 /\ announced /\ nativeGoal = "active" /\ nativeGoal' = value
    /\ UNCHANGED control
    /\ SetGoal(value, calls)
    /\ IF GoalReleases(value) THEN FinishTurn(owner, turn, cur.last) ELSE Unfinished(owner)
    /\ UNCHANGED <<reading, fails, proc, run, runs, announced, halting, nativeChild, serves,
                   answered, stopped>>

\* thread/goal/updated, of a change that an answer has not told or tells later.
TellGoal ==
    /\ proc = "up" /\ nativeGoal # goal
    /\ UNCHANGED control
    /\ SetGoal(nativeGoal, calls)
    /\ IF GoalReleases(nativeGoal) THEN FinishTurn(owner, turn, cur.last) ELSE Unfinished(owner)
    /\ UNCHANGED <<reading, fails, native, answered, stopped>>

\* turn/completed and finishNativeTurn up to its await.  A goal whose run failed does
\* not go on by itself; "finish" stands for one finishNativeTurn at a time.
RunEnds(status) ==
    LET mine == turn # 0 /\ cur.native = run IN
    /\ proc = "up" /\ run # 0 /\ announced /\ calls["finish"] = NoCall
    /\ status \in {"completed"} \union IF halting THEN {"interrupted"} ELSE {"failed"}
    /\ run' = 0 /\ announced' = FALSE /\ halting' = FALSE
    /\ nativeGoal' = IF nativeGoal = "active" /\ status # "completed" THEN "paused" ELSE nativeGoal
    /\ UNCHANGED control
    /\ IF mine /\ status # "completed"
       THEN FinishTurn(owner, turn, status) /\ UNCHANGED calls
       ELSE IF mine
       THEN /\ cur' = [cur EXCEPT !.native = 0, !.last = status]
            /\ calls' = Await("finish", "get", turn, 0)
            /\ UNCHANGED <<turn, child, poll, owner, reported>>
       ELSE Unfinished(owner) /\ UNCHANGED calls
    /\ UNCHANGED <<goal, reading, fails, proc, runs, nativeChild, serves, answered, stopped>>

\* The answer to thread/goal/get; or its ten seconds are up, in which a change of the
\* goal has been told.
AnswerGet(k, ok) ==
    /\ Due(k, {"get"})
    /\ ok \/ nativeGoal = goal
    /\ calls' = IF ok THEN Answer(k, "ok", nativeGoal) ELSE Answer(k, "error", "none")
    /\ UNCHANGED <<turn, cur, goal, child, reading, fails, poll, owner, control, native, record>>

\* The answer to thread/goal/set: there is a goal, and it is active or paused now.
AnswerSet(k) ==
    LET value == IF k = "goal" THEN "active" ELSE "paused" IN
    /\ Due(k, {"set"})
    /\ IF nativeGoal = "none"
       THEN calls' = Answer(k, "error", "none") /\ UNCHANGED <<nativeGoal, serves>>
       ELSE /\ calls' = Answer(k, "ok", value) /\ nativeGoal' = value
            /\ serves' = IF k = "goal" /\ run = 0 THEN calls[k].turn ELSE serves
    /\ UNCHANGED <<turn, cur, goal, child, reading, fails, poll, owner, control, proc, run, runs,
                   announced, halting, nativeChild, record>>

\* The answer to turn/interrupt: refused unless that run is the one in progress.
AnswerInterrupt ==
    /\ Due("control", {"interrupt", "retry"})
    /\ IF run # 0 /\ run = calls["control"].run
       THEN calls' = Answer("control", "ok", calls["control"].said) /\ halting' = TRUE
       ELSE calls' = Answer("control", "error", calls["control"].said) /\ UNCHANGED halting
    /\ UNCHANGED <<turn, cur, goal, child, reading, fails, poll, owner, control, proc, run, runs,
                   announced, nativeGoal, nativeChild, serves, record>>

\* The answer to the interrupt of a child.
AnswerChildren ==
    /\ Due("control", {"children"})
    /\ calls' = Answer("control", IF nativeChild THEN "ok" ELSE "error", "none")
    /\ UNCHANGED <<turn, cur, goal, child, reading, fails, poll, owner, control, native, record>>

\* The run starts its child, or sets it to work again.
Spawn ==
    /\ proc = "up" /\ run # 0 /\ announced /\ child # "active" /\ ~nativeChild
    /\ serves <= ChildTurns /\ turn <= ChildTurns
    /\ nativeChild' = TRUE
    /\ IF turn # 0 THEN child' = "active" /\ poll' = [poll EXCEPT !.armed = TRUE]
       ELSE UNCHANGED <<child, poll>>
    /\ UNCHANGED <<turn, cur, goal, calls, reading, fails, owner, control, proc, run, runs,
                   announced, halting, nativeGoal, serves, record>>

\* turn/completed of the child's thread, which is read once more; or the end of a child
\* of which only a read can tell.
ChildEnds(told) ==
    /\ proc = "up" /\ nativeChild /\ nativeChild' = FALSE
    /\ IF told /\ turn # 0 /\ child # "none"
       THEN child' = "over" /\ reading' = TRUE /\ poll' = [poll EXCEPT !.armed = TRUE]
       ELSE UNCHANGED <<child, reading, poll>>
    /\ UNCHANGED <<turn, cur, goal, calls, fails, owner, control, proc, run, runs, announced,
                   halting, nativeGoal, serves, record>>

\* The process exits: whatever awaits it is rejected, and a turn under way fails.
Exit ==
    /\ Quiet /\ proc = "up" /\ proc' = "down"
    /\ run' = 0 /\ announced' = FALSE /\ halting' = FALSE /\ nativeGoal' = goal
    /\ nativeChild' = FALSE /\ reading' = FALSE
    /\ UNCHANGED control
    /\ IF turn = 0 THEN Unfinished(owner) ELSE FinishTurn(owner, turn, "failed")
    /\ calls' = [k \in Tasks |-> IF calls[k].reply = "waiting"
                                 THEN [calls[k] EXCEPT !.reply = "error"] ELSE calls[k]]
    /\ UNCHANGED <<goal, fails, runs, serves, answered, stopped>>

Continue ==
    \/ SendAnswered
    \/ GoalRead
    \/ GoalActivated
    \/ GoalNotResumed
    \/ ChildrenInterrupted
    \/ PauseJoins
    \/ PausePersisted
    \/ InterruptAnswered
    \/ PauseFails
    \/ RunFinished
    \/ WaitFails
    \/ Settle
    \/ InvocationEnds

Host == Cancel \/ Pause \/ \E t \in Turn : Busy(t) \/ Send(t) \/ ResumeGoal(t)

ReadEnds == \E ok \in BOOLEAN : ReadAnswered(ok)

\* The limit of a wait, and of the pause of the goal that follows it.
WaitLimit == WaitExpires \/ AnswerSet("timer")

Native ==
    \/ TakeStart
    \/ AnswerStart
    \/ Announce
    \/ ContinueGoal
    \/ \E value \in {"none", "paused"} : GoalEnds(value)
    \/ TellGoal
    \/ \E status \in Statuses : RunEnds(status)
    \/ \E k \in {"goal", "finish"}, ok \in BOOLEAN : AnswerGet(k, ok)
    \/ \E k \in {"goal", "control"} : AnswerSet(k)
    \/ AnswerInterrupt
    \/ AnswerChildren
    \/ Spawn
    \/ \E told \in BOOLEAN : ChildEnds(told)
    \/ Exit

Next == Continue \/ Host \/ WaitLimit \/ PollFires \/ ReadEnds \/ Native

Spec == Init /\ [][Next]_vars

\* Settled promises are handled, timers fire, and reads and the pause of an expired wait
\* have time limits of their own; the native side owes nothing else.
Fairness ==
    WF_vars(Continue) /\ WF_vars(WaitLimit) /\ WF_vars(PollFires) /\ WF_vars(ReadEnds)

FairSpec == Spec /\ Fairness

----------------------------------------------------------------------------
(* Properties.                                                             *)

TypeOK ==
    /\ turn \in Turn \union {0} /\ goal \in Goals /\ nativeGoal \in Goals
    /\ cur \in [native : Run \union {0}, seen : BOOLEAN, waiting : BOOLEAN, timer : BOOLEAN,
                last : Statuses, childCompletion : BOOLEAN, missed : BOOLEAN]
    /\ calls \in [Tasks -> [at : {"none", "start", "get", "set", "starting", "children",
                                  "interrupt", "retry"},
                            turn : Turn \union {0}, run : Run \union {0},
                            reply : {"none", "waiting", "ok", "error"}, said : Goals,
                            fresh : BOOLEAN]]
    /\ child \in {"none", "active", "over"} /\ reading \in BOOLEAN /\ fails \in 0..MaxFails
    /\ poll \in [armed : BOOLEAN, awaits : BOOLEAN]
    /\ owner \in [turn : Turn \union {0}, terminal : Statuses \union {"none"},
                  settling : BOOLEAN, final : BOOLEAN]
    /\ control \in [op : {"none", "cancel", "pause"}, turn : Turn \union {0}]
    /\ proc \in {"up", "down"} /\ run \in Run \union {0} /\ runs \in 0..MaxRuns
    /\ announced \in BOOLEAN /\ halting \in BOOLEAN /\ nativeChild \in BOOLEAN
    /\ serves \in Turn \union {0}
    /\ reported \in [Turn -> Statuses \union {"none", "twice"}]
    /\ answered \in [Turn -> {"none", "ok", "error"}]
    /\ stopped \subseteq Turn

\* A turn is reported once at most, and an invocation that is answered as done has had
\* its last event before, however its end raced a control, a timer or the next run.
TurnAnswered ==
    \A t \in Turn : /\ reported[t] # "twice"
                    /\ answered[t] = "ok" => reported[t] \in Statuses

\* Turns from the first stopped one on: a run that was stopped before the engine knew of
\* it goes on unseen, and the next turn may take it for its own.
Unsettled(t, stops) == \E u \in stops : u <= t

\* No native run goes on for a turn that is over: the engine follows the turn through
\* every run its goal starts.
RunsTracked == run # 0 /\ turn # serves => Unsettled(serves, stopped)

\* A turn is completed only when its runs and its children are through and its goal
\* starts no further run, and it is interrupted only if the user stopped it, or one before
\* it: a cancel that awaits the children of its turn ends the turn it finds afterwards.
StatusHonest ==
    [][\A t \in Turn : reported'[t] # reported[t] =>
         /\ reported'[t] = "completed" =>
              \/ Unsettled(t, stopped')
              \/ run = 0 /\ child' # "active" /\ ~reading' /\ goal' # "active"
         /\ reported'[t] = "interrupted" => Unsettled(t, stopped')]_vars

\* A turn waits for a run of its goal, or to be completed though its child is through.
HeldUp == cur.waiting \/ (cur.childCompletion /\ ~nativeChild)

\* A poll found the child of such a turn still being read, and there will be no other.
Overlooked == cur.missed /\ ~poll.armed /\ ~poll.awaits

\* A turn whose answer is in is kept only until its children are through or reading them
\* has failed.  The code does not hold this: a poll that comes while the last read is
\* under way is not repeated.
TurnsReleased == []<>~HeldUp
=============================================================================
