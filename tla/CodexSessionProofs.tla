------------------------- MODULE CodexSessionProofs -------------------------
(***************************************************************************)
(* Proofs about CodexSession, for any number of turns, native runs, stops  *)
(* and failed reads:                                                       *)
(*   - the type invariant (TypeCorrect);                                   *)
(*   - a turn is reported at most once, and an invocation that is answered *)
(*     as done has had its last event before (AnsweredOnce);               *)
(*   - no native run goes on for a turn that is over, unless it or one     *)
(*     before it was stopped (RunsFollowed);                               *)
(*   - a turn is completed only when its runs, children and goal are       *)
(*     through, and interrupted only when it may be (HonestReports).       *)
(* Reports is what the second rests on.  The last two need to know how the *)
(* engine and the native side keep in step: Order says in which order turns*)
(* are known, Basics what holds of a session at any time, and Tracked that *)
(* until something is stopped the engine knows, or is about to hear, what  *)
(* the native side runs and for which turn; after that, what still runs is *)
(* of a turn from the first stopped one on.                                *)
(*                                                                         *)
(* Each step lemma first says what a helper of the module leaves behind,   *)
(* and then goes through the actions.                                      *)
(***************************************************************************)
EXTENDS CodexSession, TLAPS

\* 0, "no turn", is not the number of a turn.
LEMMA TurnPositive == 0 \notin Turn
  BY DEF Turn

----------------------------------------------------------------------------
(* Types.                                                                  *)

\* TypeOK with its functions and records by name, so that a step need not look into those
\* it leaves alone.  A function that was answered, other than a pause, knows its turn,
\* and so does an invocation.
Ats     == {"none", "start", "get", "set", "starting", "children", "interrupt", "retry"}
Replies == {"none", "waiting", "ok", "error"}
CallSet == [at : Ats, turn : Turn \union {0}, run : Run \union {0}, reply : Replies, said : Goals,
            fresh : BOOLEAN]
CallMaps == {c \in [Tasks -> CallSet] :
               \A k \in Tasks : /\ k # "control" /\ c[k].turn = 0 => c[k].reply = "none"
                                /\ c[k].at = "children" => c[k].turn # 0}
CurSet  == [native : Run \union {0}, seen : BOOLEAN, waiting : BOOLEAN, timer : BOOLEAN,
            last : Statuses, childCompletion : BOOLEAN, missed : BOOLEAN]
OwnerSet == [turn : Turn \union {0}, terminal : Statuses \union {"none"},
             settling : BOOLEAN, final : BOOLEAN]
Owners  == {o \in OwnerSet : o.turn = 0 => o = NoOwner}
Controls == [op : {"none", "cancel", "pause"}, turn : Turn \union {0}]
Polls   == [armed : BOOLEAN, awaits : BOOLEAN]
ReportMaps == [Turn -> Statuses \union {"none", "twice"}]
AnswerMaps == [Turn -> {"none", "ok", "error"}]
Children == {"none", "active", "over"}

\* What finishing a turn may write, and the rest.
TurnTyped ==
    /\ turn \in Turn \union {0} /\ cur \in CurSet /\ child \in Children /\ poll \in Polls
    /\ owner \in Owners /\ reported \in ReportMaps
NativeTyped ==
    /\ nativeGoal \in Goals /\ proc \in {"up", "down"} /\ run \in Run \union {0}
    /\ runs \in 0..MaxRuns /\ announced \in BOOLEAN /\ halting \in BOOLEAN
    /\ nativeChild \in BOOLEAN /\ serves \in Turn \union {0}
RestTyped ==
    /\ goal \in Goals /\ calls \in CallMaps /\ reading \in BOOLEAN /\ fails \in 0..MaxFails
    /\ control \in Controls /\ answered \in AnswerMaps /\ stopped \subseteq Turn
Typed == TurnTyped /\ NativeTyped /\ RestTyped

LEMMA TypedIsTypeOK == Typed => TypeOK
  BY DEF Typed, TurnTyped, NativeTyped, RestTyped, TypeOK, Ats, Replies, CallSet, CallMaps, CurSet,
         Owners, OwnerSet, Controls, Polls, ReportMaps, AnswerMaps, Children

\* The records the code starts from.
LEMMA Blank ==
    /\ NewTurn \in CurSet /\ NoCall \in CallSet /\ NoOwner \in Owners /\ NoControl \in Controls
    /\ [k \in Tasks |-> NoCall] \in CallMaps
    /\ NoCall.at = "none" /\ NoCall.turn = 0 /\ NoCall.reply = "none"
  BY DEF NewTurn, CurSet, Statuses, NoCall, CallSet, Ats, Replies, Goals, NoOwner, Owners, OwnerSet,
         NoControl, Controls, CallMaps

LEMMA TypeInit == CodexAssumption /\ Init => Typed
<1> SUFFICES ASSUME CodexAssumption, Init
             PROVE  Typed
  OBVIOUS
<1>1. TurnTyped
  BY Blank DEF Init, TurnTyped, Children, Polls, ReportMaps
<1>a. 0 \in 0..MaxRuns /\ 0 \in 0..MaxFails
  BY DEF CodexAssumption
<1>2. NativeTyped
  BY <1>a DEF Init, NativeTyped, Goals
<1>3. RestTyped
  BY <1>a, Blank DEF Init, RestTyped, Goals, AnswerMaps
<1> QED
  BY <1>1, <1>2, <1>3 DEF Typed

\* What is written into the calls.
LEMMA CallWrites ==
    ASSUME calls \in CallMaps
    PROVE  /\ \A k \in Tasks : calls[k] \in CallSet
           /\ \A k \in Tasks \ {"control"} : calls[k].reply # "none" => calls[k].turn \in Turn
           /\ \A k \in Tasks, at \in Ats, t \in Turn \union {0}, n \in Run \union {0} :
                (k = "control" /\ at # "children") \/ t # 0 =>
                  /\ Await(k, at, t, n) \in CallMaps
                  /\ Await(k, at, t, n)[k] \in CallSet /\ Await(k, at, t, n)[k].turn = t
                  /\ Await(k, at, t, n)[k].at = at
           /\ \A k \in Tasks : Done(k) \in CallMaps
           /\ \A c \in CallMaps : Stale(c) \in CallMaps
           /\ \A c \in CallMaps, how \in Replies : Joined(c, how) \in CallMaps
           /\ \A c \in CallMaps, r \in CallSet :
                r.at # "children" => [c EXCEPT !["control"] = r] \in CallMaps
<1>1. \A k \in Tasks : calls[k] \in CallSet
  BY DEF CallMaps
<1>2. \A k \in Tasks \ {"control"} : calls[k].reply # "none" => calls[k].turn \in Turn
  <2> SUFFICES ASSUME NEW k \in Tasks \ {"control"}, calls[k].reply # "none"
               PROVE  calls[k].turn \in Turn
    OBVIOUS
  <2>1. calls[k].turn # 0
    BY DEF CallMaps
  <2>2. calls[k].turn \in Turn \union {0}
    BY <1>1 DEF CallSet
  <2> QED
    BY <2>1, <2>2
<1>3. ASSUME NEW k \in Tasks, NEW a \in Ats, NEW t \in Turn \union {0}, NEW n \in Run \union {0},
             (k = "control" /\ a # "children") \/ t # 0
      PROVE  /\ Await(k, a, t, n) \in CallMaps
             /\ Await(k, a, t, n)[k] \in CallSet /\ Await(k, a, t, n)[k].turn = t
             /\ Await(k, a, t, n)[k].at = a
  <2> DEFINE r == [at |-> a, turn |-> t, run |-> n, reply |-> "waiting",
                   said |-> "none", fresh |-> k \in {"goal", "finish"}]
  <2>1. r \in CallSet
    BY DEF CallSet, Replies, Goals
  <2>2. Await(k, a, t, n) = [calls EXCEPT ![k] = r] /\ r.turn = t /\ r.at = a
    BY DEF Await
  <2> HIDE DEF r
  <2> QED
    BY <1>3, <2>1, <2>2 DEF CallMaps
<1>4. \A k \in Tasks : Done(k) \in CallMaps
  BY Blank DEF Done, CallMaps
<1>5. ASSUME NEW c \in CallMaps
      PROVE  Stale(c) \in CallMaps
  <2>1. \A k \in Tasks : c[k] \in CallSet
    BY DEF CallMaps
  <2>2. \A r \in CallSet : /\ [r EXCEPT !.fresh = FALSE] \in CallSet
                          /\ [r EXCEPT !.fresh = FALSE].turn = r.turn
                          /\ [r EXCEPT !.fresh = FALSE].reply = r.reply
                          /\ [r EXCEPT !.fresh = FALSE].at = r.at
    BY DEF CallSet
  <2> QED
    BY <2>1, <2>2 DEF Stale, CallMaps
<1>6. ASSUME NEW c \in CallMaps, NEW r \in CallSet, r.at # "children"
      PROVE  [c EXCEPT !["control"] = r] \in CallMaps
  BY <1>6 DEF CallMaps
<1>7. ASSUME NEW c \in CallMaps, NEW how \in Replies
      PROVE  Joined(c, how) \in CallMaps
  <2> DEFINE r == [c["control"] EXCEPT !.reply = how]
  <2>1. c["control"] \in CallSet
    BY DEF CallMaps, Tasks
  <2>2. r \in CallSet /\ r.at = c["control"].at
    BY <2>1 DEF CallSet
  <2>3. Joined(c, how) = c \/ (Joined(c, how) = [c EXCEPT !["control"] = r] /\ c["control"].at = "starting")
    BY DEF Joined
  <2> HIDE DEF r
  <2> QED
    BY <1>6, <2>2, <2>3
<1> QED
  BY <1>1, <1>2, <1>3, <1>4, <1>5, <1>6, <1>7

\* What is written into the current turn.
LEMMA CurWrites ==
    ASSUME cur \in CurSet
    PROVE  /\ cur.native \in Run \union {0} /\ cur.last \in Statuses
           /\ [cur EXCEPT !.childCompletion = TRUE] \in CurSet
           /\ [cur EXCEPT !.waiting = TRUE, !.timer = TRUE] \in CurSet
           /\ [cur EXCEPT !.timer = FALSE, !.last = "failed"] \in CurSet
           /\ \A n \in Run \union {0} : [cur EXCEPT !.native = n] \in CurSet
           /\ \A n \in Run \union {0} :
                [cur EXCEPT !.native = n, !.seen = TRUE, !.waiting = FALSE, !.timer = FALSE] \in CurSet
           /\ \A status \in Statuses : [cur EXCEPT !.native = 0, !.last = status] \in CurSet
  BY DEF CurSet, Statuses

\* A poll that leaves the turn as it is notes in it whether it was the last.
LEMMA Noted ==
    ASSUME cur \in CurSet, NEW b \in BOOLEAN
    PROVE  LET c == [cur EXCEPT !.missed = b] IN
           /\ c \in CurSet /\ c.native = cur.native /\ (c.seen <=> cur.seen)
           /\ (c.waiting <=> cur.waiting) /\ c.last = cur.last
           /\ (c.childCompletion <=> cur.childCompletion)
  BY DEF CurSet

LEMMA PollNotes ==
    ASSUME cur \in CurSet, NEW armed, NEW childNow, NEW readNow, NEW awaits,
           Poll(armed, childNow, readNow, awaits)
    PROVE  \/ turn # 0 /\ cur.childCompletion /\ turn' = 0 /\ cur' = NewTurn
           \/ UNCHANGED <<turn, owner>> /\ \E b \in BOOLEAN : cur' = [cur EXCEPT !.missed = b]
<1>1. (cur.childCompletion /\ childNow # "active") \in BOOLEAN
  BY DEF CurSet
<1> QED
  BY <1>1 DEF Poll

LEMMA ReleasedTyped == owner \in Owners => Released \in Owners
<1>1. ASSUME owner \in Owners, owner.terminal # "none"
      PROVE  [owner EXCEPT !.settling = TRUE] \in Owners
  <2>1. owner.turn # 0
    BY <1>1 DEF Owners, NoOwner
  <2> QED
    BY <1>1, <2>1 DEF Owners, OwnerSet
<1> QED
  BY <1>1 DEF Released

LEMMA FinishTypes ==
    ASSUME TurnTyped, NEW o \in Owners, NEW t \in Turn, NEW status \in Statuses,
           FinishTurn(o, t, status)
    PROVE  TurnTyped'
<1>1. Told(o, t, status) \in Owners
  BY TurnPositive DEF Told, Owners, OwnerSet
<1>2. /\ cur' \in CurSet /\ owner' \in Owners /\ turn' \in Turn \union {0}
  BY <1>1, Blank, CurWrites DEF FinishTurn, TurnTyped
<1>3. child' \in Children /\ poll' \in Polls /\ reported' \in ReportMaps
  BY DEF FinishTurn, TurnTyped, Children, Polls, ReportMaps
<1> QED
  BY <1>2, <1>3 DEF TurnTyped

LEMMA UnfinishedTypes ==
    ASSUME TurnTyped, NEW o \in Owners, Unfinished(o)
    PROVE  TurnTyped'
  BY DEF Unfinished, TurnTyped

LEMMA ContinueTypes ==
    ASSUME TurnTyped, NEW t \in Turn, NEW value \in Goals, ContinueOrFinish(t, value)
    PROVE  TurnTyped'
<1>1. turn \in Turn \union {0} /\ cur.last \in Statuses /\ "completed" \in Statuses /\ owner \in Owners
  BY CurWrites DEF TurnTyped, Statuses
<1>2. ASSUME \/ turn # 0 /\ FinishTurn(owner, turn, cur.last)
             \/ FinishTurn(owner, t, "completed")
             \/ Unfinished(owner)
      PROVE  TurnTyped'
  BY <1>1, <1>2, FinishTypes, UnfinishedTypes
<1>3. ASSUME cur' = [cur EXCEPT !.waiting = TRUE, !.timer = TRUE],
             UNCHANGED <<turn, child, poll, owner, reported>>
      PROVE  TurnTyped'
  BY <1>3, CurWrites DEF TurnTyped
<1> QED
  BY <1>2, <1>3 DEF ContinueOrFinish, GoalReleases

LEMMA GoalTypes ==
    ASSUME goal \in Goals, NEW value \in Goals, NEW c \in CallMaps, calls \in CallMaps,
           SetGoal(value, c)
    PROVE  goal' \in Goals /\ calls' \in CallMaps
  BY CallWrites DEF SetGoal

LEMMA InterruptTypes ==
    ASSUME TurnTyped, calls \in CallMaps,
           NEW o \in Owners, NEW t \in Turn, NEW c \in CallMaps, Interrupt(o, t, c)
    PROVE  TurnTyped' /\ control' \in Controls /\ calls' \in CallMaps
<1>1. /\ turn \in Turn \union {0} /\ cur.native \in Run \union {0} /\ owner \in Owners
      /\ "interrupted" \in Statuses /\ NoControl \in Controls
      /\ [op |-> "cancel", turn |-> t] \in Controls
  BY CurWrites, Blank DEF TurnTyped, Statuses, Controls
<1>2. TurnTyped'
  BY <1>1, FinishTypes, UnfinishedTypes DEF Interrupt
<1>3. /\ Await("control", "interrupt", t, cur.native)["control"] \in CallSet
      /\ Await("control", "interrupt", t, cur.native)["control"].at = "interrupt"
  BY <1>1, CallWrites DEF Tasks, Ats
<1>4. control' \in Controls /\ calls' \in CallMaps
  BY <1>1, <1>3, CallWrites DEF Interrupt
<1> QED
  BY <1>2, <1>4

LEMMA PollTypes ==
    ASSUME TurnTyped, NEW armed \in BOOLEAN, NEW childNow \in Children, NEW readNow \in BOOLEAN,
           NEW awaits \in BOOLEAN, Poll(armed, childNow, readNow, awaits)
    PROVE  TurnTyped'
<1>1. turn # 0 => Told(owner, turn, "completed") \in Owners
  BY DEF Told, Owners, OwnerSet, TurnTyped, Statuses
<1>2. turn' \in Turn \union {0} /\ cur' \in CurSet
  BY PollNotes, Noted, Blank DEF TurnTyped
<1>3. poll' \in Polls
  <2>1. (armed \/ (turn # 0 /\ childNow = "active")) \in BOOLEAN
    OBVIOUS
  <2>2. poll' = [armed |-> FALSE, awaits |-> awaits] \/ poll' = [armed |-> armed \/ (turn # 0 /\ childNow = "active"), awaits |-> awaits]
    BY DEF Poll
  <2>3. \A a, b \in BOOLEAN : [armed |-> a, awaits |-> b] \in Polls
    BY DEF Polls
  <2> QED
    BY <2>1, <2>2, <2>3
<1>4. reported' \in ReportMaps
  BY DEF Poll, TurnTyped, ReportMaps, Statuses
<1>5. owner' \in Owners /\ child' \in Children
  BY <1>1 DEF Poll, TurnTyped
<1> QED
  BY <1>2, <1>3, <1>4, <1>5 DEF TurnTyped

LEMMA EndTypes ==
    ASSUME answered \in AnswerMaps, NEW how \in {"ok", "error"}, EndInvocation(how)
    PROVE  answered' \in AnswerMaps /\ owner' \in Owners
  BY Blank DEF EndInvocation, AnswerMaps

LEMMA TypeStep == CodexAssumption /\ Typed /\ [Next]_vars => Typed'
<1> SUFFICES ASSUME CodexAssumption, Typed, [Next]_vars
             PROVE  TurnTyped' /\ NativeTyped' /\ RestTyped'
  BY DEF Typed
<1>a. /\ turn \in Turn \union {0} /\ cur \in CurSet /\ child \in Children /\ poll \in Polls
      /\ owner \in Owners /\ reported \in ReportMaps
      /\ goal \in Goals /\ calls \in CallMaps /\ control \in Controls /\ answered \in AnswerMaps
      /\ Released \in Owners /\ stopped \subseteq Turn
      /\ TurnTyped /\ NativeTyped /\ RestTyped
  BY ReleasedTyped DEF Typed, TurnTyped, RestTyped
<1>b. NoControl \in Controls /\ cur.last \in Statuses /\ Statuses = {"completed", "interrupted", "failed"}
  BY <1>a, Blank, CurWrites DEF Statuses
<1>c. \A c \in CallSet : c.said \in Goals /\ c.turn \in Turn \union {0} /\ c.run \in Run \union {0}
                         /\ Said(c) \in Goals
  BY <1>a DEF CallSet, Said
<1>d. /\ calls["send"] \in CallSet /\ calls["goal"] \in CallSet /\ calls["finish"] \in CallSet
      /\ calls["timer"] \in CallSet /\ calls["control"] \in CallSet
      /\ \A k \in {"send", "goal", "finish", "timer"} : calls[k].reply # "none" => calls[k].turn \in Turn
  BY <1>a, CallWrites DEF Tasks
<1>e. /\ \A k \in Tasks : Done(k) \in CallMaps
      /\ \A k \in {"send", "goal", "finish", "timer"}, at \in {"start", "get", "set"}, t \in Turn :
           /\ Await(k, at, t, 0) \in CallMaps
           /\ Await(k, at, t, 0)[k] \in CallSet /\ Await(k, at, t, 0)[k].turn = t
      /\ \A at \in {"set", "starting", "children", "interrupt", "retry"},
            t \in Turn \union {0}, n \in Run \union {0} : at # "children" \/ t # 0 =>
           /\ Await("control", at, t, n) \in CallMaps
           /\ Await("control", at, t, n)["control"] \in CallSet
           /\ Await("control", at, t, n)["control"].at = at
  BY <1>a, CallWrites, TurnPositive DEF Tasks, Ats
<1>1. ASSUME NEW t \in Turn, Busy(t)
      PROVE  TurnTyped' /\ NativeTyped' /\ RestTyped'
  <2>1. answered' \in AnswerMaps
    BY <1>1, <1>a DEF Busy, AnswerMaps
  <2> QED
    BY <1>1, <1>a, <2>1 DEF Busy, engine, native, TurnTyped, NativeTyped, RestTyped
<1>2. ASSUME NEW t \in Turn, Send(t) \/ ResumeGoal(t)
      PROVE  TurnTyped' /\ NativeTyped' /\ RestTyped'
  <2>1. [NoOwner EXCEPT !.turn = t] \in Owners
    BY TurnPositive DEF NoOwner, Owners, OwnerSet
  <2> QED
    BY <1>2, <1>a, <1>e, <2>1, Blank
    DEF Send, ResumeGoal, native, record, Tasks, TurnTyped, NativeTyped, RestTyped
<1>3. CASE SendAnswered
  <2>1. calls["send"].run \in Run \union {0} /\ calls' \in CallMaps
    BY <1>3, <1>c, <1>d, <1>e DEF SendAnswered, Tasks
  <2>a. cur' \in CurSet
    BY <1>3, <1>a, <2>1, CurWrites DEF SendAnswered
  <2>2. owner' \in Owners /\ answered' \in AnswerMaps
    BY <1>3, <1>a, EndTypes DEF SendAnswered
  <2> QED
    BY <1>3, <1>a, <2>1, <2>a, <2>2 DEF SendAnswered, native, TurnTyped, NativeTyped, RestTyped
<1>4. CASE GoalRead
  <2>1. /\ Await("goal", "set", calls["goal"].turn, 0)["goal"] \in CallSet
        /\ Await("goal", "set", calls["goal"].turn, 0)["goal"].turn \in Turn
    BY <1>4, <1>d, <1>e DEF GoalRead
  <2>2. calls' \in CallMaps
    <3>1. PICK c \in CallMaps : calls' = [c EXCEPT !["goal"] = Await("goal", "set", calls["goal"].turn, 0)["goal"]]
      BY <1>4, <1>a, CallWrites DEF GoalRead
    <3> QED
      BY <2>1, <3>1, TurnPositive DEF CallMaps
  <2>3. goal' \in Goals
    BY <1>4, <1>c, <1>d DEF GoalRead
  <2> QED
    BY <1>4, <1>a, <2>2, <2>3 DEF GoalRead, native, record, TurnTyped, NativeTyped, RestTyped
<1>5. CASE GoalActivated
  <2>1. /\ Said(calls["goal"]) \in Goals /\ calls["goal"].turn \in Turn
        /\ Joined(Done("goal"), "ok") \in CallMaps
    BY <1>5, <1>a, <1>c, <1>d, <1>e, CallWrites DEF GoalActivated, Tasks, Replies
  <2>2. TurnTyped' /\ goal' \in Goals /\ calls' \in CallMaps
    BY <1>5, <1>a, <2>1, ContinueTypes, GoalTypes DEF GoalActivated
  <2> QED
    BY <1>5, <1>a, <2>2 DEF GoalActivated, native, NativeTyped, RestTyped
<1>6. CASE GoalNotResumed
  <2>1. Joined(Done("goal"), "error") \in CallMaps /\ "none" \in Goals
    BY <1>a, <1>e, CallWrites DEF Tasks, Replies, Goals
  <2>2. goal' \in Goals /\ calls' \in CallMaps
    BY <1>6, <1>a, <2>1, GoalTypes DEF GoalNotResumed
  <2>3. owner' \in Owners /\ answered' \in AnswerMaps
    BY <1>6, <1>a, EndTypes DEF GoalNotResumed
  <2> QED
    BY <1>6, <1>a, <2>2, <2>3, Blank DEF GoalNotResumed, native, TurnTyped, NativeTyped, RestTyped
<1>7. CASE Settle
  <2>1. owner.turn # 0 /\ (owner.final \/ control.turn # owner.turn) \in BOOLEAN
    BY <1>7, <1>a DEF Settle, Owners, NoOwner
  <2>2. owner' = [owner EXCEPT !.settling = FALSE, !.final = (owner.final \/ control.turn # owner.turn)]
    BY <1>7 DEF Settle
  <2>3. \A b \in BOOLEAN : [owner EXCEPT !.settling = FALSE, !.final = b] \in Owners
    BY <1>a, <2>1 DEF Owners, OwnerSet
  <2>4. owner' \in Owners
    BY <2>1, <2>2, <2>3
  <2> QED
    BY <1>7, <1>a, <2>4 DEF Settle, engine, native, record, TurnTyped, NativeTyped, RestTyped
<1>8. CASE InvocationEnds
  <2>1. owner' \in Owners /\ answered' \in AnswerMaps
    BY <1>8, <1>a, EndTypes DEF InvocationEnds
  <2> QED
    BY <1>8, <1>a, <2>1 DEF InvocationEnds, engine, native, TurnTyped, NativeTyped, RestTyped
<1>9. CASE Cancel
  <2>1. turn \in Turn /\ [op |-> "cancel", turn |-> turn] \in Controls
    BY <1>9, <1>a DEF Cancel, MayControl, Owners, Controls
  <2>2. TurnTyped' /\ control' \in Controls /\ calls' \in CallMaps
    BY <1>9, <1>a, <1>e, <2>1, TurnPositive, InterruptTypes, UnfinishedTypes DEF Cancel
  <2> QED
    BY <1>9, <1>a, <2>1, <2>2 DEF Cancel, native, NativeTyped, RestTyped
<1>10. CASE ChildrenInterrupted
  <2>1. calls["control"].turn \in Turn
    BY <1>10, <1>a, <1>c, <1>d DEF ChildrenInterrupted, CallMaps, Tasks
  <2>2. TurnTyped' /\ control' \in Controls /\ calls' \in CallMaps
    BY <1>10, <1>a, <1>b, <1>e, <2>1, InterruptTypes, UnfinishedTypes DEF ChildrenInterrupted, Tasks
  <2> QED
    BY <1>10, <1>a, <2>2 DEF ChildrenInterrupted, native, NativeTyped, RestTyped
<1>11. CASE Pause
  <2>1. owner.turn \in Turn /\ [op |-> "pause", turn |-> owner.turn] \in Controls
    BY <1>11, <1>a DEF Pause, MayControl, Owners, OwnerSet, Controls
  <2>2. control' \in Controls /\ calls' \in CallMaps /\ stopped' \subseteq Turn
    BY <1>11, <1>a, <1>e, <2>1 DEF Pause
  <2> QED
    BY <1>11, <1>a, <2>2 DEF Pause, native, TurnTyped, NativeTyped, RestTyped
<1>12. CASE PauseJoins
  <2>1. control' \in Controls /\ calls' \in CallMaps /\ owner' \in Owners
    BY <1>12, <1>a, <1>b, <1>e DEF PauseJoins, Tasks
  <2> QED
    BY <1>12, <1>a, <2>1 DEF PauseJoins, native, record, TurnTyped, NativeTyped, RestTyped
<1>13. CASE PausePersisted
  <2>1. calls["control"].said \in Goals /\ turn \in Turn \union {0} /\ cur.native \in Run \union {0}
    BY <1>a, <1>c, <1>d, CurWrites
  <2>2. stopped' \subseteq Turn
    BY <1>13, <1>a DEF PausePersisted
  <2>3. goal' \in Goals /\ calls' \in CallMaps /\ control' \in Controls
    <3>1. [Await("control", "interrupt", turn, cur.native)["control"] EXCEPT !.said = calls["control"].said] \in
            {r \in CallSet : r.at # "children"}
      BY <1>e, <2>1 DEF CallSet
    <3>2. [calls EXCEPT !["control"] =
             [Await("control", "interrupt", turn, cur.native)["control"] EXCEPT !.said = calls["control"].said]] \in CallMaps
      BY <1>a, <3>1, CallWrites
    <3> QED
      BY <1>13, <1>a, <1>b, <1>e, <2>1, <3>2, GoalTypes DEF PausePersisted, Tasks
  <2>4. TurnTyped'
    BY <1>13, <1>a, <1>b, FinishTypes, UnfinishedTypes DEF PausePersisted
  <2> QED
    BY <1>13, <1>a, <2>2, <2>3, <2>4 DEF PausePersisted, native, NativeTyped, RestTyped
<1>14. CASE InterruptAnswered
  <2>1. calls["control"].said \in Goals /\ turn \in Turn \union {0} /\ cur.native \in Run \union {0}
    BY <1>a, <1>c, <1>d, CurWrites
  <2>2. goal' \in Goals /\ calls' \in CallMaps /\ control' \in Controls
    <3>1. [Await("control", "retry", turn, cur.native)["control"] EXCEPT !.said = calls["control"].said] \in
            {r \in CallSet : r.at # "children"}
      BY <1>e, <2>1 DEF CallSet
    <3>2. [calls EXCEPT !["control"] =
             [Await("control", "retry", turn, cur.native)["control"] EXCEPT !.said = calls["control"].said]] \in CallMaps
      BY <1>a, <3>1, CallWrites
    <3> QED
      BY <1>14, <1>a, <1>b, <1>e, <2>1, <3>2, GoalTypes DEF InterruptAnswered, Tasks
  <2>3. TurnTyped'
    BY <1>14, <1>a, <1>b, FinishTypes, UnfinishedTypes DEF InterruptAnswered, GoalReleases
  <2> QED
    BY <1>14, <1>a, <2>2, <2>3 DEF InterruptAnswered, native, NativeTyped, RestTyped
<1>15. CASE PauseFails
  <2>1. control' \in Controls /\ calls' \in CallMaps /\ owner' \in Owners
    BY <1>15, <1>a, <1>b, <1>e DEF PauseFails, Tasks
  <2> QED
    BY <1>15, <1>a, <2>1 DEF PauseFails, native, record, TurnTyped, NativeTyped, RestTyped
<1>16. CASE RunFinished
  <2>1. /\ (IF calls["finish"].reply = "ok" THEN Said(calls["finish"]) ELSE goal) \in Goals
        /\ calls["finish"].turn \in Turn /\ Done("finish") \in CallMaps
    BY <1>16, <1>a, <1>c, <1>d, <1>e DEF RunFinished, Tasks
  <2>2. TurnTyped' /\ goal' \in Goals /\ calls' \in CallMaps
    BY <1>16, <1>a, <2>1, ContinueTypes, GoalTypes DEF RunFinished
  <2> QED
    BY <1>16, <1>a, <2>2 DEF RunFinished, native, NativeTyped, RestTyped
<1>17. CASE WaitExpires
  <2>1. turn \in Turn /\ Await("timer", "set", turn, 0) \in CallMaps /\ cur' \in CurSet
    BY <1>17, <1>a, <1>e, CurWrites DEF WaitExpires
  <2> QED
    BY <1>17, <1>a, <2>1 DEF WaitExpires, native, TurnTyped, NativeTyped, RestTyped
<1>18. CASE WaitFails
  <2>1. /\ (IF calls["timer"].reply = "ok" THEN calls["timer"].said ELSE goal) \in Goals
        /\ calls["timer"].turn \in Turn /\ Done("timer") \in CallMaps
    BY <1>18, <1>a, <1>c, <1>d, <1>e DEF WaitFails, Tasks
  <2>2. TurnTyped'
    BY <1>18, <1>a, <1>b, <2>1, FinishTypes DEF WaitFails, GoalReleases
  <2>3. goal' \in Goals /\ calls' \in CallMaps
    BY <1>18, <1>a, <2>1, GoalTypes DEF WaitFails
  <2> QED
    BY <1>18, <1>a, <2>2, <2>3 DEF WaitFails, native, NativeTyped, RestTyped
<1>19. CASE PollFires
  <2>1. TurnTyped' /\ reading' \in BOOLEAN
    <3>1. reading \in BOOLEAN /\ poll.awaits \in BOOLEAN /\ [armed |-> FALSE, awaits |-> TRUE] \in Polls
      BY <1>a DEF RestTyped, Polls
    <3> QED
      BY <1>19, <1>a, <3>1, PollTypes DEF PollFires, TurnTyped
  <2> QED
    BY <1>19, <1>a, <2>1 DEF PollFires, native, NativeTyped, RestTyped
<1>20. ASSUME NEW ok \in BOOLEAN, ReadAnswered(ok)
       PROVE  TurnTyped' /\ NativeTyped' /\ RestTyped'
  <2>1. fails' \in 0..MaxFails
    BY <1>20 DEF ReadAnswered, RestTyped, Typed, CodexAssumption
  <2>2. TurnTyped'
    <3>1. poll.armed \in BOOLEAN /\ poll.awaits \in BOOLEAN /\ {"active", "over"} \subseteq Children
      BY <1>a DEF Polls, Children
    <3> QED
      BY <1>20, <1>a, <3>1, PollTypes DEF ReadAnswered, TurnTyped
  <2> QED
    BY <1>20, <1>a, <2>1, <2>2 DEF ReadAnswered, native, NativeTyped, RestTyped
<1>21. CASE TakeStart
  <2>1. runs + 1 \in Run /\ runs + 1 \in 0..MaxRuns
    BY <1>21 DEF TakeStart, Typed, NativeTyped, Run, CodexAssumption
  <2>2. calls' \in CallMaps
    BY <1>21, <1>a, <2>1 DEF TakeStart, CallMaps, CallSet, Tasks
  <2>3. serves' \in Turn \union {0}
    BY <1>21, <1>c, <1>d DEF TakeStart
  <2> QED
    BY <1>21, <1>a, <2>1, <2>2, <2>3 DEF TakeStart, record, TurnTyped, NativeTyped, RestTyped
<1>22. ASSUME NEW k \in Tasks, calls[k].reply = "waiting",
              NEW how \in {"ok", "error"}, NEW said \in Goals
       PROVE  Answer(k, how, said) \in CallMaps
  BY <1>22, <1>a DEF Answer, CallMaps, CallSet, Replies
<1>23. CASE AnswerStart \/ AnswerChildren
  <2>1. calls' \in CallMaps
    BY <1>23, <1>22 DEF AnswerStart, AnswerChildren, Due, Tasks, Goals
  <2> QED
    BY <1>23, <1>a, <2>1 DEF AnswerStart, AnswerChildren, native, record, TurnTyped, NativeTyped, RestTyped
<1>24. CASE Announce
  <2>1. cur' \in CurSet
    BY <1>24, <1>a, CurWrites DEF Announce, NativeTyped
  <2> QED
    BY <1>24, <1>a, <2>1 DEF Announce, record, TurnTyped, NativeTyped, RestTyped
<1>25. CASE ContinueGoal
  <2>1. runs + 1 \in Run /\ runs + 1 \in 0..MaxRuns
    BY <1>25 DEF ContinueGoal, Typed, NativeTyped, Run, CodexAssumption
  <2> QED
    BY <1>25, <1>a, <2>1 DEF ContinueGoal, engine, record, TurnTyped, NativeTyped, RestTyped
<1>26. ASSUME NEW value \in {"none", "paused"}, GoalEnds(value)
       PROVE  TurnTyped' /\ NativeTyped' /\ RestTyped'
  <2>1. TurnTyped' /\ goal' \in Goals /\ calls' \in CallMaps
    BY <1>26, <1>a, <1>b, FinishTypes, UnfinishedTypes, GoalTypes DEF GoalEnds, GoalReleases, Goals
  <2> QED
    BY <1>26, <1>a, <2>1 DEF GoalEnds, NativeTyped, RestTyped, Goals
<1>27. CASE TellGoal
  <2>1. TurnTyped' /\ goal' \in Goals /\ calls' \in CallMaps
    BY <1>27, <1>a, <1>b, FinishTypes, UnfinishedTypes, GoalTypes DEF TellGoal, GoalReleases, NativeTyped
  <2> QED
    BY <1>27, <1>a, <2>1 DEF TellGoal, native, NativeTyped, RestTyped
<1>28. ASSUME NEW status \in Statuses, RunEnds(status)
       PROVE  TurnTyped' /\ NativeTyped' /\ RestTyped'
  <2>1. TurnTyped'
    <3>1. CASE Unfinished(owner) \/ (turn # 0 /\ FinishTurn(owner, turn, status))
      BY <1>a, <3>1, FinishTypes, UnfinishedTypes
    <3>2. CASE /\ cur' = [cur EXCEPT !.native = 0, !.last = status]
               /\ UNCHANGED <<turn, child, poll, owner, reported>>
      BY <1>a, <3>2, CurWrites DEF TurnTyped
    <3> QED
      BY <1>28, <3>1, <3>2 DEF RunEnds
  <2>2. calls' \in CallMaps
    BY <1>28, <1>a, <1>e DEF RunEnds
  <2> QED
    BY <1>28, <1>a, <2>1, <2>2 DEF RunEnds, NativeTyped, RestTyped, Goals
<1>29. ASSUME NEW k \in {"goal", "finish"}, NEW ok \in BOOLEAN, AnswerGet(k, ok)
       PROVE  TurnTyped' /\ NativeTyped' /\ RestTyped'
  <2>1. calls' \in CallMaps
    BY <1>29, <1>a, <1>22 DEF AnswerGet, Due, Tasks, Goals, NativeTyped
  <2> QED
    BY <1>29, <1>a, <2>1 DEF AnswerGet, native, record, TurnTyped, NativeTyped, RestTyped
<1>30. ASSUME NEW k \in {"goal", "timer", "control"}, AnswerSet(k)
       PROVE  TurnTyped' /\ NativeTyped' /\ RestTyped'
  <2>1. calls' \in CallMaps /\ nativeGoal' \in Goals
    BY <1>30, <1>a, <1>22 DEF AnswerSet, Due, Tasks, Goals, NativeTyped
  <2>2. serves' \in Turn \union {0}
    BY <1>30, <1>a, <1>c, <1>d DEF AnswerSet, NativeTyped
  <2> QED
    BY <1>30, <1>a, <2>1, <2>2 DEF AnswerSet, record, TurnTyped, NativeTyped, RestTyped
<1>31. CASE AnswerInterrupt
  <2>1. calls' \in CallMaps
    BY <1>31, <1>c, <1>d, <1>22 DEF AnswerInterrupt, Due, Tasks
  <2>2. halting' \in BOOLEAN
    BY <1>31, <1>a DEF AnswerInterrupt, NativeTyped
  <2> QED
    BY <1>31, <1>a, <2>1, <2>2 DEF AnswerInterrupt, record, TurnTyped, NativeTyped, RestTyped
<1>32. CASE Spawn
  <2>1. poll' \in Polls /\ child' \in Children
    BY <1>32, <1>a DEF Spawn, Polls, Children
  <2> QED
    BY <1>32, <1>a, <2>1 DEF Spawn, record, TurnTyped, NativeTyped, RestTyped
<1>33. ASSUME NEW told \in BOOLEAN, ChildEnds(told)
       PROVE  TurnTyped' /\ NativeTyped' /\ RestTyped'
  <2>1. poll' \in Polls /\ child' \in Children /\ reading' \in BOOLEAN
    BY <1>33, <1>a DEF ChildEnds, Polls, Children, RestTyped
  <2> QED
    BY <1>33, <1>a, <2>1 DEF ChildEnds, record, TurnTyped, NativeTyped, RestTyped
<1>34. CASE Exit
  <2>1. TurnTyped'
    BY <1>34, <1>a, <1>b, FinishTypes, UnfinishedTypes DEF Exit
  <2>2. calls' \in CallMaps
    BY <1>34, <1>a DEF Exit, CallMaps, CallSet, Replies
  <2> QED
    BY <1>34, <1>a, <2>1, <2>2 DEF Exit, NativeTyped, RestTyped
<1>35. CASE UNCHANGED vars
  BY <1>35, <1>a DEF vars, engine, native, record, TurnTyped, NativeTyped, RestTyped
<1> QED
  BY <1>1, <1>2, <1>3, <1>4, <1>5, <1>6, <1>7, <1>8, <1>9, <1>10, <1>11, <1>12, <1>13, <1>14,
     <1>15, <1>16, <1>17, <1>18, <1>19, <1>20, <1>21, <1>23, <1>24, <1>25, <1>26, <1>27, <1>28,
     <1>29, <1>30, <1>31, <1>32, <1>33, <1>34, <1>35
  DEF Next, Continue, Host, Native, ReadEnds, WaitLimit

\* Every state a session reaches is of its type.
THEOREM TypeCorrect == CodexAssumption => (Spec => []TypeOK)
<1> SUFFICES ASSUME CodexAssumption
             PROVE  Spec => []TypeOK
  OBVIOUS
<1>1. Init => Typed
  BY TypeInit
<1>2. Typed /\ [Next]_vars => Typed'
  BY TypeStep
<1> QED
  BY <1>1, <1>2, TypedIsTypeOK, PTL DEF Spec

----------------------------------------------------------------------------
(* A turn is reported once, before its invocation is answered.             *)

\* The current turn is not reported, and is that of the invocation under way or of one that
\* was refused; an invocation settles with its own turn's last event.
Reports ==
    /\ turn # 0 => reported[turn] = "none" /\ (turn = owner.turn \/ answered[turn] # "none")
    /\ \A t \in Turn : reported[t] # "none" => answered[t] # "none" \/ t = owner.turn
    /\ owner.terminal # "none" => reported[owner.turn] \in Statuses
    /\ owner.settling \/ owner.final => owner.terminal # "none"
    /\ TurnAnswered

LEMMA ReportsInit == Init => Reports
  BY TurnPositive DEF Init, Reports, TurnAnswered, NoOwner

\* An invocation that is released is the same invocation, and settles only once it may.
LEMMA ReleasedReports ==
    ASSUME owner \in Owners, Reports, NEW o \in {owner, Released}
    PROVE  /\ o.turn = owner.turn /\ o.terminal = owner.terminal /\ o.final = owner.final
           /\ o.settling => o.terminal # "none"
           /\ o \in Owners
  BY ReleasedTyped DEF Released, Reports, Owners, OwnerSet

LEMMA UnfinishedReports ==
    ASSUME owner \in Owners, Reports, NEW o \in {owner, Released}, Unfinished(o), UNCHANGED answered
    PROVE  Reports'
  BY ReleasedReports DEF Unfinished, Reports, TurnAnswered

LEMMA FinishReports ==
    ASSUME TurnTyped, Reports, NEW o \in {owner, Released},
           NEW t \in Turn, NEW status \in Statuses, FinishTurn(o, t, status), UNCHANGED answered
    PROVE  Reports'
<1>1. CASE UNCHANGED <<turn, reported>> /\ owner' = o
  BY <1>1, ReleasedReports DEF TurnTyped, Reports, TurnAnswered
<1>2. CASE /\ turn = t /\ turn' = 0 /\ owner' = Told(o, t, status)
           /\ reported' = [reported EXCEPT ![t] = IF @ = "none" THEN status ELSE "twice"]
  <2>1. /\ reported'[t] = status
        /\ \A u \in Turn \ {t} : reported'[u] = reported[u]
    BY <1>2, TurnPositive DEF TurnTyped, ReportMaps, Reports
  <2>2. /\ owner'.turn = owner.turn /\ owner'.final = owner.final
        /\ owner.turn # t => owner' = o
        /\ owner.turn = t => owner'.terminal = status
    BY <1>2, ReleasedReports DEF Told, TurnTyped, Owners, OwnerSet
  <2>3. owner.turn \in Turn \union {0} /\ owner.terminal # "none" => owner.turn # 0
    BY DEF TurnTyped, Owners, OwnerSet, NoOwner
  <2>4. status \notin {"none", "twice"}
    BY DEF Statuses
  <2> QED
    BY <1>2, <2>1, <2>2, <2>3, <2>4, TurnPositive, ReleasedReports DEF TurnTyped, Reports, TurnAnswered
<1> QED
  BY <1>1, <1>2 DEF FinishTurn

LEMMA ContinueReports ==
    ASSUME TurnTyped, Reports, NEW t \in Turn, NEW value \in Goals,
           ContinueOrFinish(t, value), UNCHANGED answered
    PROVE  Reports'
<1>1. cur.last \in Statuses /\ "completed" \in Statuses /\ turn \in Turn \union {0} /\ owner \in Owners
  BY CurWrites DEF TurnTyped, Statuses
<1>2. CASE \/ turn # 0 /\ FinishTurn(owner, turn, cur.last)
           \/ FinishTurn(owner, t, "completed")
           \/ Unfinished(owner)
  BY <1>1, <1>2, FinishReports, UnfinishedReports
<1>3. CASE UNCHANGED <<turn, owner, reported>>
  BY <1>3 DEF Reports, TurnAnswered
<1> QED
  BY <1>2, <1>3 DEF ContinueOrFinish, GoalReleases

LEMMA PollReports ==
    ASSUME TurnTyped, Reports, NEW armed, NEW childNow, NEW readNow, NEW awaits,
           Poll(armed, childNow, readNow, awaits), UNCHANGED answered
    PROVE  Reports'
<1>1. CASE UNCHANGED <<turn, owner, reported>>
  BY <1>1 DEF Reports, TurnAnswered
<1>2. CASE /\ turn # 0 /\ turn' = 0 /\ owner' = Told(owner, turn, "completed")
           /\ reported' = [reported EXCEPT ![turn] = IF @ = "none" THEN "completed" ELSE "twice"]
  <2>1. /\ turn \in Turn /\ reported'[turn] = "completed"
        /\ \A u \in Turn \ {turn} : reported'[u] = reported[u]
    BY <1>2 DEF TurnTyped, ReportMaps, Reports
  <2>2. /\ owner'.turn = owner.turn /\ owner'.final = owner.final
        /\ owner.turn # turn => owner' = owner
        /\ owner.turn = turn => owner'.terminal = "completed"
    BY <1>2 DEF Told, TurnTyped, Owners, OwnerSet
  <2> QED
    BY <1>2, <2>1, <2>2 DEF Reports, TurnAnswered, Statuses
<1> QED
  BY <1>1, <1>2 DEF Poll

\* An invocation ends: with an error, or after its last event.
LEMMA EndReports ==
    ASSUME TurnTyped, answered \in AnswerMaps, Reports, NEW how \in {"ok", "error"}, EndInvocation(how),
           how = "ok" => owner.final,
           UNCHANGED reported, turn' \in {turn, 0}
    PROVE  Reports'
<1>1. /\ owner.turn \in Turn \union {0} /\ (owner.final => owner.turn # 0)
      /\ owner'.turn = 0 /\ owner'.terminal = "none" /\ owner'.settling = FALSE /\ owner'.final = FALSE
  BY DEF TurnTyped, Owners, OwnerSet, NoOwner, EndInvocation
<1>2. \A t \in Turn : answered'[t] = IF t = owner.turn THEN how ELSE answered[t]
  BY DEF EndInvocation, AnswerMaps
<1>3. turn \in Turn \union {0}
  BY DEF TurnTyped
<1> QED
  BY <1>1, <1>2, <1>3, TurnPositive DEF Reports, TurnAnswered

LEMMA ReportsStep == Typed /\ Reports /\ [Next]_vars => Reports'
<1> SUFFICES ASSUME Typed, Reports, [Next]_vars
             PROVE  Reports'
  OBVIOUS
<1>a. /\ turn \in Turn \union {0} /\ cur.last \in Statuses /\ owner \in Owners /\ calls \in CallMaps
      /\ Statuses = {"completed", "interrupted", "failed"}
      /\ answered \in AnswerMaps /\ reported \in ReportMaps /\ TurnTyped /\ goal \in Goals
  BY CurWrites DEF Typed, TurnTyped, RestTyped, Statuses
<1>b. CASE UNCHANGED <<turn, owner, reported, answered>>
  BY <1>b DEF Reports, TurnAnswered
<1>c. \A k \in Tasks : /\ k # "control" /\ calls[k].reply # "none" => calls[k].turn \in Turn
                      /\ Said(calls[k]) \in Goals /\ calls[k].said \in Goals
  BY <1>a, CallWrites DEF CallSet, Said
<1>1. ASSUME NEW t \in Turn, Busy(t)
      PROVE  Reports'
  <2>1. \A u \in Turn : answered'[u] = IF u = t THEN "error" ELSE answered[u]
    BY <1>1, <1>a DEF Busy, AnswerMaps
  <2> QED
    BY <1>1, <1>a, <2>1 DEF Busy, engine, Reports, TurnAnswered
<1>2. ASSUME NEW t \in Turn, Send(t) \/ ResumeGoal(t)
      PROVE  Reports'
  <2>1. /\ owner = NoOwner /\ answered[t] = "none" /\ turn' = t /\ UNCHANGED <<reported, answered>>
        /\ owner' = [NoOwner EXCEPT !.turn = t]
    BY <1>2 DEF Send, ResumeGoal, MayInvoke, record
  <2>2. /\ NoOwner.turn = 0 /\ owner'.turn = t /\ owner'.terminal = "none"
        /\ owner'.settling = FALSE /\ owner'.final = FALSE
    BY <2>1 DEF NoOwner
  <2> QED
    BY <2>1, <2>2, TurnPositive DEF Reports, TurnAnswered
<1>3. CASE SendAnswered
  <2>1. UNCHANGED <<turn, reported>> /\ (EndInvocation("error") \/ UNCHANGED <<owner, answered>>)
    BY <1>3 DEF SendAnswered
  <2> QED
    BY <1>a, <1>b, <2>1, EndReports
<1>4. CASE GoalRead
  BY <1>4, <1>b DEF GoalRead, record
<1>5. CASE GoalActivated
  BY <1>5, <1>a, <1>c, ContinueReports DEF GoalActivated, Tasks
<1>6. CASE GoalNotResumed
  BY <1>6, <1>a, EndReports DEF GoalNotResumed
<1>7. CASE Settle
  <2>1. /\ owner.settling /\ UNCHANGED <<turn, reported, answered>>
        /\ owner'.turn = owner.turn /\ owner'.terminal = owner.terminal
    BY <1>7, <1>a DEF Settle, engine, record, Owners, OwnerSet
  <2> QED
    BY <2>1 DEF Reports, TurnAnswered
<1>8. CASE InvocationEnds
  BY <1>8, <1>a, EndReports DEF InvocationEnds, engine
<1>9. ASSUME NEW o \in {owner, Released}, NEW t, NEW c, Interrupt(o, t, c), UNCHANGED answered
      PROVE  Reports'
  BY <1>9, <1>a, FinishReports, UnfinishedReports DEF Interrupt
<1>10. CASE Cancel \/ ChildrenInterrupted
  BY <1>10, <1>9, <1>a, UnfinishedReports DEF Cancel, ChildrenInterrupted
<1>11. CASE Pause
  BY <1>11, <1>b DEF Pause
<1>12. CASE PauseJoins \/ PauseFails
  <2>1. owner' \in {owner, Released} /\ UNCHANGED <<turn, reported, answered>>
    BY <1>12 DEF PauseJoins, PauseFails, record
  <2> QED
    BY <1>a, <2>1, ReleasedReports DEF Reports, TurnAnswered
<1>13. CASE PausePersisted
  BY <1>13, <1>a, FinishReports, UnfinishedReports DEF PausePersisted
<1>14. CASE InterruptAnswered
  BY <1>14, <1>a, FinishReports, UnfinishedReports DEF InterruptAnswered, GoalReleases
<1>15. CASE RunFinished
  BY <1>15, <1>a, <1>c, ContinueReports DEF RunFinished, Tasks
<1>16. CASE WaitExpires
  BY <1>16, <1>b DEF WaitExpires
<1>17. CASE WaitFails
  BY <1>17, <1>a, <1>c, FinishReports DEF WaitFails, GoalReleases, Tasks
<1>18. CASE PollFires \/ \E ok \in BOOLEAN : ReadAnswered(ok)
  <2>1. CASE \E armed, childNow, readNow, awaits : Poll(armed, childNow, readNow, awaits)
    BY <1>18, <1>a, <2>1, PollReports DEF PollFires, ReadAnswered
  <2>2. CASE UNCHANGED <<turn, owner, reported>>
    BY <1>18, <1>b, <2>2 DEF PollFires, ReadAnswered
  <2> QED
    BY <1>18, <2>1, <2>2 DEF PollFires, ReadAnswered
<1>19. CASE TakeStart \/ AnswerStart \/ Announce \/ ContinueGoal
  BY <1>19, <1>b DEF TakeStart, AnswerStart, Announce, ContinueGoal, engine, record
<1>20. ASSUME NEW value \in {"none", "paused"}, GoalEnds(value)
       PROVE  Reports'
  BY <1>20, <1>a, FinishReports, UnfinishedReports DEF GoalEnds, GoalReleases
<1>21. CASE TellGoal
  BY <1>21, <1>a, FinishReports, UnfinishedReports DEF TellGoal, GoalReleases
<1>22. ASSUME NEW status \in Statuses, RunEnds(status)
       PROVE  Reports'
  <2>1. CASE Unfinished(owner) \/ (turn # 0 /\ FinishTurn(owner, turn, status))
    BY <1>22, <1>a, <2>1, FinishReports, UnfinishedReports DEF RunEnds
  <2>2. CASE UNCHANGED <<turn, owner, reported>>
    BY <1>22, <1>b, <2>2 DEF RunEnds
  <2> QED
    BY <1>22, <2>1, <2>2 DEF RunEnds
<1>23. CASE \/ \E k \in {"goal", "finish"}, ok \in BOOLEAN : AnswerGet(k, ok)
            \/ \E k \in {"goal", "timer", "control"} : AnswerSet(k)
            \/ AnswerInterrupt \/ AnswerChildren
  BY <1>23, <1>b DEF AnswerGet, AnswerSet, AnswerInterrupt, AnswerChildren, record
<1>24. CASE Spawn \/ \E told \in BOOLEAN : ChildEnds(told)
  BY <1>24, <1>b DEF Spawn, ChildEnds, record
<1>25. CASE Exit
  BY <1>25, <1>a, FinishReports, UnfinishedReports DEF Exit
<1>26. CASE UNCHANGED vars
  BY <1>26, <1>b DEF vars, engine, record
<1> QED
  BY <1>1, <1>2, <1>3, <1>4, <1>5, <1>6, <1>7, <1>8, <1>10, <1>11, <1>12, <1>13, <1>14, <1>15,
     <1>16, <1>17, <1>18, <1>19, <1>20, <1>21, <1>22, <1>23, <1>24, <1>25, <1>26
  DEF Next, Continue, Host, Native, ReadEnds, WaitLimit

\* However its end races a control, a timer, the next run or the exit of the process, a turn
\* is reported at most once, and an invocation is answered as done only after its last event.
THEOREM AnsweredOnce == CodexAssumption => (Spec => []TurnAnswered)
<1> SUFFICES ASSUME CodexAssumption
             PROVE  Spec => []TurnAnswered
  OBVIOUS
<1>1. Init => Typed /\ Reports
  BY TypeInit, ReportsInit
<1>2. Typed /\ Reports /\ [Next]_vars => Typed' /\ Reports'
  BY TypeStep, ReportsStep
<1>3. Reports => TurnAnswered
  BY DEF Reports
<1> QED
  BY <1>1, <1>2, <1>3, PTL DEF Spec

----------------------------------------------------------------------------
(* What the helpers leave behind, field by field.                          *)

\* A finished turn is gone and reported, or is kept for its children; another turn is left
\* alone.
LEMMA FinishShape ==
    ASSUME TurnTyped, Reports, NEW o \in {owner, Released}, NEW t \in Turn,
           NEW status \in Statuses, FinishTurn(o, t, status)
    PROVE  /\ owner'.turn = owner.turn
           /\ \/ turn # t /\ UNCHANGED <<turn, cur, child, poll, reported>>
              \/ /\ turn = t /\ status = "completed" /\ UNCHANGED <<turn, child, reported>>
                 /\ cur' = [cur EXCEPT !.childCompletion = TRUE]
              \/ /\ turn = t /\ turn' = 0 /\ cur' = NewTurn /\ child' # "active"
                 /\ status = "completed" => ~reading
                 /\ \A u \in Turn : reported'[u] = IF u = t THEN status ELSE reported[u]
<1>1. owner \in Owners /\ o.turn = owner.turn /\ o \in Owners
  BY ReleasedReports DEF TurnTyped
<1>2. Told(o, t, status).turn = owner.turn
  BY <1>1 DEF Told, Owners, OwnerSet
<1>3. owner'.turn = owner.turn
  BY <1>1, <1>2 DEF FinishTurn
<1>4. turn = t => reported[t] = "none"
  BY TurnPositive DEF Reports
<1> QED
  BY <1>3, <1>4 DEF FinishTurn, ChildBusy, TurnTyped, ReportMaps

\* What is written into the calls keeps what the others know.
LEMMA CallShape ==
    ASSUME calls \in CallMaps
    PROVE  /\ \A k, l \in Tasks : Done(k)[l] = IF l = k THEN NoCall ELSE calls[l]
           /\ \A k \in Tasks : \A at, t, n :
                /\ \A l \in Tasks : l # k => Await(k, at, t, n)[l] = calls[l]
                /\ Await(k, at, t, n)[k].at = at /\ Await(k, at, t, n)[k].turn = t
                /\ Await(k, at, t, n)[k].run = n /\ Await(k, at, t, n)[k].reply = "waiting"
                /\ k \in {"goal", "finish"} => Await(k, at, t, n)[k].fresh
           /\ \A c \in CallMaps, l \in Tasks \ {"control"} : \A how : Joined(c, how)[l] = c[l]
           /\ \A c \in CallMaps : \A how : c["control"] = NoCall => Joined(c, how) = c
           /\ \A k \in Tasks : \A how, said :
                /\ \A l \in Tasks : l # k => Answer(k, how, said)[l] = calls[l]
                /\ Answer(k, how, said)[k].at = calls[k].at
                /\ Answer(k, how, said)[k].turn = calls[k].turn
                /\ Answer(k, how, said)[k].run = calls[k].run
                /\ Answer(k, how, said)[k].fresh <=> calls[k].fresh
                /\ Answer(k, how, said)[k].reply = how /\ Answer(k, how, said)[k].said = said
<1>1. calls \in [Tasks -> CallSet]
  BY DEF CallMaps
<1>2. \A k, l \in Tasks : Done(k)[l] = IF l = k THEN NoCall ELSE calls[l]
  BY <1>1 DEF Done
<1>3. ASSUME NEW k \in Tasks, NEW at, NEW t, NEW n
      PROVE  /\ \A l \in Tasks : l # k => Await(k, at, t, n)[l] = calls[l]
             /\ Await(k, at, t, n)[k].at = at /\ Await(k, at, t, n)[k].turn = t
             /\ Await(k, at, t, n)[k].run = n /\ Await(k, at, t, n)[k].reply = "waiting"
             /\ k \in {"goal", "finish"} => Await(k, at, t, n)[k].fresh
  <2> DEFINE r == [at |-> at, turn |-> t, run |-> n, reply |-> "waiting",
                   said |-> "none", fresh |-> k \in {"goal", "finish"}]
  <2>1. /\ r.at = at /\ r.turn = t /\ r.run = n /\ r.reply = "waiting"
        /\ k \in {"goal", "finish"} => r.fresh
    OBVIOUS
  <2>2. Await(k, at, t, n) = [calls EXCEPT ![k] = r]
    BY DEF Await
  <2> HIDE DEF r
  <2> QED
    BY <1>1, <2>1, <2>2
<1>4. \A c \in CallMaps, l \in Tasks \ {"control"} : \A how : Joined(c, how)[l] = c[l]
  BY DEF Joined, CallMaps
<1>5. \A c \in CallMaps : \A how : c["control"] = NoCall => Joined(c, how) = c
  BY DEF Joined, NoCall
<1>6. ASSUME NEW k \in Tasks, NEW how, NEW said
      PROVE  /\ \A l \in Tasks : l # k => Answer(k, how, said)[l] = calls[l]
             /\ Answer(k, how, said)[k].at = calls[k].at
             /\ Answer(k, how, said)[k].turn = calls[k].turn
             /\ Answer(k, how, said)[k].run = calls[k].run
             /\ Answer(k, how, said)[k].fresh <=> calls[k].fresh
             /\ Answer(k, how, said)[k].reply = how /\ Answer(k, how, said)[k].said = said
  <2>1. calls[k] \in CallSet
    BY <1>1
  <2> QED
    BY <1>1, <2>1 DEF Answer, CallSet
<1> QED
  BY <1>2, <1>3, <1>4, <1>5, <1>6

\* A change of the goal makes the calls stale and changes nothing else of them.
LEMMA StaleShape ==
    ASSUME NEW c \in CallMaps, NEW k \in Tasks
    PROVE  /\ Stale(c)[k].at = c[k].at /\ Stale(c)[k].turn = c[k].turn
           /\ Stale(c)[k].run = c[k].run /\ Stale(c)[k].reply = c[k].reply
           /\ Stale(c)[k].said = c[k].said /\ ~Stale(c)[k].fresh
           /\ c[k] = NoCall => Stale(c)[k] = NoCall
<1>1. c[k] \in CallSet
  BY DEF CallMaps
<1>2. \A r \in CallSet :
        /\ [r EXCEPT !.fresh = FALSE].at = r.at /\ [r EXCEPT !.fresh = FALSE].turn = r.turn
        /\ [r EXCEPT !.fresh = FALSE].run = r.run /\ [r EXCEPT !.fresh = FALSE].reply = r.reply
        /\ [r EXCEPT !.fresh = FALSE].said = r.said /\ ~[r EXCEPT !.fresh = FALSE].fresh
        /\ ~r.fresh => [r EXCEPT !.fresh = FALSE] = r
  BY DEF CallSet
<1>3. ~NoCall.fresh
  BY DEF NoCall
<1>4. Stale(c)[k] = [c[k] EXCEPT !.fresh = FALSE]
  BY DEF Stale
<1> QED
  BY <1>1, <1>2, <1>3, <1>4

LEMMA GoalShape ==
    ASSUME NEW value, NEW c \in CallMaps, SetGoal(value, c), NEW k \in Tasks
    PROVE  /\ calls'[k].at = c[k].at /\ calls'[k].turn = c[k].turn /\ calls'[k].run = c[k].run
           /\ calls'[k].reply = c[k].reply /\ calls'[k].said = c[k].said
           /\ c[k] = NoCall => calls'[k] = NoCall
  BY StaleShape DEF SetGoal

\* Stale or as they were: whether a call is fresh.
LEMMA GoalFresh ==
    ASSUME NEW value, NEW c \in CallMaps, SetGoal(value, c), NEW k \in Tasks
    PROVE  /\ value # goal => ~calls'[k].fresh
           /\ value = goal => calls'[k] = c[k]
  BY StaleShape DEF SetGoal

\* The turns the invariants speak of.
LEMMA TurnsTyped ==
    ASSUME Typed
    PROVE  /\ turn \in Turn \union {0} /\ owner.turn \in Turn \union {0} /\ stopped \subseteq Turn
           /\ \A k \in Tasks : calls[k].turn \in Turn \union {0}
           /\ Turn \subseteq Nat /\ 0 \notin Turn
<1>1. turn \in Turn \union {0} /\ owner.turn \in Turn \union {0} /\ stopped \subseteq Turn
  BY DEF Typed, TurnTyped, RestTyped, Owners, OwnerSet
<1>2. \A k \in Tasks : calls[k].turn \in Turn \union {0}
  BY DEF Typed, RestTyped, CallMaps, CallSet
<1> QED
  BY <1>1, <1>2 DEF Turn

\* A control changes only its own call, and what is stale.
Control ==
    \/ Cancel \/ ChildrenInterrupted \/ Pause \/ PauseJoins \/ PausePersisted
    \/ InterruptAnswered \/ PauseFails

LEMMA ControlCalls ==
    ASSUME Typed, Control
    PROVE  /\ \A k \in Tasks \ {"control"} :
                calls'[k].turn = calls[k].turn /\ calls'[k].run = calls[k].run
                /\ calls'[k].reply = calls[k].reply
           /\ calls'["control"].reply \in {calls["control"].reply, "waiting", "none"}
<1>a. /\ calls \in CallMaps /\ "control" \in Tasks /\ NoCall.reply = "none"
      /\ cur.native \in Run \union {0} /\ calls["control"] \in CallSet
      /\ turn \in Turn \union {0} /\ owner.turn \in Turn \union {0}
  BY Blank, CurWrites, TurnsTyped DEF Typed, RestTyped, TurnTyped, Tasks, CallMaps
<1> DEFINE Same(c) == /\ \A k \in Tasks \ {"control"} : c[k] = calls[k]
                      /\ c["control"].reply \in {calls["control"].reply, "waiting", "none"}
           Goes(at, n) == [Await("control", at, turn, n)["control"] EXCEPT !.said = calls["control"].said]
<1>1. Same(calls) /\ Same(Done("control")) /\ Done("control") \in CallMaps
  BY <1>a, CallShape, CallWrites
<1>2. \A at, t, n : Same(Await("control", at, t, n))
  BY <1>a, CallShape
<1>3. \A r : r.reply = "waiting" => Same([calls EXCEPT !["control"] = r])
  BY <1>a DEF CallMaps
<1>4. \A at \in {"interrupt", "retry"}, n \in Run \union {0} :
        /\ Goes(at, n).reply = "waiting"
        /\ [calls EXCEPT !["control"] = Goes(at, n)] \in CallMaps
  <2> TAKE at \in {"interrupt", "retry"}, n \in Run \union {0}
  <2>1. /\ Await("control", at, turn, n)["control"] \in CallSet
        /\ Await("control", at, turn, n)["control"].at = at
        /\ Await("control", at, turn, n)["control"].reply = "waiting"
    BY <1>a, CallWrites, CallShape DEF Ats
  <2>2. Goes(at, n) \in CallSet /\ Goes(at, n).at = at /\ Goes(at, n).reply = "waiting"
    BY <1>a, <2>1 DEF CallSet
  <2> HIDE DEF Goes
  <2> QED
    BY <1>a, <2>2, CallWrites
<1> HIDE DEF Same, Goes
<1>5. ASSUME NEW t, NEW c, Same(c), "control" \in Tasks, NEW o, Interrupt(o, t, c), c \in CallMaps
      PROVE  Same(calls')
  <2>1. \A at, n : Same([c EXCEPT !["control"] = Await("control", at, t, n)["control"]])
    BY <1>a, <1>5, CallShape DEF Same, CallMaps
  <2> QED
    BY <1>5, <2>1 DEF Interrupt
<1>6. ASSUME NEW value, NEW c \in CallMaps, Same(c), SetGoal(value, c)
      PROVE  /\ \A k \in Tasks \ {"control"} :
                  calls'[k].turn = calls[k].turn /\ calls'[k].run = calls[k].run
                  /\ calls'[k].reply = calls[k].reply
             /\ calls'["control"].reply \in {calls["control"].reply, "waiting", "none"}
  <2>1. \A k \in Tasks : calls'[k].turn = c[k].turn /\ calls'[k].run = c[k].run /\ calls'[k].reply = c[k].reply
    BY <1>6, GoalShape
  <2> QED
    BY <1>a, <1>6, <2>1 DEF Same
<1>7. CASE Same(calls')
  BY <1>7 DEF Same
<1>8. CASE Cancel \/ ChildrenInterrupted
  BY <1>8, <1>a, <1>1, <1>2, <1>5, <1>7 DEF Cancel, ChildrenInterrupted
<1>9. CASE Pause \/ PauseJoins \/ PauseFails
  BY <1>9, <1>1, <1>2, <1>7 DEF Pause, PauseJoins, PauseFails
<1>10. CASE PausePersisted
  <2>1. \/ SetGoal(calls["control"].said, [calls EXCEPT !["control"] = Goes("interrupt", cur.native)])
        \/ SetGoal(calls["control"].said, Done("control"))
    BY <1>10 DEF PausePersisted, Goes
  <2> QED
    BY <1>a, <1>1, <1>3, <1>4, <1>6, <2>1
<1>11. CASE InterruptAnswered
  <2>1. \/ calls' = [calls EXCEPT !["control"] = Goes("retry", cur.native)]
        \/ SetGoal(calls["control"].said, Done("control"))
        \/ calls' = Done("control")
    BY <1>11 DEF InterruptAnswered, Goes
  <2> QED
    BY <1>a, <1>1, <1>3, <1>4, <1>6, <1>7, <2>1
<1> QED
  BY <1>8, <1>9, <1>10, <1>11 DEF Control

----------------------------------------------------------------------------
(* The turns follow one another.                                           *)

\* The helpers end the current turn at most, and keep the invocation.
LEMMA ReleasedKeeps ==
    ASSUME Typed, Reports, NEW o \in {owner, Released}
    PROVE  o.turn = owner.turn /\ owner \in Owners /\ TurnTyped
  BY ReleasedReports DEF Typed, TurnTyped

LEMMA FinishKeeps ==
    ASSUME Typed, Reports, NEW o \in {owner, Released}, NEW t \in Turn, NEW status \in Statuses,
           FinishTurn(o, t, status)
    PROVE  turn' \in {turn, 0} /\ owner'.turn = owner.turn
  BY FinishShape, ReleasedKeeps

LEMMA UnfinishedKeeps ==
    ASSUME Typed, Reports, NEW o \in {owner, Released}, Unfinished(o)
    PROVE  turn' \in {turn, 0} /\ owner'.turn = owner.turn
  BY ReleasedKeeps DEF Unfinished

LEMMA ContinueKeeps ==
    ASSUME Typed, Reports, NEW t \in Turn, NEW value, ContinueOrFinish(t, value)
    PROVE  turn' \in {turn, 0} /\ owner'.turn = owner.turn
<1>1. cur.last \in Statuses /\ "completed" \in Statuses /\ (turn # 0 => turn \in Turn)
  BY CurWrites DEF Typed, TurnTyped, Statuses
<1> QED
  BY <1>1, FinishKeeps, UnfinishedKeeps DEF ContinueOrFinish, GoalReleases

LEMMA InterruptKeeps ==
    ASSUME Typed, Reports, NEW o \in {owner, Released}, NEW t, NEW c, Interrupt(o, t, c)
    PROVE  turn' \in {turn, 0} /\ owner'.turn = owner.turn
<1>1. "interrupted" \in Statuses /\ (turn # 0 => turn \in Turn)
  BY DEF Typed, TurnTyped, Statuses
<1> QED
  BY <1>1, FinishKeeps, UnfinishedKeeps DEF Interrupt

LEMMA PollKeeps ==
    ASSUME Typed, NEW armed, NEW childNow, NEW readNow, NEW awaits, Poll(armed, childNow, readNow, awaits)
    PROVE  turn' \in {turn, 0} /\ owner'.turn = owner.turn
<1>1. Told(owner, turn, "completed").turn = owner.turn
  BY DEF Told, Typed, TurnTyped, Owners, OwnerSet
<1> QED
  BY <1>1 DEF Poll

\* The steps by which a turn begins, and those by which an invocation ends.
Begins == \E t \in Turn : Send(t) \/ ResumeGoal(t)
Ends   == SendAnswered \/ GoalNotResumed \/ InvocationEnds

\* A step but the start of a turn ends the current turn at most, and keeps the invocation
\* unless that ends.
LEMMA TurnStep ==
    ASSUME Typed, Reports, [Next]_vars, ~Begins
    PROVE  /\ turn' \in {turn, 0}
           /\ ~Ends => owner'.turn = owner.turn
<1>a. /\ goal \in Goals /\ cur.last \in Statuses
      /\ Statuses = {"completed", "interrupted", "failed"}
      /\ turn \in Turn \union {0}
  BY CurWrites, TurnsTyped DEF Typed, TurnTyped, RestTyped, Statuses
<1>b. \A k \in {"send", "goal", "finish", "timer"} : calls[k].reply # "none" => calls[k].turn \in Turn
  BY CallWrites DEF Typed, RestTyped, Tasks
<1>c. CASE UNCHANGED <<turn, owner>>
  BY <1>c
<1>1. CASE SendAnswered \/ GoalNotResumed \/ InvocationEnds
  BY <1>1 DEF SendAnswered, GoalNotResumed, InvocationEnds, engine, Ends
<1>2. CASE \/ \E t \in Turn : Busy(t)
           \/ GoalRead \/ Pause \/ WaitExpires \/ TakeStart \/ AnswerStart \/ Announce
           \/ ContinueGoal \/ AnswerInterrupt \/ AnswerChildren \/ Spawn
  BY <1>2, <1>c DEF Busy, GoalRead, Pause, WaitExpires, TakeStart, AnswerStart, Announce,
     ContinueGoal, AnswerInterrupt, AnswerChildren, Spawn, engine
<1>3. CASE \/ \E k \in {"goal", "finish"}, ok \in BOOLEAN : AnswerGet(k, ok)
           \/ \E k \in {"goal", "timer", "control"} : AnswerSet(k)
           \/ \E told \in BOOLEAN : ChildEnds(told)
           \/ UNCHANGED vars
  BY <1>3, <1>c DEF AnswerGet, AnswerSet, ChildEnds, vars, engine
<1>4. CASE Settle
  BY <1>4 DEF Settle, engine, Typed, TurnTyped, Owners, OwnerSet
<1>5. CASE Cancel \/ ChildrenInterrupted
  BY <1>5, <1>a, InterruptKeeps, UnfinishedKeeps DEF Cancel, ChildrenInterrupted
<1>6. CASE PauseJoins \/ PauseFails
  BY <1>6, ReleasedKeeps DEF PauseJoins, PauseFails
<1>7. CASE PausePersisted \/ InterruptAnswered
  BY <1>7, <1>a, FinishKeeps, UnfinishedKeeps DEF PausePersisted, InterruptAnswered, GoalReleases
<1>8. CASE GoalActivated \/ RunFinished
  BY <1>8, <1>b, ContinueKeeps DEF GoalActivated, RunFinished
<1>9. CASE WaitFails
  BY <1>9, <1>a, <1>b, FinishKeeps DEF WaitFails, GoalReleases
<1>10. CASE PollFires \/ \E ok \in BOOLEAN : ReadAnswered(ok)
  BY <1>10, PollKeeps DEF PollFires, ReadAnswered
<1>11. CASE TellGoal \/ \E value \in {"none", "paused"} : GoalEnds(value)
  BY <1>11, <1>a, FinishKeeps, UnfinishedKeeps DEF TellGoal, GoalEnds, GoalReleases
<1>12. CASE \E status \in Statuses : RunEnds(status)
  BY <1>12, <1>a, FinishKeeps, UnfinishedKeeps DEF RunEnds
<1>13. CASE Exit
  BY <1>13, <1>a, FinishKeeps, UnfinishedKeeps DEF Exit
<1> QED
  BY <1>1, <1>2, <1>3, <1>4, <1>5, <1>6, <1>7, <1>8, <1>9, <1>10, <1>11, <1>12, <1>13
  DEF Next, Continue, Host, Native, ReadEnds, WaitLimit, Begins

\* The host has started turn t.
Known(t) == answered[t] # "none" \/ t = owner.turn

\* Turns are started in their order, and what the worker still knows of turns (who was
\* stopped, what awaits an answer) is of turns up to the current one.
Order ==
    /\ \A t, u \in Turn : answered[t] # "none" /\ u < t => answered[u] # "none"
    /\ owner.turn # 0 =>
         /\ answered[owner.turn] = "none"
         /\ \A u \in Turn : u < owner.turn => answered[u] # "none"
    /\ turn # 0 /\ owner.turn # 0 => turn = owner.turn
    /\ \A u \in stopped : Known(u) /\ (turn # 0 => u <= turn)
    /\ calls["finish"].turn # 0 => Known(calls["finish"].turn)
    /\ calls["send"].turn \in {0, owner.turn} /\ calls["goal"].turn \in {0, owner.turn}
    /\ calls["send"].turn = 0 \/ calls["goal"].turn = 0

LEMMA OrderInit == Init => Order
  BY Blank DEF Init, Order, Known, NoOwner, Tasks

LEMMA OrderKept ==
    ASSUME Typed, Reports, Order, turn' \in {turn, 0}, owner'.turn = owner.turn, UNCHANGED answered,
           stopped' \subseteq stopped \union ({turn, owner.turn} \ {0}),
           calls'["finish"].turn \in {calls["finish"].turn, 0, turn},
           calls'["send"].turn \in {calls["send"].turn, 0},
           calls'["goal"].turn \in {calls["goal"].turn, 0}
    PROVE  Order'
<1>1. turn # 0 => Known(turn)
  BY DEF Reports, Known
<1>2. \A u \in stopped' : Known(u) /\ (turn # 0 => u <= turn)
  BY <1>1, TurnsTyped DEF Order, Known
<1>3. \A t : Known(t)' <=> Known(t)
  BY DEF Known
<1> QED
  BY <1>1, <1>2, <1>3 DEF Order

\* The same, when no call was made or went on, or one was dropped.
LEMMA OrderSame ==
    ASSUME Typed, Reports, Order, turn' \in {turn, 0}, owner'.turn = owner.turn, UNCHANGED answered,
           stopped' \subseteq stopped \union ({turn, owner.turn} \ {0}),
           \A k \in {"send", "goal", "finish"} : calls'[k].turn \in {calls[k].turn, 0}
    PROVE  Order'
  BY OrderKept

\* An invocation ends when no call of its is under way.
LEMMA OrderEnded ==
    ASSUME Typed, Reports, Order, NEW how \in {"ok", "error"}, EndInvocation(how),
           turn' \in {turn, 0}, UNCHANGED stopped,
           calls'["finish"].turn = calls["finish"].turn,
           calls'["send"].turn = 0, calls'["goal"].turn = 0
    PROVE  Order'
<1>1. owner'.turn = 0
  BY DEF EndInvocation, NoOwner
<1>2. \A t \in Turn : answered'[t] = IF t = owner.turn THEN how ELSE answered[t]
  BY DEF EndInvocation, Typed, RestTyped, AnswerMaps
<1>3. \A t \in Turn : Known(t) => Known(t)'
  BY <1>1, <1>2 DEF Known
<1>4. \A t, u \in Turn : answered'[t] # "none" /\ u < t => answered'[u] # "none"
  BY <1>2, TurnsTyped DEF Order
<1>5. \A u \in stopped' : Known(u)' /\ (turn' # 0 => u <= turn')
  BY <1>3, TurnsTyped DEF Order
<1>6. calls'["finish"].turn # 0 => Known(calls["finish"].turn)'
  BY <1>3, TurnsTyped DEF Order, Tasks
<1> QED
  BY <1>1, <1>4, <1>5, <1>6 DEF Order, Known

LEMMA OrderStep == Typed /\ Reports /\ Order /\ [Next]_vars => Order'
<1> SUFFICES ASSUME Typed, Reports, Order, [Next]_vars
             PROVE  Order'
  OBVIOUS
<1>a. /\ calls \in CallMaps /\ goal \in Goals /\ cur.last \in Statuses
      /\ Statuses = {"completed", "interrupted", "failed"}
      /\ turn \in Turn \union {0} /\ 0 \notin Turn /\ owner.turn \in Turn \union {0}
      /\ \A k \in {"send", "goal", "finish", "control"} : k \in Tasks
      /\ NoCall.turn = 0
  BY CurWrites, Blank, TurnsTyped DEF Typed, TurnTyped, RestTyped, Statuses, Tasks
<1>b. \A k \in Tasks : k # "control" /\ calls[k].reply # "none" => calls[k].turn \in Turn
  BY <1>a, CallWrites
<1>c. /\ \A k \in Tasks : Done(k) \in CallMaps
      /\ \A k, l \in Tasks : Done(k)[l].turn \in {calls[l].turn, 0}
  BY <1>a, CallWrites, CallShape
<1>1. ASSUME NEW t \in Turn, Busy(t)
      PROVE  Order'
  <2>1. /\ owner = NoOwner /\ NoOwner.turn = 0 /\ answered[t] = "none"
        /\ \A u \in Turn : u < t => answered[u] # "none"
        /\ \A u \in Turn : answered'[u] = IF u = t THEN "error" ELSE answered[u]
        /\ UNCHANGED <<turn, owner, stopped, calls>>
    BY <1>1 DEF Busy, MayInvoke, engine, NoOwner, Typed, RestTyped, AnswerMaps
  <2>2. \A u \in Turn : Known(u) => Known(u)'
    BY <2>1 DEF Known
  <2>3. \A u, v \in Turn : answered'[u] # "none" /\ v < u => answered'[v] # "none"
    BY <2>1, TurnsTyped DEF Order
  <2>4. \A u \in stopped' : Known(u)' /\ (turn' # 0 => u <= turn')
    BY <2>1, <2>2, TurnsTyped DEF Order
  <2>5. calls'["finish"].turn # 0 => Known(calls["finish"].turn)'
    BY <2>1, <2>2, <1>a, TurnsTyped DEF Order
  <2> QED
    BY <2>1, <2>3, <2>4, <2>5 DEF Order, Known
<1>2. ASSUME NEW t \in Turn, Send(t) \/ ResumeGoal(t)
      PROVE  Order'
  <2>1. /\ owner = NoOwner /\ NoOwner.turn = 0 /\ answered[t] = "none"
        /\ \A u \in Turn : u < t => answered[u] # "none"
        /\ turn' = t /\ owner'.turn = t /\ UNCHANGED <<answered, stopped>>
    BY <1>2 DEF Send, ResumeGoal, MayInvoke, record, NoOwner
  <2>2. /\ calls'["finish"].turn = calls["finish"].turn
        /\ calls'["send"].turn \in {0, t} /\ calls'["goal"].turn \in {0, t}
        /\ calls'["send"].turn = 0 \/ calls'["goal"].turn = 0
    BY <1>2, <1>a, <2>1, CallShape DEF Send, ResumeGoal, Order
  <2>3. \A u \in Turn : Known(u) => answered[u] # "none" /\ u <= t
    BY <2>1, <1>a, TurnsTyped DEF Known, Order
  <2>4. \A u \in Turn : Known(u) => Known(u)'
    BY <2>1, <2>3 DEF Known
  <2>5. \A u \in stopped' : Known(u)' /\ (turn' # 0 => u <= turn')
    BY <2>1, <2>3, <2>4, TurnsTyped DEF Order
  <2>6. calls'["finish"].turn # 0 => Known(calls["finish"].turn)'
    BY <2>2, <2>4, <1>a, TurnsTyped DEF Order
  <2> QED
    BY <2>1, <2>2, <2>5, <2>6 DEF Order, Known
<1>3. CASE SendAnswered
  <2>1. calls["send"].turn \in Turn /\ calls["goal"].turn = 0
    BY <1>3, <1>a, <1>b DEF SendAnswered, Order
  <2>2. /\ calls'["finish"] = calls["finish"] /\ calls'["send"].turn = 0 /\ calls'["goal"].turn = 0
        /\ UNCHANGED <<turn, stopped>>
    BY <1>3, <1>a, <2>1, CallShape DEF SendAnswered
  <2> QED
    BY <1>3, <2>2, <2>1, <1>a, OrderEnded, OrderSame DEF SendAnswered
<1>4. CASE GoalNotResumed
  <2>1. calls["goal"].turn \in Turn /\ calls["send"].turn = 0
    BY <1>4, <1>a, <1>b DEF GoalNotResumed, Order
  <2>2. Joined(Done("goal"), "error") \in CallMaps
    BY <1>c, <1>a, CallWrites DEF Replies
  <2>3. calls'["finish"].turn = calls["finish"].turn /\ calls'["send"].turn = 0 /\ calls'["goal"].turn = 0
    <3>1. /\ Joined(Done("goal"), "error")["finish"] = calls["finish"]
          /\ Joined(Done("goal"), "error")["send"] = calls["send"]
          /\ Joined(Done("goal"), "error")["goal"] = NoCall
      <4>1. \A k \in {"send", "goal", "finish"} : Joined(Done("goal"), "error")[k] = Done("goal")[k]
        BY <1>c, <1>a, CallShape
      <4> QED
        BY <4>1, <1>c, <1>a, CallShape
    <3>2. PICK value : SetGoal(value, Joined(Done("goal"), "error"))
      BY <1>4 DEF GoalNotResumed
    <3> QED
      BY <3>1, <3>2, <1>a, <2>1, <2>2, GoalShape
  <2> QED
    BY <1>4, <2>3, OrderEnded DEF GoalNotResumed
<1>5. CASE InvocationEnds
  BY <1>5, <1>a, OrderEnded DEF InvocationEnds, engine
<1> SUFFICES ASSUME ~Begins, ~Ends
             PROVE  Order'
  BY <1>2, <1>3, <1>4, <1>5 DEF Begins, Ends
<1>6. ASSUME UNCHANGED answered, stopped' \subseteq stopped \union ({turn, owner.turn} \ {0}),
             \A k \in {"send", "goal", "finish"} : calls'[k].turn \in {calls[k].turn, 0}
      PROVE  Order'
  BY <1>6, TurnStep, OrderSame
<1>d. CASE UNCHANGED <<answered, stopped, calls>>
  BY <1>d, <1>6
<1>7. CASE GoalRead
  <2>1. \A k \in Tasks : Stale(calls)[k].turn = calls[k].turn
    BY <1>a, StaleShape
  <2>2. Await("goal", "set", calls["goal"].turn, 0)["goal"].turn = calls["goal"].turn
    BY <1>a, CallShape
  <2>3. PICK c \in CallMaps : /\ \A k \in Tasks : c[k].turn = calls[k].turn
                              /\ calls' = [c EXCEPT !["goal"] = Await("goal", "set", calls["goal"].turn, 0)["goal"]]
    BY <1>7, <1>a, <2>1, CallWrites DEF GoalRead
  <2>4. \A k \in {"send", "goal", "finish"} : calls'[k].turn = calls[k].turn
    BY <2>2, <2>3, <1>a DEF CallMaps
  <2> QED
    BY <1>6, <1>7, <2>4 DEF GoalRead, record
<1>8. CASE GoalActivated
  <2>1. Joined(Done("goal"), "ok") \in CallMaps
    BY <1>c, <1>a, CallWrites DEF Replies
  <2>2. \A k \in {"send", "goal", "finish"} : Joined(Done("goal"), "ok")[k] = Done("goal")[k]
    BY <1>c, <1>a, CallShape
  <2>3. \A k \in {"send", "goal", "finish"} : Joined(Done("goal"), "ok")[k].turn \in {calls[k].turn, 0}
    BY <2>2, <1>c, <1>a
  <2>4. SetGoal(Said(calls["goal"]), Joined(Done("goal"), "ok"))
    BY <1>8 DEF GoalActivated
  <2>5. \A k \in {"send", "goal", "finish"} : calls'[k].turn \in {calls[k].turn, 0}
    BY <2>1, <2>3, <2>4, <1>a, GoalShape
  <2> QED
    BY <1>6, <1>8, <2>5 DEF GoalActivated
<1>9. owner # NoOwner => owner.turn # 0
  BY DEF Typed, TurnTyped, Owners
<1>10. CASE Control
  <2>1. \A k \in {"send", "goal", "finish"} : calls'[k].turn = calls[k].turn
    BY <1>10, <1>a, ControlCalls
  <2>2. UNCHANGED answered /\ stopped' \subseteq stopped \union ({turn, owner.turn} \ {0})
    BY <1>9, <1>10 DEF Control, Cancel, ChildrenInterrupted, Pause, PauseJoins, PausePersisted,
       InterruptAnswered, PauseFails, MayControl, record
  <2> QED
    BY <1>6, <2>1, <2>2
<1>11. CASE RunFinished \/ WaitFails
  <2>1. PICK k \in Tasks : \E value : SetGoal(value, Done(k))
    BY <1>11 DEF RunFinished, WaitFails, Tasks
  <2>2. \A l \in {"send", "goal", "finish"} : calls'[l].turn \in {calls[l].turn, 0}
    BY <2>1, <1>a, <1>c, GoalShape
  <2> QED
    BY <1>6, <1>11, <2>2 DEF RunFinished, WaitFails
<1>12. CASE WaitExpires
  <2>1. \A k \in {"send", "goal", "finish"} : calls'[k] = calls[k]
    BY <1>12, <1>a, CallShape DEF WaitExpires, Tasks
  <2> QED
    BY <1>6, <1>12, <2>1 DEF WaitExpires
<1>13. CASE TakeStart
  <2>1. \A r \in CallSet : \A n : [r EXCEPT !.run = n].turn = r.turn
    BY DEF CallSet
  <2>2. calls' = [calls EXCEPT !["send"] = [calls["send"] EXCEPT !.run = run']]
    BY <1>13 DEF TakeStart
  <2>3. \A k \in {"send", "goal", "finish"} : calls'[k].turn = calls[k].turn
    BY <2>1, <2>2, <1>a DEF CallMaps
  <2> QED
    BY <1>6, <1>13, <2>3 DEF TakeStart, record
<1>14. CASE TellGoal \/ \E value \in {"none", "paused"} : GoalEnds(value)
  <2>1. \E value : SetGoal(value, calls)
    BY <1>14 DEF TellGoal, GoalEnds
  <2>2. \A k \in {"send", "goal", "finish"} : calls'[k].turn = calls[k].turn
    BY <2>1, <1>a, GoalShape
  <2> QED
    BY <1>6, <1>14, <2>2 DEF TellGoal, GoalEnds
<1>15. ASSUME NEW status \in Statuses, RunEnds(status)
       PROVE  Order'
  <2>1. CASE calls' = Await("finish", "get", turn, 0) /\ UNCHANGED <<turn, owner>>
    <3>1. calls'["finish"].turn = turn /\ calls'["send"] = calls["send"] /\ calls'["goal"] = calls["goal"]
      BY <2>1, <1>a, CallShape
    <3> QED
      BY <1>15, <2>1, <3>1, OrderKept DEF RunEnds
  <2> QED
    BY <1>d, <1>15, <2>1 DEF RunEnds
<1>16. ASSUME NEW k \in Tasks, NEW how, NEW said, calls' = Answer(k, how, said),
              UNCHANGED <<answered, stopped>>
       PROVE  Order'
  <2>1. \A l \in {"send", "goal", "finish"} : calls'[l].turn = calls[l].turn
    BY <1>16, <1>a, CallShape
  <2> QED
    BY <1>6, <1>16, <2>1
<1>17. CASE \/ AnswerStart \/ AnswerInterrupt \/ AnswerChildren
            \/ \E k \in {"goal", "finish"}, ok \in BOOLEAN : AnswerGet(k, ok)
            \/ \E k \in {"goal", "timer", "control"} : AnswerSet(k)
  BY <1>17, <1>16 DEF AnswerStart, AnswerInterrupt, AnswerChildren, AnswerGet, AnswerSet, record, Tasks
<1>18. CASE \/ Settle \/ PollFires \/ Announce \/ ContinueGoal \/ Spawn \/ UNCHANGED vars
            \/ \E ok \in BOOLEAN : ReadAnswered(ok)
            \/ \E told \in BOOLEAN : ChildEnds(told)
  BY <1>18, <1>d DEF Settle, PollFires, Announce, ContinueGoal, Spawn, ReadAnswered, ChildEnds,
     vars, engine, record
<1>19. CASE Exit
  <2>1. \A r \in CallSet : [r EXCEPT !.reply = "error"].turn = r.turn
    BY DEF CallSet
  <2>2. \A k \in {"send", "goal", "finish"} : calls'[k].turn = calls[k].turn
    BY <1>19, <2>1, <1>a DEF Exit, CallMaps
  <2> QED
    BY <1>6, <1>19, <2>2 DEF Exit
<1> QED
  BY <1>1, <1>7, <1>8, <1>10, <1>11, <1>12, <1>13, <1>14, <1>15, <1>17, <1>18, <1>19
  DEF Next, Continue, Host, Native, ReadEnds, WaitLimit, Control, Begins, Ends

----------------------------------------------------------------------------
(* What holds of a session at any time.                                    *)

Replied(k) == calls[k].reply \in {"ok", "error"}

\* No line of the native process comes once it is down; only one answer waits to be handled;
\* the turn's last status is that of a run that was left to itself.
ProcOK  == (proc = "down" => run = 0 /\ turn = 0) /\ (announced => run # 0)
TurnOK  == cur.last # "interrupted" /\ (cur.childCompletion => turn # 0)
CallsOK ==
    proc = "up" => /\ \A k, l \in Tasks : Replied(k) /\ Replied(l) => k = l
                   /\ calls["send"].reply = "error" => calls["send"].run = 0
Basics == ProcOK /\ TurnOK /\ CallsOK

LEMMA BasicsInit == Init => Basics
  BY Blank DEF Init, Basics, ProcOK, TurnOK, CallsOK, NewTurn, Replied, Tasks

LEMMA ProcStep ==
    ASSUME CodexAssumption, Typed, Reports, ProcOK, [Next]_vars
    PROVE  ProcOK'
<1>a. run \in Nat /\ runs \in Nat /\ proc \in {"up", "down"}
  BY DEF Typed, NativeTyped, Run, CodexAssumption
<1>1. CASE Begins
  BY <1>1 DEF Begins, Send, ResumeGoal, MayInvoke, native, ProcOK
<1> SUFFICES ASSUME turn' \in {turn, 0}
             PROVE  ProcOK'
  BY <1>1, TurnStep
<1>2. CASE UNCHANGED <<proc, run, announced>>
  BY <1>2 DEF ProcOK
<1>3. CASE TakeStart \/ ContinueGoal \/ Announce
  BY <1>3, <1>a DEF TakeStart, ContinueGoal, Announce, ProcOK
<1>4. CASE \E status \in Statuses : RunEnds(status)
  BY <1>4 DEF RunEnds, ProcOK
<1>5. CASE Exit
  BY <1>5, TurnPositive DEF Exit, FinishTurn, Unfinished, ProcOK
<1>6. CASE Continue \/ Host \/ WaitLimit \/ PollFires \/ ReadEnds \/ UNCHANGED vars
  BY <1>2, <1>6 DEF Continue, SendAnswered, GoalRead, GoalActivated, GoalNotResumed,
     ChildrenInterrupted, PauseJoins, PausePersisted, InterruptAnswered, PauseFails, RunFinished,
     WaitFails, Settle, InvocationEnds, Host, Cancel, Pause, Busy, Send, ResumeGoal, WaitLimit,
     WaitExpires, AnswerSet, PollFires, ReadEnds, ReadAnswered, vars, native
<1>7. CASE \/ AnswerStart \/ TellGoal \/ AnswerInterrupt \/ AnswerChildren \/ Spawn
           \/ \E value \in {"none", "paused"} : GoalEnds(value)
           \/ \E k \in {"goal", "finish"}, ok \in BOOLEAN : AnswerGet(k, ok)
           \/ \E k \in {"goal", "control"} : AnswerSet(k)
           \/ \E told \in BOOLEAN : ChildEnds(told)
  BY <1>2, <1>7 DEF AnswerStart, TellGoal, AnswerInterrupt, AnswerChildren, Spawn, GoalEnds,
     AnswerGet, AnswerSet, ChildEnds, native
<1> QED
  BY <1>3, <1>4, <1>5, <1>6, <1>7 DEF Next, Native

\* What the helpers write into the current turn.
LEMMA FinishTurnOK ==
    ASSUME Typed, Reports, TurnOK, NEW o \in {owner, Released}, NEW t \in Turn, NEW status \in Statuses,
           FinishTurn(o, t, status)
    PROVE  TurnOK'
<1>1. /\ NewTurn.last = "completed" /\ ~NewTurn.childCompletion
      /\ [cur EXCEPT !.childCompletion = TRUE].last = cur.last
  BY DEF NewTurn, Typed, TurnTyped, CurSet
<1> QED
  BY <1>1, FinishShape, TurnPositive DEF Typed, TurnOK

LEMMA ContinueTurnOK ==
    ASSUME Typed, Reports, TurnOK, NEW t \in Turn, NEW value, ContinueOrFinish(t, value)
    PROVE  TurnOK'
<1>1. cur.last \in Statuses /\ "completed" \in Statuses /\ (turn # 0 => turn \in Turn)
  BY CurWrites DEF Typed, TurnTyped, Statuses
<1>2. /\ [cur EXCEPT !.waiting = TRUE, !.timer = TRUE].last = cur.last
      /\ [cur EXCEPT !.waiting = TRUE, !.timer = TRUE].childCompletion <=> cur.childCompletion
  BY DEF Typed, TurnTyped, CurSet
<1> QED
  BY <1>1, <1>2, FinishTurnOK DEF ContinueOrFinish, GoalReleases, Unfinished, TurnOK

LEMMA TurnOKStep ==
    ASSUME Typed, Reports, TurnOK, [Next]_vars
    PROVE  TurnOK'
<1>a. /\ cur \in CurSet /\ cur.last \in Statuses /\ Statuses = {"completed", "interrupted", "failed"}
      /\ turn \in Turn \union {0} /\ NewTurn.last = "completed" /\ ~NewTurn.childCompletion
  BY CurWrites, TurnsTyped DEF Typed, TurnTyped, Statuses, NewTurn
<1>b. \A k \in {"send", "goal", "finish", "timer"} : calls[k].reply # "none" => calls[k].turn \in Turn
  BY CallWrites DEF Typed, RestTyped, Tasks
<1>c. CASE UNCHANGED <<turn, cur>>
  BY <1>c DEF TurnOK
<1>d. ASSUME turn' = turn, cur'.last = cur.last, cur'.childCompletion <=> cur.childCompletion
      PROVE  TurnOK'
  BY <1>d DEF TurnOK
<1>1. CASE Begins \/ GoalNotResumed
  BY <1>1, <1>a DEF Begins, Send, ResumeGoal, GoalNotResumed, TurnOK
<1>2. CASE SendAnswered
  <2>1. \A n : /\ [cur EXCEPT !.native = n].last = cur.last
               /\ [cur EXCEPT !.native = n].childCompletion <=> cur.childCompletion
    BY <1>a DEF CurSet
  <2>2. turn' = turn /\ (cur' = cur \/ \E n : cur' = [cur EXCEPT !.native = n])
    BY <1>2 DEF SendAnswered
  <2> QED
    BY <2>1, <2>2 DEF TurnOK
<1>3. CASE WaitExpires
  <2>1. /\ [cur EXCEPT !.timer = FALSE, !.last = "failed"].last = "failed"
        /\ [cur EXCEPT !.timer = FALSE, !.last = "failed"].childCompletion <=> cur.childCompletion
    BY <1>a DEF CurSet
  <2> QED
    BY <1>3, <2>1 DEF WaitExpires, TurnOK
<1>4. CASE Announce
  <2>1. \A n : LET r == [cur EXCEPT !.native = n, !.seen = TRUE, !.waiting = FALSE, !.timer = FALSE] IN
               r.last = cur.last /\ (r.childCompletion <=> cur.childCompletion)
    BY <1>a DEF CurSet
  <2> QED
    BY <1>4, <2>1 DEF Announce, TurnOK
<1>5. ASSUME NEW status \in Statuses, RunEnds(status)
      PROVE  TurnOK'
  <2>1. CASE status = "completed" /\ turn' = turn /\ cur' = [cur EXCEPT !.native = 0, !.last = status]
    <3>1. /\ [cur EXCEPT !.native = 0, !.last = status].last = status
          /\ [cur EXCEPT !.native = 0, !.last = status].childCompletion <=> cur.childCompletion
      BY <1>a DEF CurSet
    <3> QED
      BY <2>1, <3>1 DEF TurnOK
  <2> QED
    BY <1>5, <1>a, <1>c, <2>1, FinishTurnOK DEF RunEnds, Unfinished
<1>6. CASE Cancel \/ ChildrenInterrupted
  <2>1. CASE \E o \in {owner, Released} : \E t, c : Interrupt(o, t, c)
    BY <1>a, <1>c, <2>1, FinishTurnOK DEF Interrupt, Unfinished
  <2> QED
    BY <1>6, <1>c, <2>1 DEF Cancel, ChildrenInterrupted, Unfinished
<1>7. CASE PausePersisted \/ InterruptAnswered
  BY <1>7, <1>a, <1>c, FinishTurnOK DEF PausePersisted, InterruptAnswered, GoalReleases, Unfinished
<1>8. CASE GoalActivated \/ RunFinished
  BY <1>8, <1>b, ContinueTurnOK DEF GoalActivated, RunFinished
<1>9. CASE WaitFails
  BY <1>9, <1>a, <1>b, FinishTurnOK DEF WaitFails, GoalReleases
<1>10. CASE PollFires \/ \E ok \in BOOLEAN : ReadAnswered(ok)
  <2>1. CASE turn' = 0 /\ cur' = NewTurn
    BY <1>a, <2>1 DEF TurnOK
  <2>2. ASSUME NEW armed, NEW childNow, NEW readNow, NEW awaits, Poll(armed, childNow, readNow, awaits)
        PROVE  TurnOK'
    BY <1>a, <1>d, <2>1, <2>2, PollNotes, Noted
  <2> QED
    BY <1>10, <1>c, <2>2 DEF PollFires, ReadAnswered
<1>11. CASE TellGoal \/ \E value \in {"none", "paused"} : GoalEnds(value)
  BY <1>11, <1>a, <1>c, FinishTurnOK DEF TellGoal, GoalEnds, GoalReleases, Unfinished
<1>12. CASE Exit
  BY <1>12, <1>a, <1>c, FinishTurnOK DEF Exit, Unfinished
<1>13. CASE \/ \E t \in Turn : Busy(t)
            \/ InvocationEnds \/ Settle \/ PauseJoins \/ PauseFails
            \/ GoalRead \/ Pause \/ TakeStart \/ AnswerStart
            \/ ContinueGoal \/ AnswerInterrupt \/ AnswerChildren \/ Spawn
            \/ \E k \in {"goal", "finish"}, ok \in BOOLEAN : AnswerGet(k, ok)
            \/ \E k \in {"goal", "timer", "control"} : AnswerSet(k)
            \/ \E told \in BOOLEAN : ChildEnds(told)
            \/ UNCHANGED vars
  BY <1>13, <1>c DEF Busy, InvocationEnds, Settle, PauseJoins, PauseFails, GoalRead, Pause,
     TakeStart, AnswerStart, ContinueGoal, AnswerInterrupt, AnswerChildren, Spawn, AnswerGet,
     AnswerSet, ChildEnds, vars, engine
<1> QED
  BY <1>1, <1>2, <1>3, <1>4, <1>5, <1>6, <1>7, <1>8, <1>9, <1>10, <1>11, <1>12, <1>13
  DEF Next, Continue, Host, Native, ReadEnds, WaitLimit, Begins

LEMMA CallsOKStep ==
    ASSUME Typed, Reports, CallsOK, [Next]_vars
    PROVE  CallsOK'
<1>a. /\ calls \in CallMaps /\ NoCall.reply = "none" /\ proc \in {"up", "down"}
      /\ \A k \in {"send", "goal", "finish", "timer", "control"} : k \in Tasks
      /\ \A k \in Tasks : k # "control" => Done(k) \in CallMaps
  BY Blank, CallWrites DEF Typed, RestTyped, NativeTyped, Tasks
<1>b. proc' = "up" => proc = "up"
  BY DEF Next, Continue, SendAnswered, GoalRead, GoalActivated, GoalNotResumed, ChildrenInterrupted,
     PauseJoins, PausePersisted, InterruptAnswered, PauseFails, RunFinished, WaitFails, Settle,
     InvocationEnds, Host, Cancel, Pause, Busy, Send, ResumeGoal, WaitLimit, WaitExpires, AnswerSet,
     PollFires, ReadEnds, ReadAnswered, vars, native, Native, TakeStart, AnswerStart, Announce,
     ContinueGoal, GoalEnds, TellGoal, RunEnds, AnswerGet, AnswerInterrupt, AnswerChildren, Spawn,
     ChildEnds, Exit
\* A step after which no more calls are replied than before.
<1>1. ASSUME \A k \in Tasks : calls'[k].reply \in {calls[k].reply, "waiting", "none"},
             calls'["send"].reply = "error" => calls'["send"].run = calls["send"].run
      PROVE  CallsOK'
  <2>1. \A k \in Tasks : Replied(k)' => Replied(k)
    BY <1>1 DEF Replied
  <2> QED
    BY <1>1, <1>a, <1>b, <2>1 DEF CallsOK
<1>2. CASE UNCHANGED calls
  BY <1>1, <1>2
<1>3. CASE Begins
  <2>1. \A k \in Tasks : calls'[k].reply \in {calls[k].reply, "waiting", "none"}
    BY <1>3, <1>a, CallShape DEF Begins, Send, ResumeGoal
  <2>2. calls'["send"].reply = "waiting" \/ calls'["send"] = calls["send"]
    BY <1>3, <1>a, CallShape DEF Begins, Send, ResumeGoal
  <2> QED
    BY <1>1, <2>1, <2>2
<1>4. CASE SendAnswered
  <2>1. \A k \in Tasks : calls'[k].reply \in {calls[k].reply, "none"}
    BY <1>4, <1>a, CallShape DEF SendAnswered
  <2>2. calls'["send"].reply = "none"
    BY <1>4, <1>a, CallShape DEF SendAnswered
  <2> QED
    BY <1>1, <2>1, <2>2
<1>5. CASE GoalRead
  <2>1. \A k \in Tasks : Stale(calls)[k].reply = calls[k].reply /\ Stale(calls)[k].run = calls[k].run
    BY <1>a, StaleShape
  <2>2. Await("goal", "set", calls["goal"].turn, 0)["goal"].reply = "waiting"
    BY <1>a, CallShape
  <2>3. PICK c \in CallMaps : /\ \A k \in Tasks : c[k].reply = calls[k].reply /\ c[k].run = calls[k].run
                              /\ calls' = [c EXCEPT !["goal"] = Await("goal", "set", calls["goal"].turn, 0)["goal"]]
    BY <1>5, <1>a, <2>1, CallWrites DEF GoalRead
  <2>4. \A k \in Tasks : calls'[k].reply \in {calls[k].reply, "waiting"}
    BY <2>2, <2>3, <1>a DEF CallMaps
  <2>5. calls'["send"].run = calls["send"].run
    BY <2>3, <1>a DEF CallMaps
  <2> QED
    BY <1>1, <2>4, <2>5
\* The call that is done is the one that was replied, so a pause that joins it may be.
<1>6. ASSUME NEW how \in {"ok", "error"}, NEW value, Replied("goal"),
             SetGoal(value, Joined(Done("goal"), how))
      PROVE  CallsOK'
  <2>1. Joined(Done("goal"), how) \in CallMaps
    BY <1>a, CallWrites DEF Replies
  <2>2. \A k \in Tasks : k # "control" => Joined(Done("goal"), how)[k] = Done("goal")[k]
    BY <1>a, CallShape
  <2>3. \A k \in Tasks : k # "control" => Joined(Done("goal"), how)[k] \in {calls[k], NoCall}
    BY <1>a, <2>2, CallShape
  <2>4. Joined(Done("goal"), how)["goal"] = NoCall
    BY <1>a, <2>2, CallShape
  <2>5. \A k \in Tasks : /\ calls'[k].reply = Joined(Done("goal"), how)[k].reply
                        /\ calls'[k].run = Joined(Done("goal"), how)[k].run
    BY <1>6, <2>1, GoalShape
  <2>6. proc = "up" => \A k \in Tasks : Replied(k)' => k = "control"
    BY <1>6, <1>a, <2>3, <2>4, <2>5 DEF CallsOK, Replied
  <2>7. calls'["send"].reply = "error" => calls["send"].reply = "error" /\ calls'["send"].run = calls["send"].run
    BY <1>a, <2>3, <2>5
  <2> QED
    BY <1>a, <1>b, <2>6, <2>7 DEF CallsOK
<1>7. CASE GoalActivated \/ GoalNotResumed
  BY <1>6, <1>7 DEF GoalActivated, GoalNotResumed, Replied
<1>8. CASE Control
  <2>1. /\ \A k \in Tasks : calls'[k].reply \in {calls[k].reply, "waiting", "none"}
        /\ calls'["send"].run = calls["send"].run
    BY <1>8, <1>a, ControlCalls
  <2> QED
    BY <1>1, <2>1
<1>9. ASSUME NEW k \in {"finish", "timer"}, NEW value, SetGoal(value, Done(k))
      PROVE  CallsOK'
  <2>1. \A l \in Tasks : calls'[l].reply = Done(k)[l].reply /\ calls'[l].run = Done(k)[l].run
    BY <1>9, <1>a, GoalShape
  <2>2. \A l \in Tasks : Done(k)[l].reply \in {calls[l].reply, "none"}
    BY <1>9, <1>a, CallShape
  <2>3. Done(k)["send"] = calls["send"]
    BY <1>9, <1>a, CallShape
  <2> QED
    BY <1>1, <1>a, <2>1, <2>2, <2>3
<1>10. CASE RunFinished \/ WaitFails
  BY <1>9, <1>10 DEF RunFinished, WaitFails
<1>11. ASSUME NEW k \in {"finish", "timer"}, NEW at, NEW t, calls' = Await(k, at, t, 0)
       PROVE  CallsOK'
  <2>1. \A l \in Tasks : calls'[l].reply \in {calls[l].reply, "waiting"}
    BY <1>11, <1>a, CallShape
  <2>2. calls'["send"] = calls["send"]
    BY <1>11, <1>a, CallShape
  <2> QED
    BY <1>1, <2>1, <2>2
<1>12. CASE WaitExpires \/ \E status \in Statuses : RunEnds(status)
  BY <1>2, <1>11, <1>12 DEF WaitExpires, RunEnds
<1>13. CASE TakeStart
  <2>1. \A r \in CallSet : \A n : [r EXCEPT !.run = n].reply = r.reply
    BY DEF CallSet
  <2>2. calls' = [calls EXCEPT !["send"] = [calls["send"] EXCEPT !.run = run']]
    BY <1>13 DEF TakeStart
  <2>3. \A k \in Tasks : calls'[k].reply = calls[k].reply
    BY <2>1, <2>2, <1>a DEF CallMaps
  <2> QED
    BY <1>1, <1>13, <1>a, <2>3 DEF TakeStart
<1>14. CASE TellGoal \/ \E value \in {"none", "paused"} : GoalEnds(value)
  <2>1. \E value : SetGoal(value, calls)
    BY <1>14 DEF TellGoal, GoalEnds
  <2>2. \A k \in Tasks : calls'[k].reply = calls[k].reply /\ calls'[k].run = calls[k].run
    BY <2>1, <1>a, GoalShape
  <2> QED
    BY <1>1, <1>a, <2>2
\* A request is answered when nothing else waits to be handled.
<1>15. ASSUME NEW k \in Tasks, NEW how, NEW said, Quiet, calls' = Answer(k, how, said),
              k = "send" /\ how = "error" => calls["send"].run = 0
       PROVE  CallsOK'
  <2>1. \A l \in Tasks : l # k => calls'[l] = calls[l]
    BY <1>15, <1>a, CallShape
  <2>2. calls'[k].run = calls[k].run /\ calls'[k].reply = how
    BY <1>15, <1>a, CallShape
  <2>3. \A l \in Tasks : Replied(l)' => l = k
    BY <1>15, <2>1 DEF Quiet, Replied
  <2> QED
    BY <1>15, <1>a, <1>b, <2>1, <2>2, <2>3 DEF CallsOK
<1>16. CASE AnswerStart
  BY <1>15, <1>16, <1>a DEF AnswerStart, Due
<1>17. CASE \/ AnswerInterrupt \/ AnswerChildren
            \/ \E k \in {"goal", "finish"}, ok \in BOOLEAN : AnswerGet(k, ok)
            \/ \E k \in {"goal", "timer", "control"} : AnswerSet(k)
  BY <1>15, <1>17, <1>a DEF AnswerInterrupt, AnswerChildren, AnswerGet, AnswerSet, Due
<1>18. CASE \/ Settle \/ PollFires \/ Announce \/ ContinueGoal \/ Spawn \/ InvocationEnds
            \/ \E t \in Turn : Busy(t)
            \/ \E ok \in BOOLEAN : ReadAnswered(ok)
            \/ \E told \in BOOLEAN : ChildEnds(told)
            \/ UNCHANGED vars
  BY <1>18, <1>2 DEF Settle, PollFires, Announce, ContinueGoal, Spawn, InvocationEnds, Busy,
     ReadAnswered, ChildEnds, vars, engine
<1>19. CASE Exit
  BY <1>19 DEF Exit, CallsOK
<1> QED
  BY <1>3, <1>4, <1>5, <1>7, <1>8, <1>10, <1>12, <1>13, <1>14, <1>16, <1>17, <1>18, <1>19
  DEF Next, Continue, Host, Native, ReadEnds, WaitLimit, Control, Begins
----------------------------------------------------------------------------
(* While nothing is stopped, the engine follows every run of its turn.     *)

Unstopped == stopped = {} /\ proc = "up"

\* The native side runs, or will of itself.
Working   == run # 0 \/ nativeGoal = "active"

\* The goal has been made active, and the engine is about to hear it; the turn's start is
\* not taken up yet; it is, and no line of its run has been read.
Activated == calls["goal"].at = "set" /\ calls["goal"].reply = "ok"
Starting  == \/ calls["send"].turn # 0 /\ calls["send"].run = 0
             \/ calls["goal"].turn # 0 /\ ~Activated
Begun     == turn # 0 /\ calls["send"].turn = turn /\ calls["send"].run # 0 /\ ~cur.seen

\* What only a turn with a run behind it does.
Waits     == cur.waiting \/ cur.childCompletion \/ calls["finish"].turn = turn

NoControls ==
    control = NoControl /\ calls["control"] = NoCall /\ calls["timer"].turn = 0 /\ ~halting

\* What the engine knows, or is about to hear, of the goal is what the goal is.
GoalHeard ==
    /\ nativeGoal = "active" => goal = "active" \/ (Activated /\ calls["goal"].fresh)
    /\ calls["finish"].reply = "ok" /\ calls["finish"].fresh => calls["finish"].said = nativeGoal
    /\ calls["goal"].turn # 0 => calls["goal"].at \in {"get", "set"}
    /\ calls["goal"].turn # 0 /\ calls["goal"].at = "get" =>
         /\ calls["goal"].fresh \/ goal = nativeGoal
         /\ calls["goal"].reply = "ok" /\ calls["goal"].fresh => calls["goal"].said = nativeGoal
    /\ calls["goal"].turn # 0 /\ calls["goal"].at = "set" /\ calls["goal"].reply = "waiting" =>
         goal = nativeGoal /\ calls["goal"].fresh
    /\ Activated /\ calls["goal"].fresh => calls["goal"].said = "active"

\* The native side is idle while a turn is started, works for no turn but the current one,
\* and tells of its run before the engine waits for it or goes on without it.
StartsIdle ==
    Starting => ~Working /\ turn # 0 /\ turn = owner.turn /\ cur.native = 0 /\ ~cur.seen /\ ~Waits
WorksForTurn == Working => turn = serves /\ turn # 0 /\ ~cur.childCompletion
RunHeard ==
    /\ announced => cur.native = run /\ cur.seen /\ ~cur.waiting
    /\ Begun => run = calls["send"].run /\ ~announced /\ ~Waits /\ cur.native = 0
    /\ run # 0 /\ cur.native = 0 => nativeGoal = "active" \/ Begun
WaitsForRun ==
    /\ cur.childCompletion => goal # "active"
    /\ cur.native # 0 => ~cur.waiting
    /\ calls["goal"].turn # 0 /\ turn = calls["goal"].turn => ~cur.waiting /\ ~cur.childCompletion
Follows == StartsIdle /\ WorksForTurn /\ RunHeard /\ WaitsForRun

\* After that, it works for a turn from the first stopped one on.
Unwatched ==
    proc = "up" /\ stopped # {} /\ Working => Unsettled(serves, stopped)

Tracked == Unwatched /\ (Unstopped => NoControls /\ GoalHeard /\ Follows)

LEMMA TrackedInit == Init => Tracked
  BY Blank DEF Init, Tracked, Unwatched, Unsettled, Unstopped, NoControls, GoalHeard, Follows, StartsIdle,
     WorksForTurn, RunHeard, WaitsForRun, Starting, Activated, Begun, Working, NewTurn, NoCall, Tasks

\* The steps that stop nothing and end no process, while nothing is stopped.
Calm ==
    \/ Begins \/ \E t \in Turn : Busy(t)
    \/ SendAnswered \/ GoalRead \/ GoalActivated \/ GoalNotResumed \/ RunFinished
    \/ Settle \/ InvocationEnds \/ PollFires \/ ReadEnds
    \/ TakeStart \/ AnswerStart \/ Announce \/ ContinueGoal \/ TellGoal
    \/ \E value \in {"none", "paused"} : GoalEnds(value)
    \/ \E status \in Statuses : RunEnds(status)
    \/ \E k \in {"goal", "finish"}, ok \in BOOLEAN : AnswerGet(k, ok)
    \/ AnswerSet("goal") \/ Spawn
    \/ \E told \in BOOLEAN : ChildEnds(told)
    \/ UNCHANGED vars

LEMMA CalmStep ==
    ASSUME Typed, [Next]_vars, stopped' = {}, proc' = "up"
    PROVE  Unstopped /\ (NoControls => Calm)
<1>1. ~Cancel /\ ~Pause /\ ~WaitExpires /\ ~Exit
  BY DEF Cancel, Pause, WaitExpires, Exit
<1>2. ASSUME NoControls
      PROVE  /\ ~ChildrenInterrupted /\ ~PauseJoins /\ ~PausePersisted /\ ~InterruptAnswered
             /\ ~PauseFails /\ ~WaitFails /\ ~AnswerSet("timer") /\ ~AnswerSet("control")
             /\ ~AnswerInterrupt /\ ~AnswerChildren
  <2>1. calls["control"].reply = "none" /\ calls["timer"].reply = "none" /\ calls["control"].at = "none"
    BY <1>2, Blank, CallWrites, TurnPositive DEF Typed, RestTyped, Tasks, NoControls
  <2> QED
    BY <2>1 DEF ChildrenInterrupted, PauseJoins, PausePersisted, InterruptAnswered, PauseFails, WaitFails,
       AnswerSet, AnswerInterrupt, AnswerChildren, Due
<1>3. NoControls => Calm
  BY <1>1, <1>2 DEF Next, Continue, Host, WaitLimit, Native, Calm, Begins
<1>4. proc = "up"
  BY <1>1 DEF Next, Continue, SendAnswered, GoalRead, GoalActivated, GoalNotResumed, ChildrenInterrupted,
     PauseJoins, PausePersisted, InterruptAnswered, PauseFails, RunFinished, WaitFails, Settle,
     InvocationEnds, Host, Busy, Send, ResumeGoal, WaitLimit, AnswerSet,
     PollFires, ReadEnds, ReadAnswered, vars, native, Native, TakeStart, AnswerStart, Announce,
     ContinueGoal, GoalEnds, TellGoal, RunEnds, AnswerGet, AnswerInterrupt, AnswerChildren, Spawn, ChildEnds
<1>5. stopped = {}
  BY <1>1 DEF Next, Continue, SendAnswered, GoalRead, GoalActivated, GoalNotResumed, ChildrenInterrupted,
     PauseJoins, PausePersisted, InterruptAnswered, PauseFails, RunFinished, WaitFails, Settle,
     InvocationEnds, Host, Busy, Send, ResumeGoal, WaitLimit, AnswerSet,
     PollFires, ReadEnds, ReadAnswered, vars, record, Native, TakeStart, AnswerStart, Announce,
     ContinueGoal, GoalEnds, TellGoal, RunEnds, AnswerGet, AnswerInterrupt, AnswerChildren, Spawn, ChildEnds
<1> QED
  BY <1>3, <1>4, <1>5 DEF Unstopped

LEMMA NoControlsStep ==
    ASSUME Typed, NoControls, Calm
    PROVE  NoControls'
<1>a. /\ calls \in CallMaps /\ "control" \in Tasks /\ "timer" \in Tasks
      /\ \A k \in {"send", "goal", "finish"} : k \in Tasks
      /\ NoCall.turn = 0
      /\ \A k \in Tasks : Done(k) \in CallMaps
  BY Blank, CallWrites DEF Typed, RestTyped, Tasks
<1>b. UNCHANGED <<control, halting>> \/ (UNCHANGED control /\ ~halting')
  BY DEF NoControls, Calm, Begins, SendAnswered, GoalRead, GoalActivated, GoalNotResumed, RunFinished, Settle,
     InvocationEnds, Busy, Send, ResumeGoal, AnswerSet, PollFires, ReadEnds, ReadAnswered, vars, native,
     TakeStart, AnswerStart, Announce, ContinueGoal, GoalEnds, TellGoal, RunEnds, AnswerGet, Spawn, ChildEnds
<1>c. ASSUME calls'["control"] = calls["control"], calls'["timer"] = calls["timer"]
      PROVE  NoControls'
  BY <1>b, <1>c DEF NoControls
<1>d. ASSUME NEW k \in {"send", "goal", "finish"}, NEW c, c = Joined(Done(k), "ok") \/ c = Joined(Done(k), "error")
      PROVE  c = Done(k) /\ c["control"] = calls["control"] /\ c["timer"] = calls["timer"]
  <2>1. Done(k)["control"] = NoCall
    BY <1>a, CallShape DEF NoControls
  <2>2. c = Done(k)
    BY <1>a, <1>d, <2>1, CallShape
  <2> QED
    BY <1>a, <2>2, CallShape
<1>e. ASSUME NEW value, NEW c \in CallMaps, SetGoal(value, c),
             c["control"] = calls["control"], c["timer"] = calls["timer"]
      PROVE  NoControls'
  <2>1. calls'["control"] = NoCall
    BY <1>a, <1>e, GoalShape DEF NoControls
  <2>2. calls'["timer"].turn = 0
    BY <1>a, <1>e, GoalShape DEF NoControls
  <2> QED
    BY <1>b, <2>1, <2>2 DEF NoControls
<1>1. CASE Begins \/ SendAnswered \/ \E status \in Statuses : RunEnds(status)
  <2>1. \/ UNCHANGED calls \/ \E k \in {"send", "goal", "finish"} : \E at, t : calls' = Await(k, at, t, 0)
        \/ calls' = Done("send")
    BY <1>1 DEF Begins, Send, ResumeGoal, SendAnswered, RunEnds
  <2> QED
    BY <1>a, <1>c, <2>1, CallShape
<1>2. CASE GoalRead
  <2>1. \A k \in {"control", "timer"} :
          Stale(calls)[k].turn = calls[k].turn /\ (calls[k] = NoCall => Stale(calls)[k] = NoCall)
    BY <1>a, StaleShape
  <2>2. PICK r : calls' = [calls EXCEPT !["goal"] = r] \/ calls' = [Stale(calls) EXCEPT !["goal"] = r]
    BY <1>2 DEF GoalRead
  <2>3. calls'["control"] = calls["control"] \/ calls'["control"] = Stale(calls)["control"]
    BY <1>a, <2>2, CallWrites DEF CallMaps
  <2>4. calls'["timer"] = calls["timer"] \/ calls'["timer"] = Stale(calls)["timer"]
    BY <1>a, <2>2, CallWrites DEF CallMaps
  <2> QED
    BY <1>b, <2>1, <2>3, <2>4 DEF NoControls
<1>3. CASE GoalActivated \/ GoalNotResumed
  <2>1. \E value : SetGoal(value, Done("goal"))
    BY <1>3, <1>d DEF GoalActivated, GoalNotResumed
  <2> QED
    BY <1>a, <1>d, <1>e, <2>1, CallShape
<1>4. CASE RunFinished
  <2>1. \E value : SetGoal(value, Done("finish"))
    BY <1>4 DEF RunFinished
  <2> QED
    BY <1>a, <1>e, <2>1, CallShape
<1>5. CASE TellGoal \/ \E value \in {"none", "paused"} : GoalEnds(value)
  <2>1. \E value : SetGoal(value, calls)
    BY <1>5 DEF TellGoal, GoalEnds
  <2> QED
    BY <1>a, <1>e, <2>1
<1>6. CASE \/ AnswerStart \/ AnswerSet("goal")
           \/ \E k \in {"goal", "finish"}, ok \in BOOLEAN : AnswerGet(k, ok)
  <2>1. \E k \in {"send", "goal", "finish"} : \E how, said : calls' = Answer(k, how, said)
    BY <1>6 DEF AnswerStart, AnswerGet, AnswerSet
  <2> QED
    BY <1>a, <1>c, <2>1, CallShape
<1>7. CASE TakeStart
  <2>1. \E r : calls' = [calls EXCEPT !["send"] = r]
    BY <1>7 DEF TakeStart
  <2> QED
    BY <1>a, <1>c, <2>1 DEF CallMaps
<1>8. CASE \/ \E t \in Turn : Busy(t)
           \/ Settle \/ InvocationEnds \/ PollFires \/ ReadEnds \/ Announce \/ ContinueGoal \/ Spawn
           \/ \E told \in BOOLEAN : ChildEnds(told)
           \/ UNCHANGED vars
  BY <1>8, <1>c DEF Busy, Settle, InvocationEnds, PollFires, ReadEnds, ReadAnswered, Announce, ContinueGoal,
     Spawn, ChildEnds, vars, engine
<1> QED
  BY <1>1, <1>2, <1>3, <1>4, <1>5, <1>6, <1>7, <1>8 DEF Calm

\* What the calls of the goal and of the end of a run are after a change of the goal.
LEMMA GoalHeardStep ==
    ASSUME Typed, Order, CallsOK, proc = "up", NoControls, StartsIdle, GoalHeard, Calm
    PROVE  GoalHeard'
<1>a. /\ calls \in CallMaps /\ "goal" \in Tasks /\ "finish" \in Tasks /\ "send" \in Tasks /\ "control" \in Tasks
      /\ NoCall.turn = 0 /\ NoCall.reply = "none" /\ NoCall.at = "none"
      /\ \A k \in Tasks : Done(k) \in CallMaps
      /\ \A k \in Tasks : k # "control" => (calls[k].reply # "none" => calls[k].turn # 0)
  BY Blank, CallWrites, TurnPositive DEF Typed, RestTyped, Tasks
\* A step that says nothing of the goal.
<1>b. ASSUME UNCHANGED <<goal, nativeGoal>>, calls'["goal"] = calls["goal"],
             \/ calls'["finish"] = calls["finish"]
             \/ calls'["finish"].reply # "ok"
      PROVE  GoalHeard'
  BY <1>b DEF GoalHeard, Activated
<1>1. CASE Begins
  <2>0. PICK t \in Turn : MayInvoke(t) /\ (Send(t) \/ ResumeGoal(t))
    BY <1>1 DEF Begins, Send, ResumeGoal
  <2>1. CASE Send(t)
    BY <2>1, <1>a, <1>b, CallShape DEF Send, native
  <2>2. CASE ResumeGoal(t)
    <3>1. calls["goal"].turn = 0 /\ ~Activated
      BY <2>0, <1>a DEF MayInvoke, Order, NoOwner, Activated
    <3>2. /\ calls'["goal"].at = "get" /\ calls'["goal"].reply = "waiting" /\ calls'["goal"].fresh
          /\ calls'["finish"] = calls["finish"]
      BY <2>2, <1>a, CallShape DEF ResumeGoal
    <3>3. UNCHANGED <<goal, nativeGoal>>
      BY <2>2 DEF ResumeGoal, native
    <3> QED
      BY <3>1, <3>2, <3>3 DEF GoalHeard, Activated
  <2> QED
    BY <2>0, <2>1, <2>2
<1>2. CASE SendAnswered \/ TakeStart \/ AnswerStart
  <2>1. UNCHANGED <<goal, nativeGoal>>
    BY <1>2 DEF SendAnswered, TakeStart, AnswerStart, native
  <2>2. (\E r : calls' = [calls EXCEPT !["send"] = r]) \/ (\E how, said : calls' = Answer("send", how, said))
    BY <1>2 DEF SendAnswered, TakeStart, AnswerStart, Done
  <2>3. calls'["goal"] = calls["goal"] /\ calls'["finish"] = calls["finish"]
    BY <2>2, <1>a, CallShape DEF CallMaps
  <2> QED
    BY <1>b, <2>1, <2>3
<1>3. CASE GoalRead
  <2>1. /\ calls["goal"].at = "get" /\ calls["goal"].reply = "ok" /\ goal' = Said(calls["goal"])
        /\ nativeGoal' = nativeGoal
    BY <1>3 DEF GoalRead, native
  <2>2. calls["goal"].turn # 0 /\ calls["finish"].reply # "ok"
    BY <2>1, <1>a DEF CallsOK, Replied
  <2>3. goal' = nativeGoal
    BY <2>1, <2>2 DEF GoalHeard, Said
  <2>4. LET r == Await("goal", "set", calls["goal"].turn, 0)["goal"] IN
        /\ r.at = "set" /\ r.reply = "waiting" /\ r.fresh /\ r.turn # 0
        /\ calls' = [calls EXCEPT !["goal"] = r] \/ calls' = [Stale(calls) EXCEPT !["goal"] = r]
    BY <1>3, <1>a, <2>2, CallShape DEF GoalRead
  <2>5. calls'["goal"].at = "set" /\ calls'["goal"].reply = "waiting" /\ calls'["goal"].fresh
    BY <1>a, <2>4, CallWrites DEF CallMaps
  <2>6. calls'["finish"] = calls["finish"] \/ calls'["finish"] = Stale(calls)["finish"]
    BY <1>a, <2>4, CallWrites DEF CallMaps
  <2>7. calls'["finish"].reply # "ok"
    BY <1>a, <2>2, <2>6, StaleShape
  <2> QED
    BY <2>1, <2>3, <2>5, <2>7 DEF GoalHeard, Activated
\* One of the two calls has gone on with what it said.
<1>4. ASSUME NEW value, NEW k \in {"goal", "finish"}, Replied(k), UNCHANGED nativeGoal,
             SetGoal(value, Done(k)),
             nativeGoal = "active" => value = "active",
             value = goal \/ value = nativeGoal
      PROVE  GoalHeard'
  <2>1. goal' = value /\ Done(k)[k] = NoCall /\ calls'[k] = NoCall
    BY <1>4, <1>a, CallShape, GoalShape DEF SetGoal
  <2>2. \A l \in {"goal", "finish"} : l # k => Done(k)[l] = calls[l] /\ ~Replied(l)
    BY <1>4, <1>a, CallShape DEF CallsOK
  <2>3. \A l \in {"goal", "finish"} :
          /\ calls'[l].at = Done(k)[l].at /\ calls'[l].turn = Done(k)[l].turn
          /\ calls'[l].reply = Done(k)[l].reply /\ calls'[l].said = Done(k)[l].said
          /\ value # goal => ~calls'[l].fresh
          /\ value = goal => calls'[l] = Done(k)[l]
    BY <1>4, <1>a, GoalShape, GoalFresh
  <2>4. \A l \in {"goal", "finish"} : calls'[l].reply # "ok"
    BY <1>a, <2>1, <2>2, <2>3 DEF Replied
  <2>5. CASE k = "goal"
    BY <2>1, <2>4, <2>5, <1>4, <1>a DEF GoalHeard, Activated
  <2>6. CASE k = "finish"
    <3>1. /\ calls'["goal"].at = calls["goal"].at /\ calls'["goal"].turn = calls["goal"].turn
          /\ calls'["goal"].reply = calls["goal"].reply
          /\ value = goal => calls'["goal"] = calls["goal"]
      BY <2>2, <2>3, <2>6
    <3> QED
      BY <2>1, <2>4, <3>1, <1>4, <1>a DEF GoalHeard, Activated
  <2> QED
    BY <2>5, <2>6
<1>5. CASE GoalActivated
  <2>1. /\ calls["goal"].at = "set" /\ calls["goal"].reply = "ok" /\ UNCHANGED nativeGoal
        /\ SetGoal(Said(calls["goal"]), Joined(Done("goal"), "ok"))
    BY <1>5 DEF GoalActivated, native
  <2>2. Joined(Done("goal"), "ok") = Done("goal")
    BY <1>a, CallShape DEF NoControls
  <2>3. Said(calls["goal"]) \in {"active", goal}
    BY <2>1 DEF GoalHeard, Activated, Said
  <2>4. nativeGoal = "active" => Said(calls["goal"]) = "active"
    BY <2>1 DEF GoalHeard, Activated, Said
  <2>5. Said(calls["goal"]) = goal \/ Said(calls["goal"]) = "active"
    BY <2>3
  <2>6. Replied("goal")
    BY <2>1 DEF Replied
  <2>7. SetGoal(Said(calls["goal"]), Done("goal"))
    BY <2>1, <2>2
  \* The calls that wait are none: those of a goal are this one, and of a run that ended, stale.
  <2>8. /\ goal' = Said(calls["goal"]) /\ calls'["goal"] = NoCall
        /\ calls'["finish"].reply # "ok"
    <3>1. Done("goal")["goal"] = NoCall /\ Done("goal")["finish"] = calls["finish"]
      BY <1>a, CallShape
    <3>2. calls["finish"].reply # "ok"
      BY <1>a, <2>6 DEF CallsOK, Replied
    <3> QED
      BY <1>a, <2>7, <3>1, <3>2, GoalShape DEF SetGoal
  <2> QED
    BY <1>a, <2>1, <2>4, <2>8 DEF GoalHeard, Activated
<1>6. CASE GoalNotResumed
  <2> DEFINE missing == calls["goal"].at = "get" /\ calls["goal"].reply = "ok" /\ Said(calls["goal"]) = "none"
  <2>1. /\ calls["goal"].reply = "error" \/ missing
        /\ UNCHANGED nativeGoal
        /\ SetGoal(IF missing THEN "none" ELSE goal, Joined(Done("goal"), "error"))
    BY <1>6 DEF GoalNotResumed, native
  <2>2. Joined(Done("goal"), "error") = Done("goal")
    BY <1>a, CallShape DEF NoControls
  <2>3. missing => nativeGoal = "none"
    BY <1>a DEF GoalHeard, Said
  <2>4. ~missing /\ nativeGoal = "active" => goal = "active"
    BY <2>1 DEF GoalHeard, Activated
  <2> DEFINE value == IF missing THEN "none" ELSE goal
  <2>5. /\ SetGoal(value, Done("goal")) /\ (nativeGoal = "active" => value = "active")
        /\ value = goal \/ value = nativeGoal
    BY <2>1, <2>2, <2>3, <2>4
  <2>6. Replied("goal")
    BY <2>1 DEF Replied
  <2> HIDE DEF value
  <2> QED
    BY <1>4, <2>1, <2>5, <2>6
<1>7. CASE RunFinished
  <2> DEFINE value == IF calls["finish"].reply = "ok" THEN Said(calls["finish"]) ELSE goal
  <2>1. Replied("finish") /\ UNCHANGED nativeGoal /\ SetGoal(value, Done("finish"))
    BY <1>7 DEF RunFinished, native, Replied
  <2>2. ~Activated
    BY <1>a, <2>1 DEF CallsOK, Replied, Activated
  <2>3. nativeGoal = "active" => value = "active"
    BY <2>2 DEF GoalHeard, Said
  <2>4. value = goal \/ value = nativeGoal
    BY DEF GoalHeard, Said
  <2> HIDE DEF value
  <2> QED
    BY <1>4, <2>1, <2>3, <2>4
<1>8. ASSUME NEW value, SetGoal(value, calls), nativeGoal' = value, value # goal,
             nativeGoal # goal \/ run # 0
      PROVE  GoalHeard'
  <2>1. \A k \in {"goal", "finish"} :
          /\ calls'[k].at = calls[k].at /\ calls'[k].turn = calls[k].turn
          /\ calls'[k].reply = calls[k].reply /\ ~calls'[k].fresh
    BY <1>8, <1>a, GoalShape, GoalFresh
  <2>2. goal' = value
    BY <1>8 DEF SetGoal
  <2>3. ~(calls["goal"].turn # 0 /\ calls["goal"].at = "set" /\ calls["goal"].reply = "waiting")
    BY <1>8 DEF GoalHeard, StartsIdle, Starting, Activated, Working
  <2>4. calls["goal"].turn # 0 => calls["goal"].at \in {"get", "set"}
    BY DEF GoalHeard
  <2> QED
    BY <1>8, <2>1, <2>2, <2>3, <2>4 DEF GoalHeard, Activated
<1>9. CASE TellGoal
  BY <1>8, <1>9 DEF TellGoal, native
<1>10. CASE \E value \in {"none", "paused"} : GoalEnds(value)
  <2>1. PICK value \in {"none", "paused"} :
           run # 0 /\ nativeGoal = "active" /\ nativeGoal' = value /\ SetGoal(value, calls)
    BY <1>10 DEF GoalEnds
  <2>2. CASE value = goal
    <3>1. UNCHANGED <<goal, calls>> /\ nativeGoal' = goal
      BY <2>1, <2>2 DEF SetGoal
    <3>2. Activated /\ calls["finish"].reply # "ok"
      BY <2>1, <2>2, <1>a DEF GoalHeard, CallsOK, Replied, Activated
    <3> QED
      BY <2>1, <2>2, <3>1, <3>2 DEF GoalHeard, Activated
  <2> QED
    BY <1>8, <2>1, <2>2
<1>11. CASE \E status \in Statuses : RunEnds(status)
  <2>0. PICK status \in Statuses : RunEnds(status)
    BY <1>11
  <2>1. goal' = goal /\ run # 0 /\ calls["finish"] = NoCall
    BY <2>0 DEF RunEnds
  <2>4. nativeGoal' = nativeGoal \/ (nativeGoal' = "paused" /\ nativeGoal = "active")
    BY <2>0 DEF RunEnds
  <2>5. calls' = calls \/ calls' = Await("finish", "get", turn, 0)
    BY <2>0 DEF RunEnds
  <2>2. calls'["goal"] = calls["goal"] /\ calls'["finish"].reply # "ok"
    BY <2>1, <2>5, <1>a, CallShape
  <2>3. calls["goal"].turn # 0 => Activated
    BY <2>1 DEF StartsIdle, Starting, Working
  <2> QED
    BY <2>1, <2>2, <2>3, <2>4 DEF GoalHeard, Activated
<1>12. CASE AnswerSet("goal")
  <2>1. /\ calls["goal"].at = "set" /\ calls["goal"].reply = "waiting" /\ Quiet /\ UNCHANGED goal
        /\ \/ calls' = Answer("goal", "ok", "active") /\ nativeGoal' = "active"
           \/ calls' = Answer("goal", "error", "none") /\ nativeGoal' = nativeGoal /\ nativeGoal = "none"
    BY <1>12 DEF AnswerSet, Due
  <2>2. calls'["finish"] = calls["finish"] /\ calls["finish"].reply # "ok"
    BY <2>1, <1>a, CallShape DEF Quiet
  <2>3. calls'["goal"].at = "set" /\ (calls'["goal"].fresh <=> calls["goal"].fresh) /\ calls["goal"].turn # 0
    BY <2>1, <1>a, CallShape
  <2>4. \/ calls'["goal"].reply = "ok" /\ calls'["goal"].said = "active" /\ nativeGoal' = "active"
        \/ calls'["goal"].reply = "error" /\ nativeGoal' = "none"
    BY <2>1, <1>a, CallShape
  <2>5. calls["goal"].fresh
    BY <2>1, <2>3 DEF GoalHeard
  <2> QED
    BY <2>1, <2>2, <2>3, <2>4, <2>5 DEF GoalHeard, Activated
<1>13. ASSUME NEW k \in {"goal", "finish"}, NEW ok \in BOOLEAN, AnswerGet(k, ok)
       PROVE  GoalHeard'
  <2>1. /\ calls[k].at = "get" /\ calls[k].reply = "waiting" /\ Quiet /\ UNCHANGED <<goal, nativeGoal>>
        /\ \/ calls' = Answer(k, "ok", nativeGoal)
           \/ calls' = Answer(k, "error", "none")
    BY <1>13 DEF AnswerGet, Due, native
  <2>2. \A l \in {"goal", "finish"} : l # k => calls'[l] = calls[l]
    BY <2>1, <1>a, CallShape
  <2>3. /\ calls'[k].at = "get" /\ (calls'[k].fresh <=> calls[k].fresh) /\ calls'[k].turn = calls[k].turn
        /\ (calls'[k].reply = "ok" /\ calls'[k].said = nativeGoal) \/ calls'[k].reply = "error"
    BY <2>1, <1>a, CallShape
  <2>4. ~Activated
    BY <2>1, <1>a DEF Quiet, Activated
  <2>5. CASE k = "goal"
    BY <2>1, <2>2, <2>3, <2>4, <2>5 DEF GoalHeard, Activated
  <2>6. CASE k = "finish"
    BY <2>1, <2>2, <2>3, <2>4, <2>6 DEF GoalHeard, Activated
  <2> QED
    BY <2>5, <2>6
<1>14. CASE \/ \E t \in Turn : Busy(t)
            \/ Settle \/ InvocationEnds \/ PollFires \/ ReadEnds \/ Announce \/ ContinueGoal \/ Spawn
            \/ \E told \in BOOLEAN : ChildEnds(told)
            \/ UNCHANGED vars
  BY <1>14, <1>b DEF Busy, Settle, InvocationEnds, PollFires, ReadEnds, ReadAnswered, Announce, ContinueGoal,
     Spawn, ChildEnds, vars, engine, native
<1> QED
  BY <1>1, <1>2, <1>3, <1>5, <1>6, <1>7, <1>9, <1>10, <1>11, <1>12, <1>13, <1>14 DEF Calm

\* A step that changes nothing of what Follows speaks of.
LEMMA FollowsSame ==
    ASSUME Follows, UNCHANGED <<turn, cur, serves, run, announced>>,
           Working' => Working, nativeGoal = "active" => nativeGoal' = "active",
           cur.childCompletion => goal' # "active",
           owner'.turn = owner.turn \/ ~Starting',
           Starting' => Starting, Begun' <=> Begun, calls'["send"].run = calls["send"].run \/ ~Begun,
           calls'["finish"].turn \in {calls["finish"].turn, 0}, calls'["goal"].turn \in {calls["goal"].turn, 0}
    PROVE  Follows'
<1>1. turn # 0 => (Waits' => Waits)
  BY DEF Waits
<1>2. Begun => turn # 0
  BY DEF Begun
<1>3. StartsIdle'
  BY <1>1 DEF Follows, StartsIdle
<1>4. WorksForTurn'
  BY DEF Follows, WorksForTurn
<1>5. RunHeard'
  BY <1>1, <1>2 DEF Follows, RunHeard
<1>6. WaitsForRun'
  BY DEF Follows, WaitsForRun
<1> QED
  BY <1>3, <1>4, <1>5, <1>6 DEF Follows

\* The native side is idle, and nothing is started.
LEMMA FollowsIdle ==
    ASSUME ~Working', ~announced', ~Starting', ~Begun',
           cur'.childCompletion => goal' # "active",
           cur'.native # 0 => ~cur'.waiting,
           \/ calls'["goal"].turn = 0
           \/ turn' # calls'["goal"].turn
           \/ ~cur'.waiting /\ ~cur'.childCompletion
    PROVE  Follows'
  BY DEF Follows, StartsIdle, WorksForTurn, RunHeard, WaitsForRun, Working

\* The turn is finished, or is kept for its children, when its goal starts no further run.
LEMMA FollowsFinish ==
    ASSUME Typed, Reports, NEW status \in Statuses, NEW t \in Turn, turn = t, FinishTurn(owner, t, status),
           ~Working', ~announced', ~Starting', ~Begun, goal' # "active" \/ status # "completed",
           calls'["send"].turn \in {calls["send"].turn, 0},
           calls'["send"].run = calls["send"].run \/ calls'["send"].turn = 0,
           cur.native # 0 => ~cur.waiting,
           calls'["goal"].turn = 0 \/ calls'["goal"].turn # t
    PROVE  Follows'
<1>1. CASE turn' = 0 /\ cur' = NewTurn
  <2>1. ~NewTurn.childCompletion /\ NewTurn.native = 0 /\ ~NewTurn.waiting
    BY DEF NewTurn
  <2>2. ~Begun'
    BY <1>1 DEF Begun
  <2> QED
    BY <1>1, <2>1, <2>2, FollowsIdle
<1>2. CASE status = "completed" /\ turn' = turn /\ cur' = [cur EXCEPT !.childCompletion = TRUE]
  <2>1. cur'.native = cur.native /\ (cur'.seen <=> cur.seen) /\ (cur'.waiting <=> cur.waiting)
    BY <1>2 DEF Typed, TurnTyped, CurSet
  <2>2. ~Begun'
    BY <1>2, <2>1 DEF Begun
  <2> QED
    BY <1>2, <2>1, <2>2, FollowsIdle
<1> QED
  BY <1>1, <1>2, FinishShape DEF Typed

LEMMA FollowsStep ==
    ASSUME CodexAssumption, Typed, Reports, Order, ProcOK, TurnOK, CallsOK, proc = "up",
           NoControls, GoalHeard, Follows, Calm
    PROVE  Follows'
<1>a. /\ calls \in CallMaps /\ \A k \in {"send", "goal", "finish", "control"} : k \in Tasks
      /\ NoCall.turn = 0 /\ NoCall.reply = "none" /\ NoCall.at = "none" /\ NoCall.run = 0
      /\ \A k \in Tasks : Done(k) \in CallMaps
      /\ \A k \in Tasks : k # "control" => (calls[k].reply # "none" => calls[k].turn \in Turn)
      /\ 0 \notin Turn /\ turn \in Turn \union {0} /\ cur \in CurSet /\ cur.last \in Statuses
      /\ "completed" \in Statuses
  BY Blank, CallWrites, CurWrites, TurnsTyped DEF Typed, RestTyped, TurnTyped, Tasks, NoCall, Statuses
<1>b. /\ run \in Nat /\ runs \in Nat
      /\ run = 0 => ~announced
  BY DEF Typed, NativeTyped, Run, CodexAssumption, ProcOK
<1>c. cur.childCompletion => goal # "active" /\ turn # 0
  BY DEF Follows, WaitsForRun, TurnOK
\* The steps that leave the turn, the native side and the goal alone.
<1>d. ASSUME UNCHANGED <<turn, cur, goal, serves, run, announced, nativeGoal>>,
             owner'.turn = owner.turn \/ ~Starting',
             Starting' => Starting, Begun' <=> Begun, calls'["send"].run = calls["send"].run \/ ~Begun,
             calls'["finish"].turn \in {calls["finish"].turn, 0}, calls'["goal"].turn \in {calls["goal"].turn, 0}
      PROVE  Follows'
  <2>1. Working' <=> Working
    BY <1>d DEF Working
  <2> QED
    BY <1>c, <1>d, <2>1, FollowsSame
<1>e. ASSUME UNCHANGED <<turn, cur, goal, serves, run, announced, nativeGoal, calls>>,
             owner'.turn = owner.turn \/ ~Starting
      PROVE  Follows'
  <2>1. (Starting' <=> Starting) /\ (Begun' <=> Begun)
    BY <1>e DEF Starting, Begun, Activated
  <2> QED
    BY <1>d, <1>e, <2>1
\* What a start or a goal that is under way excludes.
<1>f. /\ calls["goal"].turn # 0 => calls["send"].turn = 0 /\ turn \in {0, calls["goal"].turn}
      /\ calls["send"].turn # 0 => calls["goal"].turn = 0 /\ turn \in {0, calls["send"].turn}
  BY DEF Order
<1>1. CASE Begins
  <2>1. PICK t \in Turn : MayInvoke(t) /\ (Send(t) \/ ResumeGoal(t))
    BY <1>1 DEF Begins, Send, ResumeGoal
  <2>2. /\ turn = 0 /\ owner.turn = 0 /\ answered[t] = "none"
        /\ turn' = t /\ cur' = NewTurn /\ owner'.turn = t /\ UNCHANGED <<goal, serves, run, announced, nativeGoal>>
    BY <2>1 DEF Send, ResumeGoal, MayInvoke, NoOwner, native
  <2>3. calls["finish"].turn # t
    BY <2>2, <1>a DEF Order, Known
  <2>4. calls["send"].turn = 0 /\ calls["goal"].turn = 0 /\ ~Working
    BY <2>2 DEF Order, Follows, WorksForTurn
  <2>5. calls'["finish"] = calls["finish"]
    BY <2>1, <1>a, CallShape DEF Send, ResumeGoal
  <2>6. \/ calls'["send"].run = 0 /\ calls'["goal"].turn = 0
        \/ calls'["send"].turn = 0
    BY <2>1, <2>4, <1>a, CallShape DEF Send, ResumeGoal
  <2>7. ~Begun'
    BY <2>2, <2>6, <1>a DEF Begun
  <2>8. ~NewTurn.seen /\ ~NewTurn.waiting /\ ~NewTurn.childCompletion /\ NewTurn.native = 0
    BY DEF NewTurn
  <2>9. ~Working' /\ ~announced'
    BY <2>2, <2>4, <1>b DEF Working
  <2>10. ~Waits' /\ turn' # 0
    BY <2>2, <2>3, <2>5, <2>8, <1>a DEF Waits
  <2> QED
    BY <2>2, <2>7, <2>8, <2>9, <2>10 DEF Follows, StartsIdle, WorksForTurn, RunHeard, WaitsForRun, Working
<1>2. CASE SendAnswered
  <2>1. /\ Replied("send") /\ calls' = Done("send")
        /\ UNCHANGED <<turn, goal, serves, run, announced, nativeGoal>>
    BY <1>2 DEF SendAnswered, Replied, native
  <2>2. calls["send"].turn # 0 /\ calls["goal"].turn = 0 /\ turn \in {0, calls["send"].turn}
    BY <2>1, <1>a, <1>f DEF Replied
  <2>3. calls'["send"] = NoCall /\ calls'["goal"] = calls["goal"] /\ calls'["finish"] = calls["finish"]
    BY <2>1, <1>a, CallShape
  <2>4. ~Starting' /\ ~Begun'
    BY <2>2, <2>3, <1>a, <2>1 DEF Starting, Begun
  <2>5. CASE Begun /\ cur' = [cur EXCEPT !.native = calls["send"].run]
    <3>1. /\ cur'.native = calls["send"].run /\ (cur'.seen <=> cur.seen) /\ (cur'.waiting <=> cur.waiting)
          /\ (cur'.childCompletion <=> cur.childCompletion)
      BY <2>5, <1>a DEF CurSet
    <3>2. run = calls["send"].run /\ ~announced /\ ~cur.waiting /\ ~cur.childCompletion /\ run # 0
      BY <2>5 DEF Follows, RunHeard, Waits, Begun
    <3> QED
      BY <2>1, <2>4, <3>1, <3>2 DEF Follows, StartsIdle, WorksForTurn, RunHeard, WaitsForRun, Working
  <2>6. CASE ~Begun /\ cur' = cur
    BY <1>d, <2>1, <2>2, <2>3, <2>4, <2>6, <1>a
  <2>7. CASE calls["send"].run = 0
    <3>1. Starting
      BY <2>2, <2>7 DEF Starting
    <3>2. ~Working /\ cur.native = 0 /\ ~Waits
      BY <3>1 DEF Follows, StartsIdle
    <3>3. cur'.native = 0 /\ (cur'.waiting <=> cur.waiting) /\ (cur'.childCompletion <=> cur.childCompletion)
      <4>1. cur' = cur \/ cur' = [cur EXCEPT !.native = 0]
        BY <1>2, <2>7 DEF SendAnswered
      <4> QED
        BY <4>1, <3>2, <1>a DEF CurSet
    <3>4. ~Working' /\ ~announced'
      BY <3>2, <2>1, <1>b DEF Working
    <3> QED
      BY <2>1, <2>4, <3>2, <3>3, <3>4, FollowsIdle DEF Waits
  <2>8. \/ Begun /\ cur' = [cur EXCEPT !.native = calls["send"].run]
        \/ ~Begun /\ cur' = cur
        \/ calls["send"].run = 0
    BY <1>2, <2>2, <1>a DEF SendAnswered, Begun, CallsOK
  <2> QED
    BY <2>5, <2>6, <2>7, <2>8
<1>3. CASE GoalRead
  <2>1. /\ UNCHANGED <<turn, cur, serves, run, announced, nativeGoal, owner>>
        /\ calls["goal"].at = "get" /\ calls["goal"].reply = "ok"
    BY <1>3 DEF GoalRead, native
  <2>2. calls["goal"].turn # 0 /\ Starting
    BY <2>1, <1>a DEF Starting, Activated
  <2>3. /\ calls'["goal"].turn = calls["goal"].turn
        /\ calls'["finish"].turn = calls["finish"].turn /\ calls'["send"].turn = calls["send"].turn
    <3> DEFINE r == Await("goal", "set", calls["goal"].turn, 0)["goal"]
    <3>1. /\ r.turn = calls["goal"].turn
          /\ calls' = [calls EXCEPT !["goal"] = r] \/ calls' = [Stale(calls) EXCEPT !["goal"] = r]
      BY <1>3, <1>a, CallShape DEF GoalRead
    <3> HIDE DEF r
    <3>2. calls'["goal"] = r
      BY <3>1, <1>a, CallWrites DEF CallMaps
    <3>3. calls'["finish"] = calls["finish"] \/ calls'["finish"] = Stale(calls)["finish"]
      BY <3>1, <1>a, CallWrites DEF CallMaps
    <3>4. calls'["send"] = calls["send"] \/ calls'["send"] = Stale(calls)["send"]
      BY <3>1, <1>a, CallWrites DEF CallMaps
    <3> QED
      BY <3>1, <3>2, <3>3, <3>4, <1>a, StaleShape
  <2>4. calls["send"].turn = 0 /\ ~Begun' /\ ~Begun /\ (Working' <=> Working)
    BY <1>f, <2>1, <2>2, <2>3 DEF Begun, Working
  <2>5. ~cur.childCompletion
    BY <2>2 DEF Follows, StartsIdle, Waits
  <2> QED
    BY <2>1, <2>2, <2>3, <2>4, <2>5, FollowsSame
<1>4. CASE GoalActivated
  <2> DEFINE value == Said(calls["goal"])
  <2>1. /\ calls["goal"].at = "set" /\ calls["goal"].reply = "ok" /\ calls["goal"].turn \in Turn
        /\ UNCHANGED <<serves, run, announced, nativeGoal>> /\ goal' = value
        /\ SetGoal(value, Joined(Done("goal"), "ok")) /\ ContinueOrFinish(calls["goal"].turn, value)
    BY <1>4, <1>a DEF GoalActivated, native, SetGoal
  <2>2. calls["send"].turn = 0 /\ turn \in {0, calls["goal"].turn} /\ Replied("goal") /\ calls["finish"].reply # "ok"
    BY <2>1, <1>a, <1>f DEF CallsOK, Replied
  <2>3. /\ calls'["send"].turn = calls["send"].turn /\ calls'["send"].run = calls["send"].run
        /\ calls'["finish"].turn = calls["finish"].turn /\ calls'["goal"].turn = 0
    <3>1. Joined(Done("goal"), "ok") = Done("goal")
      BY <1>a, CallShape DEF NoControls
    <3>2. \A k \in Tasks : calls'[k].turn = Done("goal")[k].turn /\ calls'[k].run = Done("goal")[k].run
      BY <2>1, <3>1, <1>a, GoalShape
    <3> QED
      BY <3>2, <1>a, CallShape
  <2>4. ~Starting' /\ ~Begun /\ (turn' = turn => ~Begun') /\ (Working' <=> Working)
    BY <2>1, <2>2, <2>3 DEF Starting, Begun, Working
  <2>5. (turn # 0 => ~cur.waiting) /\ ~cur.childCompletion
    BY <2>1, <2>2, <1>a, <1>c DEF Follows, WaitsForRun
  <2>6. ~GoalReleases(value)
    BY <2>5 DEF GoalReleases
  <2>7. CASE Unfinished(owner)
    BY <2>1, <2>3, <2>4, <2>5, <2>7, FollowsSame DEF Unfinished
  <2>8. CASE turn = calls["goal"].turn /\ cur.native = 0 /\ value = "active"
             /\ UNCHANGED turn /\ cur' = [cur EXCEPT !.waiting = TRUE, !.timer = TRUE]
    <3>1. cur'.native = 0 /\ (cur'.seen <=> cur.seen) /\ ~cur'.childCompletion
      BY <2>5, <2>8, <1>a DEF CurSet
    <3>2. turn # 0 /\ (announced => cur.native = run /\ run # 0) /\ (run # 0 => nativeGoal = "active")
      BY <2>1, <2>4, <2>8, <1>a, <1>b DEF Follows, RunHeard
    <3> QED
      BY <2>1, <2>3, <2>4, <2>8, <3>1, <3>2 DEF Follows, StartsIdle, WorksForTurn, RunHeard, WaitsForRun, Begun
  \* A goal that is paused again by the time it is heard: there is no run to follow.
  <2>9. CASE turn = calls["goal"].turn /\ cur.native = 0 /\ value # "active"
             /\ FinishTurn(owner, calls["goal"].turn, "completed")
    <3>1. ~calls["goal"].fresh /\ goal # "active"
      BY <2>1, <2>9 DEF GoalHeard, Activated, Said
    <3>2. ~Working
      BY <2>4, <2>9, <3>1 DEF GoalHeard, Follows, RunHeard, Working
    <3>3. ~announced'
      BY <2>1, <3>2, <1>b DEF Working
    <3> QED
      BY <2>1, <2>2, <2>3, <2>4, <2>9, <3>2, <3>3, <1>a, FollowsFinish
  <2> QED
    BY <2>1, <2>2, <2>6, <2>7, <2>8, <2>9 DEF ContinueOrFinish
<1>5. CASE GoalNotResumed
  <2>1. /\ Replied("goal") /\ ~Activated /\ calls["goal"].turn # 0
        /\ UNCHANGED <<serves, run, announced, nativeGoal>>
        /\ \/ turn = calls["goal"].turn /\ turn' = 0 /\ cur' = NewTurn
           \/ turn # calls["goal"].turn
    BY <1>5, <1>a DEF GoalNotResumed, native, Replied, Activated
  <2>2. Starting /\ calls["send"].turn = 0
    BY <2>1, <1>f DEF Starting
  <2>3. ~Working /\ turn = calls["goal"].turn
    BY <2>1, <2>2, <1>f DEF Follows, StartsIdle
  <2>4. calls'["send"].turn = 0 /\ calls'["goal"].turn = 0
    <3>1. \E value : SetGoal(value, Joined(Done("goal"), "error"))
      BY <1>5 DEF GoalNotResumed
    <3>2. Joined(Done("goal"), "error") = Done("goal")
      BY <1>a, CallShape DEF NoControls
    <3>3. \A k \in Tasks : calls'[k].turn = Done("goal")[k].turn
      BY <3>1, <3>2, <1>a, GoalShape
    <3> QED
      BY <2>2, <3>3, <1>a, CallShape
  <2>5. ~Working' /\ ~announced' /\ ~Starting' /\ ~Begun'
    BY <2>1, <2>3, <2>4, <1>b DEF Working, Starting, Begun
  <2>6. ~NewTurn.waiting /\ ~NewTurn.childCompletion /\ NewTurn.native = 0
    BY DEF NewTurn
  <2> QED
    BY <2>1, <2>3, <2>5, <2>6, FollowsIdle
<1>6. CASE RunFinished
  <2> DEFINE value == IF calls["finish"].reply = "ok" THEN Said(calls["finish"]) ELSE goal
             t == calls["finish"].turn
  <2>1. /\ Replied("finish") /\ t \in Turn /\ UNCHANGED <<serves, run, announced, nativeGoal>>
        /\ goal' = value /\ SetGoal(value, Done("finish")) /\ ContinueOrFinish(t, value)
    BY <1>6, <1>a DEF RunFinished, native, Replied, SetGoal
  <2>2. ~Activated /\ (calls["goal"].turn # 0 => Starting)
    BY <2>1, <1>a DEF CallsOK, Replied, Activated, Starting
  <2>3. /\ calls'["send"].turn = calls["send"].turn /\ calls'["send"].run = calls["send"].run
        /\ calls'["finish"].turn = 0
        /\ calls'["goal"].turn = calls["goal"].turn
        /\ calls'["goal"].at = calls["goal"].at /\ calls'["goal"].reply = calls["goal"].reply
    <3>1. \A k \in Tasks : /\ calls'[k].turn = Done("finish")[k].turn /\ calls'[k].run = Done("finish")[k].run
                          /\ calls'[k].at = Done("finish")[k].at /\ calls'[k].reply = Done("finish")[k].reply
      BY <2>1, <1>a, GoalShape
    <3> QED
      BY <3>1, <1>a, CallShape
  <2>4. /\ (Starting' <=> Starting) /\ (Working' <=> Working)
        /\ (turn' = turn /\ (cur'.seen <=> cur.seen) => (Begun' <=> Begun))
    BY <2>1, <2>3 DEF Starting, Activated, Begun, Working
  \* The answer tells the goal as it is, unless a change of it was told in between.
  <2>5. value = goal \/ value = nativeGoal
    BY DEF GoalHeard, Said
  <2>6. nativeGoal = "active" => value = "active"
    BY <2>2 DEF GoalHeard, Said
  <2>7. cur.childCompletion => value # "active"
    BY <2>5, <1>c DEF Follows, WorksForTurn, Working
  <2>8. ASSUME Waits, turn # 0, cur.native = 0, value # "active"
        PROVE  ~Working /\ ~announced' /\ ~Starting /\ ~Begun
    BY <2>1, <2>6, <2>8, <1>b DEF Follows, StartsIdle, RunHeard, Working
  <2>9. ASSUME Waits, turn # 0, value # "active", cur.native = 0, NEW status \in Statuses,
               FinishTurn(owner, turn, status)
        PROVE  Follows'
    <3>1. ~Working' /\ ~announced' /\ ~Starting' /\ ~Begun
      BY <2>4, <2>8, <2>9
    <3>2. calls'["goal"].turn = 0
      BY <2>2, <2>3, <2>8, <2>9
    <3>3. turn \in Turn
      BY <2>9, <1>a
    <3>4. \A u \in Turn : turn = u /\ FinishTurn(owner, u, status) => Follows'
      BY <2>1, <2>3, <2>9, <3>1, <3>2, FollowsFinish
    <3> QED
      BY <2>9, <3>3, <3>4
  <2>10. CASE GoalReleases(value)
    <3>1. turn # 0 /\ cur.waiting /\ value # "active" /\ FinishTurn(owner, turn, cur.last)
      BY <2>1, <2>10 DEF GoalReleases, ContinueOrFinish
    <3>2. cur.native = 0 /\ Waits
      BY <3>1 DEF Follows, WaitsForRun, Waits
    <3> QED
      BY <2>9, <3>1, <3>2, <1>a
  <2>11. CASE Unfinished(owner)
    BY <2>1, <2>3, <2>4, <2>7, <2>11, FollowsSame DEF Unfinished
  <2>12. CASE turn = t /\ cur.native = 0 /\ value # "active" /\ FinishTurn(owner, t, "completed")
    BY <2>1, <2>9, <2>12, <1>a DEF Waits
  <2>13. CASE turn = t /\ cur.native = 0 /\ value = "active"
             /\ UNCHANGED turn /\ cur' = [cur EXCEPT !.waiting = TRUE, !.timer = TRUE]
    <3>1. cur'.native = 0 /\ (cur'.seen <=> cur.seen) /\ (cur'.childCompletion <=> cur.childCompletion)
      BY <2>13, <1>a DEF CurSet
    <3>2. turn # 0 /\ Waits
      BY <2>1, <2>13, <1>a DEF Waits
    <3>3. ~Starting /\ ~Begun /\ (announced => cur.native = run /\ run # 0) /\ (run # 0 => nativeGoal = "active")
      BY <2>13, <3>2, <1>b DEF Follows, StartsIdle, RunHeard
    <3>4. ~cur.childCompletion /\ calls'["goal"].turn = 0
      BY <2>2, <2>3, <2>7, <2>13, <3>3
    <3> QED
      BY <2>1, <2>3, <2>4, <2>13, <3>1, <3>2, <3>3, <3>4
      DEF Follows, StartsIdle, WorksForTurn, RunHeard, WaitsForRun
  <2> QED
    BY <2>1, <2>10, <2>11, <2>12, <2>13 DEF ContinueOrFinish
<1>7. CASE PollFires \/ ReadEnds
  <2>1. UNCHANGED <<goal, calls, serves, run, announced, nativeGoal>>
    BY <1>7 DEF PollFires, ReadEnds, ReadAnswered, native
  <2>2. CASE UNCHANGED <<turn, cur, owner>>
    BY <1>e, <2>1, <2>2
  <2>3. CASE turn # 0 /\ cur.childCompletion /\ turn' = 0 /\ cur' = NewTurn
    <3>1. ~Working /\ ~Starting
      BY <2>3 DEF Follows, WorksForTurn, StartsIdle, Waits
    <3>2. ~Working' /\ ~announced' /\ ~Starting' /\ ~Begun'
      BY <2>1, <2>3, <3>1, <1>b DEF Working, Starting, Activated, Begun
    <3>3. ~NewTurn.waiting /\ ~NewTurn.childCompletion /\ NewTurn.native = 0
      BY DEF NewTurn
    <3> QED
      BY <2>3, <3>2, <3>3, FollowsIdle
  <2>4. ASSUME NEW armed, NEW childNow, NEW readNow, NEW awaits, Poll(armed, childNow, readNow, awaits)
        PROVE  Follows'
    <3>1. CASE UNCHANGED <<turn, owner>> /\ \E b \in BOOLEAN : cur' = [cur EXCEPT !.missed = b]
      <4>1. /\ cur'.native = cur.native /\ (cur'.seen <=> cur.seen) /\ (cur'.waiting <=> cur.waiting)
            /\ (cur'.childCompletion <=> cur.childCompletion)
        BY <1>a, <3>1, Noted
      <4>2. (Working' <=> Working) /\ (Starting' <=> Starting) /\ (Begun' <=> Begun) /\ (Waits' <=> Waits)
        BY <2>1, <3>1, <4>1 DEF Working, Starting, Begun, Activated, Waits
      <4> QED
        BY <2>1, <3>1, <4>1, <4>2 DEF Follows, StartsIdle, WorksForTurn, RunHeard, WaitsForRun
    <3> QED
      BY <1>a, <2>3, <2>4, <3>1, PollNotes
  <2> QED
    BY <1>7, <2>2, <2>4 DEF PollFires, ReadEnds, ReadAnswered
<1>8. CASE TakeStart
  <2>1. /\ UNCHANGED <<turn, cur, goal, owner, announced, nativeGoal>>
        /\ calls["send"].reply = "waiting" /\ calls["send"].run = 0 /\ run' # 0 /\ serves' = calls["send"].turn
        /\ calls' = [calls EXCEPT !["send"].run = run']
    BY <1>8, <1>b DEF TakeStart
  <2>2. calls["send"].turn # 0 /\ Starting /\ calls["goal"].turn = 0
    BY <2>1, <1>a, <1>f DEF Starting
  <2>3. /\ turn # 0 /\ turn = calls["send"].turn /\ cur.native = 0 /\ ~cur.seen
        /\ ~Waits /\ ~announced
    BY <2>2, <1>b, <1>f DEF Follows, StartsIdle, Working
  <2>4. /\ calls'["send"].turn = calls["send"].turn /\ calls'["send"].run = run'
        /\ calls'["goal"] = calls["goal"] /\ calls'["finish"] = calls["finish"]
    <3>1. \A r \in CallSet : \A n : [r EXCEPT !.run = n].turn = r.turn /\ [r EXCEPT !.run = n].run = n
      BY DEF CallSet
    <3>2. calls' = [calls EXCEPT !["send"] = [calls["send"] EXCEPT !.run = run']]
      BY <2>1
    <3> QED
      BY <3>1, <3>2, <1>a DEF CallMaps
  <2>5. ~Starting' /\ Begun' /\ ~Waits'
    BY <2>1, <2>2, <2>3, <2>4 DEF Starting, Begun, Waits
  <2> QED
    BY <2>1, <2>2, <2>3, <2>4, <2>5 DEF Follows, StartsIdle, WorksForTurn, RunHeard, WaitsForRun, Waits
<1>9. CASE \/ AnswerStart
           \/ \E k \in {"goal", "finish"}, ok \in BOOLEAN : AnswerGet(k, ok)
  <2>1. UNCHANGED <<turn, cur, goal, serves, run, announced, nativeGoal, owner>>
    BY <1>9 DEF AnswerStart, AnswerGet, native
  <2>2. PICK k \in {"send", "goal", "finish"} :
          /\ k = "goal" => calls["goal"].at = "get"
          /\ \E how, said : calls' = Answer(k, how, said)
    BY <1>9 DEF AnswerStart, AnswerGet, Due
  <2>3. \A l \in Tasks : /\ calls'[l].turn = calls[l].turn /\ calls'[l].run = calls[l].run
                        /\ calls'[l].at = calls[l].at /\ (l # k => calls'[l].reply = calls[l].reply)
    BY <2>2, <1>a, CallShape
  <2>4. (Starting' <=> Starting) /\ (Begun' <=> Begun)
    BY <2>1, <2>2, <2>3, <1>a DEF Starting, Activated, Begun
  <2> QED
    BY <1>d, <2>1, <2>3, <2>4, <1>a
<1>10. CASE Announce
  <2>1. /\ UNCHANGED <<turn, goal, calls, serves, run, nativeGoal, owner>> /\ run # 0
        /\ cur' = IF turn = 0 THEN cur
                  ELSE [cur EXCEPT !.native = run, !.seen = TRUE, !.waiting = FALSE, !.timer = FALSE]
    BY <1>10 DEF Announce
  <2>2. turn # 0 /\ turn = serves /\ ~cur.childCompletion /\ ~Starting
    BY <2>1 DEF Follows, StartsIdle, WorksForTurn, Working
  <2>3. cur'.native = run /\ cur'.seen /\ ~cur'.waiting /\ ~cur'.childCompletion
    BY <2>1, <2>2, <1>a DEF CurSet
  <2>4. ~Starting' /\ ~Begun'
    BY <2>1, <2>2, <2>3 DEF Starting, Activated, Begun
  <2> QED
    BY <2>1, <2>2, <2>3, <2>4 DEF Follows, StartsIdle, WorksForTurn, RunHeard, WaitsForRun
<1>11. CASE ContinueGoal
  <2>1. /\ UNCHANGED <<turn, cur, goal, calls, child, serves, announced, nativeGoal, owner>>
        /\ nativeGoal = "active" /\ run = 0 /\ run' # 0
    BY <1>11, <1>b DEF ContinueGoal, engine
  <2>2. ~Starting /\ ~Begun /\ ~announced /\ Working
    BY <2>1, <1>b DEF Follows, StartsIdle, RunHeard, Working, Begun
  <2>3. ~Starting' /\ ~Begun' /\ ~announced'
    BY <2>1, <2>2 DEF Starting, Activated, Begun
  <2> QED
    BY <2>1, <2>2, <2>3 DEF Follows, StartsIdle, WorksForTurn, RunHeard, WaitsForRun
<1>12. ASSUME NEW value, SetGoal(value, calls)
       PROVE  /\ goal' = value
              /\ \A k \in Tasks : /\ calls'[k].turn = calls[k].turn /\ calls'[k].run = calls[k].run
                                 /\ calls'[k].at = calls[k].at /\ calls'[k].reply = calls[k].reply
              /\ Starting' <=> Starting
              /\ turn' = turn /\ (cur'.seen <=> cur.seen) => (Begun' <=> Begun)
  <2>1. \A k \in Tasks : /\ calls'[k].turn = calls[k].turn /\ calls'[k].run = calls[k].run
                        /\ calls'[k].at = calls[k].at /\ calls'[k].reply = calls[k].reply
    BY <1>12, <1>a, GoalShape
  <2> QED
    BY <1>12, <1>a, <2>1 DEF SetGoal, Starting, Activated, Begun
<1>13. CASE TellGoal
  <2>1. /\ UNCHANGED <<serves, run, announced, nativeGoal>> /\ SetGoal(nativeGoal, calls)
        /\ IF GoalReleases(nativeGoal) THEN FinishTurn(owner, turn, cur.last) ELSE Unfinished(owner)
    BY <1>13 DEF TellGoal, native
  <2>2. Working' <=> Working
    BY <2>1 DEF Working
  <2>3. CASE ~GoalReleases(nativeGoal)
    <3>1. UNCHANGED <<turn, cur, owner>> /\ (cur.childCompletion => nativeGoal # "active")
      BY <2>1, <2>3 DEF Unfinished, Follows, WorksForTurn, Working
    <3> QED
      BY <2>1, <2>2, <3>1, <1>a, <1>12, FollowsSame
  <2>4. CASE GoalReleases(nativeGoal)
    <3>1. turn \in Turn /\ cur.waiting /\ nativeGoal # "active" /\ FinishTurn(owner, turn, cur.last) /\ Waits
      BY <2>1, <2>4, <1>a DEF GoalReleases, Waits
    <3>2. cur.native = 0 /\ ~Starting /\ ~Begun /\ ~Working /\ ~announced
      BY <3>1, <1>b DEF Follows, StartsIdle, RunHeard, WaitsForRun, Working
    <3>3. calls["goal"].turn = 0 \/ calls["goal"].turn # turn
      BY <3>1 DEF Follows, WaitsForRun
    <3>4. ~Starting' /\ ~Working' /\ ~announced' /\ goal' # "active"
      BY <2>1, <2>2, <3>1, <3>2, <1>12
    <3>5. /\ calls'["send"].turn = calls["send"].turn /\ calls'["send"].run = calls["send"].run
          /\ calls'["goal"].turn = calls["goal"].turn
      BY <2>1, <1>a, <1>12
    <3>6. \A u \in Turn : turn = u /\ FinishTurn(owner, u, cur.last) => Follows'
      BY <3>2, <3>3, <3>4, <3>5, <1>a, FollowsFinish
    <3> QED
      BY <3>1, <3>6
  <2> QED
    BY <2>3, <2>4
<1>14. CASE \E value \in {"none", "paused"} : GoalEnds(value)
  <2>1. PICK value \in {"none", "paused"} :
          /\ run # 0 /\ announced /\ nativeGoal' = value /\ SetGoal(value, calls)
          /\ IF GoalReleases(value) THEN FinishTurn(owner, turn, cur.last) ELSE Unfinished(owner)
          /\ UNCHANGED <<run, announced, serves>>
    BY <1>14 DEF GoalEnds
  <2>2. /\ cur.native = run /\ cur.seen /\ ~cur.waiting /\ turn = serves /\ turn # 0 /\ ~cur.childCompletion
        /\ ~Starting /\ ~Begun
    BY <2>1 DEF Follows, StartsIdle, WorksForTurn, RunHeard, Working
  <2>3. UNCHANGED <<turn, cur, owner>>
    BY <2>1, <2>2 DEF GoalReleases, Unfinished
  <2>4. ~Starting' /\ ~Begun' /\ calls'["goal"].turn = calls["goal"].turn
    BY <2>1, <2>2, <2>3, <1>a, <1>12
  <2> QED
    BY <2>1, <2>2, <2>3, <2>4 DEF Follows, StartsIdle, WorksForTurn, RunHeard, WaitsForRun
<1>15. CASE \E status \in Statuses : RunEnds(status)
  <2>1. PICK status \in Statuses : RunEnds(status)
    BY <1>15
  <2>2. run # 0 /\ announced /\ run' = 0 /\ ~announced' /\ calls["finish"] = NoCall /\ UNCHANGED <<goal, serves>>
    BY <2>1 DEF RunEnds
  <2>3. /\ cur.native = run /\ cur.seen /\ ~cur.waiting /\ turn = serves /\ turn # 0 /\ ~cur.childCompletion
        /\ ~Starting /\ ~Begun
    BY <2>2 DEF Follows, StartsIdle, WorksForTurn, RunHeard, Working
  <2>4. CASE status # "completed"
    <3>1. nativeGoal' # "active" /\ FinishTurn(owner, turn, status) /\ UNCHANGED calls
      BY <2>1, <2>3, <2>4 DEF RunEnds
    <3>2. ~Working' /\ ~Starting' /\ calls["goal"].turn \in {0, turn} /\ turn \in Turn
      BY <2>2, <2>3, <3>1, <1>a, <1>f DEF Working, Starting, Activated
    <3>3. turn' = 0 /\ cur' = NewTurn
      BY <2>4, <3>1, <3>2, FinishShape DEF Typed
    <3>4. ~NewTurn.waiting /\ ~NewTurn.childCompletion /\ NewTurn.native = 0 /\ ~Begun'
      BY <3>3 DEF NewTurn, Begun
    <3> QED
      BY <2>2, <3>2, <3>3, <3>4, FollowsIdle
  <2>5. CASE status = "completed"
    <3>1. /\ UNCHANGED <<turn, nativeGoal, owner>> /\ cur' = [cur EXCEPT !.native = 0, !.last = status]
          /\ calls' = Await("finish", "get", turn, 0)
      BY <2>1, <2>3, <2>5 DEF RunEnds
    <3>2. cur'.native = 0 /\ cur'.seen /\ ~cur'.waiting /\ ~cur'.childCompletion
      BY <2>3, <3>1, <1>a DEF CurSet
    <3>3. calls'["send"] = calls["send"] /\ calls'["goal"] = calls["goal"]
      BY <3>1, <1>a, CallShape
    <3>4. ~Starting' /\ ~Begun'
      BY <2>3, <3>2, <3>3 DEF Starting, Activated, Begun
    <3> QED
      BY <2>2, <2>3, <3>1, <3>2, <3>4 DEF Follows, StartsIdle, WorksForTurn, RunHeard, WaitsForRun, Working
  <2> QED
    BY <2>4, <2>5
<1>16. CASE AnswerSet("goal")
  <2>1. /\ UNCHANGED <<turn, cur, goal, run, announced, owner>>
        /\ calls["goal"].at = "set" /\ calls["goal"].reply = "waiting" /\ calls["goal"].turn # 0
        /\ \/ calls' = Answer("goal", "ok", "active") /\ serves' = IF run = 0 THEN calls["goal"].turn ELSE serves
           \/ calls' = Answer("goal", "error", "none") /\ UNCHANGED <<nativeGoal, serves>>
    BY <1>16, <1>a DEF AnswerSet, Due
  <2>2. Starting /\ calls["send"].turn = 0
    BY <2>1, <1>f DEF Starting, Activated
  <2>3. ~Working /\ turn # 0 /\ turn = calls["goal"].turn /\ cur.native = 0 /\ ~Waits /\ run = 0
    BY <2>1, <2>2, <1>f DEF Follows, StartsIdle, Working
  <2>4. \A k \in Tasks : calls'[k].turn = calls[k].turn /\ calls'[k].run = calls[k].run
    BY <2>1, <1>a, CallShape
  <2>5. calls'["goal"].at = "set" /\ (calls' = Answer("goal", "ok", "active") => calls'["goal"].reply = "ok")
    BY <2>1, <1>a, CallShape
  <2>6. ~Begun' /\ ~announced'
    BY <2>1, <2>2, <2>3, <2>4, <1>a, <1>b DEF Begun
  <2>7. CASE calls' = Answer("goal", "ok", "active") /\ serves' = calls["goal"].turn
    <3>1. ~Starting'
      BY <2>2, <2>4, <2>5, <2>7, <1>a DEF Starting, Activated
    <3> QED
      BY <2>1, <2>3, <2>6, <2>7, <3>1 DEF Follows, StartsIdle, WorksForTurn, RunHeard, WaitsForRun, Waits
  <2>8. CASE UNCHANGED <<nativeGoal, serves>>
    BY <1>d, <2>1, <2>2, <2>3, <2>4, <2>6, <2>8, <1>a DEF Begun
  <2> QED
    BY <2>1, <2>3, <2>7, <2>8
<1>17. CASE \/ \E t \in Turn : Busy(t)
            \/ Settle \/ InvocationEnds \/ Spawn
            \/ \E told \in BOOLEAN : ChildEnds(told)
            \/ UNCHANGED vars
  <2>1. UNCHANGED <<turn, cur, goal, serves, run, announced, nativeGoal, calls>>
    BY <1>17 DEF Busy, Settle, InvocationEnds, Spawn, ChildEnds, vars, engine, native
  <2>2. CASE InvocationEnds
    BY <1>a, <1>e, <2>1, <2>2 DEF InvocationEnds, Starting
  <2>3. CASE Settle
    BY <1>e, <2>1, <2>3 DEF Settle, Typed, TurnTyped, Owners, OwnerSet
  <2> QED
    BY <1>17, <1>e, <2>1, <2>2, <2>3 DEF Busy, Spawn, ChildEnds, vars
<1> QED
  BY <1>1, <1>2, <1>3, <1>4, <1>5, <1>6, <1>7, <1>8, <1>9, <1>10, <1>11, <1>13, <1>14, <1>15, <1>16, <1>17
  DEF Calm

\* A turn is stopped while it is the current one, or that of the invocation under way.
LEMMA StopsGrow ==
    ASSUME Typed, [Next]_vars
    PROVE  \/ stopped' = stopped
           \/ /\ \E u \in {turn, owner.turn} : u # 0 /\ stopped' = stopped \union {u}
              /\ UNCHANGED native
<1>1. owner # NoOwner => owner.turn # 0
  BY DEF Typed, TurnTyped, Owners
<1>2. CASE Cancel \/ Pause \/ PausePersisted \/ WaitExpires
  BY <1>1, <1>2 DEF Cancel, Pause, PausePersisted, WaitExpires, MayControl
<1>3. CASE ~(Cancel \/ Pause \/ PausePersisted \/ WaitExpires)
  BY <1>3 DEF Next, Continue, SendAnswered, GoalRead, GoalActivated, GoalNotResumed, ChildrenInterrupted,
     PauseJoins, InterruptAnswered, PauseFails, RunFinished, WaitFails, Settle,
     InvocationEnds, Host, Busy, Send, ResumeGoal, WaitLimit, AnswerSet,
     PollFires, ReadEnds, ReadAnswered, vars, record, Native, TakeStart, AnswerStart, Announce,
     ContinueGoal, GoalEnds, TellGoal, RunEnds, AnswerGet, AnswerInterrupt, AnswerChildren, Spawn, ChildEnds, Exit
<1> QED
  BY <1>2, <1>3

LEMMA UnwatchedStep ==
    ASSUME CodexAssumption, Typed, Order, ProcOK, Tracked, [Next]_vars
    PROVE  Unwatched'
<1>a. /\ calls \in CallMaps /\ "send" \in Tasks /\ "goal" \in Tasks
      /\ \A k \in {"send", "goal"} : calls[k].reply # "none" => calls[k].turn # 0
      /\ stopped \subseteq Turn /\ owner.turn \in Turn \union {0} /\ Turn \subseteq Nat
  BY CallWrites, TurnsTyped DEF Typed, RestTyped, Tasks
<1> SUFFICES ASSUME proc' = "up", stopped' # {}, Working'
             PROVE  Unsettled(serves, stopped)'
  BY DEF Unwatched
<1>1. ASSUME stopped' = stopped, proc = "up", Working, serves' = serves
      PROVE  Unsettled(serves, stopped)'
  BY <1>1 DEF Tracked, Unwatched, Unsettled
\* The turn that begins to be served is not older than any that was stopped.
<1>2. ASSUME stopped' = stopped, serves' = owner.turn, owner.turn # 0
      PROVE  Unsettled(serves, stopped)'
  <2>1. PICK u \in stopped : u \in Turn
    BY <1>a, <1>2
  <2>2. answered[owner.turn] = "none" /\ owner.turn \in Turn
    BY <1>a, <1>2 DEF Order
  <2>3. ~(owner.turn < u)
    BY <2>1, <2>2 DEF Order, Known
  <2>5. u \in Nat /\ owner.turn \in Nat
    BY <1>a, <2>1, <2>2
  <2>4. u <= owner.turn
    BY <2>3, <2>5
  <2> QED
    BY <1>2, <2>1, <2>4 DEF Unsettled
<1>3. ASSUME NEW u \in {turn, owner.turn}, u # 0, stopped' = stopped \union {u}, UNCHANGED native
      PROVE  Unsettled(serves, stopped)'
  <2>1. Working /\ proc = "up" /\ serves' = serves
    BY <1>3 DEF Working, native
  <2>2. CASE stopped # {}
    BY <1>3, <2>1, <2>2 DEF Tracked, Unwatched, Unsettled
  <2>3. CASE stopped = {}
    <3>1. turn = serves /\ turn # 0
      BY <2>1, <2>3 DEF Tracked, Unstopped, Follows, WorksForTurn
    <3>2. u = serves
      BY <1>3, <3>1 DEF Order
    <3>3. serves \in Nat /\ serves' = serves /\ serves \in stopped'
      BY <1>3, <1>a, <2>1, <3>1, <3>2, TurnsTyped
    <3> QED
      BY <3>3 DEF Unsettled
  <2> QED
    BY <2>2, <2>3
<1>4. CASE stopped' = stopped
  <2>1. CASE TakeStart
    BY <1>2, <1>4, <1>a, <2>1 DEF TakeStart, Order
  <2>2. CASE AnswerSet("goal")
    <3>1. calls["goal"].turn = owner.turn /\ owner.turn # 0
      BY <1>a, <2>2 DEF AnswerSet, Due, Order
    <3>2. CASE serves' = owner.turn
      BY <1>2, <1>4, <3>1, <3>2
    <3>3. CASE run # 0
      BY <1>1, <1>4, <2>2, <3>3 DEF AnswerSet, Due, Working
    <3>4. CASE run = 0 /\ nativeGoal = "none"
      BY <1>1, <1>4, <2>2, <3>4 DEF AnswerSet, Due, Working
    <3> QED
      BY <2>2, <3>1, <3>2, <3>3, <3>4 DEF AnswerSet
  <2>3. CASE ~TakeStart /\ ~AnswerSet("goal")
    <3>1. proc = "up" /\ serves' = serves /\ (nativeGoal' = "active" => nativeGoal = "active")
          /\ (run' # 0 => run # 0 \/ nativeGoal = "active")
      BY <2>3 DEF Next, Continue, SendAnswered, GoalRead, GoalActivated, GoalNotResumed, ChildrenInterrupted,
         PauseJoins, PausePersisted, InterruptAnswered, PauseFails, RunFinished, WaitFails, Settle,
         InvocationEnds, Host, Cancel, Pause, Busy, Send, ResumeGoal, WaitLimit, WaitExpires, AnswerSet,
         PollFires, ReadEnds, ReadAnswered, vars, native, Native, AnswerStart, Announce, ContinueGoal,
         GoalEnds, TellGoal, RunEnds, AnswerGet, AnswerInterrupt, AnswerChildren, Spawn, ChildEnds, Exit
    <3> QED
      BY <1>1, <1>4, <3>1 DEF Working
  <2> QED
    BY <2>1, <2>2, <2>3
<1> QED
  BY <1>3, <1>4, StopsGrow

LEMMA TrackedStep ==
    ASSUME CodexAssumption, Typed, Reports, Order, Basics, Tracked, [Next]_vars
    PROVE  Tracked'
<1>1. Unwatched'
  BY UnwatchedStep DEF Basics
<1>2. ASSUME Unstopped'
      PROVE  NoControls' /\ GoalHeard' /\ Follows'
  <2>1. Unstopped
    BY <1>2, CalmStep DEF Unstopped
  <2>2. NoControls /\ GoalHeard /\ Follows /\ proc = "up" /\ StartsIdle
    BY <2>1 DEF Tracked, Unstopped, Follows
  <2>3. Calm
    BY <1>2, <2>2, CalmStep DEF Unstopped
  <2> QED
    BY <2>2, <2>3, NoControlsStep, GoalHeardStep, FollowsStep DEF Basics
<1> QED
  BY <1>1, <1>2 DEF Tracked

LEMMA TrackedRuns == Typed /\ ProcOK /\ Tracked => RunsTracked
  BY DEF Typed, NativeTyped, ProcOK, Tracked, Unwatched, Unstopped, Follows, WorksForTurn, Working, RunsTracked

\* The inductive invariant.
Inductive == Typed /\ Reports /\ Order /\ Basics /\ Tracked

LEMMA InductiveStep == CodexAssumption /\ Inductive /\ [Next]_vars => Inductive'
  BY TypeStep, ReportsStep, OrderStep, ProcStep, TurnOKStep, CallsOKStep, TrackedStep DEF Inductive, Basics

LEMMA InductiveHolds == CodexAssumption => (Spec => []Inductive)
<1> SUFFICES ASSUME CodexAssumption
             PROVE  Spec => []Inductive
  OBVIOUS
<1>1. Init => Inductive
  BY TypeInit, ReportsInit, OrderInit, BasicsInit, TrackedInit DEF Inductive
<1>2. Inductive /\ [Next]_vars => Inductive'
  BY InductiveStep
<1> QED
  BY <1>1, <1>2, PTL DEF Spec

\* The engine follows the turn through every run its goal starts: no run goes on for a turn
\* that is over, unless that turn or one before it was stopped.
THEOREM RunsFollowed == CodexAssumption => (Spec => []RunsTracked)
<1> SUFFICES ASSUME CodexAssumption
             PROVE  Spec => []RunsTracked
  OBVIOUS
<1>1. Inductive => RunsTracked
  BY TrackedRuns DEF Inductive, Basics
<1> QED
  BY <1>1, InductiveHolds, PTL

----------------------------------------------------------------------------
(* How a turn is reported.                                                 *)

\* What StatusHonest says of turn t.
Honest(t) ==
    /\ reported'[t] = "completed" =>
         \/ Unsettled(t, stopped')
         \/ run = 0 /\ child' # "active" /\ ~reading' /\ goal' # "active"
    /\ reported'[t] = "interrupted" => Unsettled(t, stopped')

LEMMA FinishHonest ==
    ASSUME Typed, Reports, NEW o \in {owner, Released}, NEW u \in Turn, NEW status \in Statuses,
           FinishTurn(o, u, status), UNCHANGED reading, status # "interrupted",
           status = "completed" => goal' # "active", turn' = 0 => run = 0 \/ status # "completed",
           NEW t \in Turn, reported'[t] # reported[t]
    PROVE  Honest(t)
<1>1. turn = u /\ turn' = 0 /\ t = u /\ reported'[t] = status /\ child' # "active"
      /\ (status = "completed" => ~reading)
  BY FinishShape DEF Typed
<1> QED
  BY <1>1 DEF Honest

\* While nothing is stopped, a turn is over when its last run is and no further one is due.
LEMMA CalmHonest ==
    ASSUME CodexAssumption, Typed, Reports, Order, Basics, proc = "up", NoControls, GoalHeard,
           Follows, Calm, NEW t \in Turn, reported'[t] # reported[t]
    PROVE  Honest(t)
<1>a. /\ \A k \in {"goal", "finish"} : calls[k].reply # "none" => calls[k].turn \in Turn
      /\ turn \in Turn \union {0} /\ cur.last \in Statuses /\ "completed" \in Statuses
      /\ cur.last # "interrupted" /\ 0 \notin Turn /\ reported \in ReportMaps
  BY CallWrites, CurWrites, TurnsTyped DEF Typed, RestTyped, TurnTyped, Tasks, Statuses, Basics, TurnOK
<1>b. turn' = 0 => run' = 0
  BY FollowsStep DEF Basics, Follows, WorksForTurn, Working
<1>1. ASSUME NEW u \in Turn, NEW value, ContinueOrFinish(u, value), goal' = value, UNCHANGED <<run, reading>>
      PROVE  Honest(t)
  <2>1. CASE GoalReleases(value)
    <3>1. turn # 0 /\ value # "active" /\ FinishTurn(owner, turn, cur.last)
      BY <1>1, <2>1 DEF ContinueOrFinish, GoalReleases
    <3> QED
      BY <1>1, <1>a, <1>b, <3>1, FinishHonest
  <2>2. CASE value # "active" /\ FinishTurn(owner, u, "completed")
    BY <1>1, <1>a, <1>b, <2>2, FinishHonest
  <2> QED
    BY <1>1, <2>1, <2>2 DEF ContinueOrFinish, Unfinished
<1>2. CASE GoalActivated \/ RunFinished
  BY <1>1, <1>2, <1>a DEF GoalActivated, RunFinished, SetGoal, native
<1>3. CASE TellGoal \/ \E value \in {"none", "paused"} : GoalEnds(value)
  <2>1. PICK value : /\ goal' = value /\ UNCHANGED <<run, reading>>
                     /\ IF GoalReleases(value) THEN FinishTurn(owner, turn, cur.last) ELSE Unfinished(owner)
    BY <1>3 DEF TellGoal, GoalEnds, SetGoal, native
  <2>2. GoalReleases(value) /\ turn \in Turn /\ value # "active"
    BY <2>1, <1>a DEF Unfinished, GoalReleases
  <2> QED
    BY <2>1, <2>2, <1>a, <1>b, FinishHonest
<1>4. CASE \E status \in Statuses : RunEnds(status)
  <2>1. PICK status \in Statuses : RunEnds(status)
    BY <1>4
  <2>2. status # "interrupted" /\ UNCHANGED reading
    BY <2>1 DEF RunEnds, NoControls
  <2>3. turn # 0 /\ status # "completed" /\ FinishTurn(owner, turn, status)
    BY <2>1 DEF RunEnds, Unfinished
  <2> QED
    BY <2>2, <2>3, <1>a, FinishHonest
<1>5. ASSUME NEW armed, NEW childNow, NEW readNow, NEW awaits, Poll(armed, childNow, readNow, awaits),
             reading' = readNow, UNCHANGED <<goal, run>>
      PROVE  Honest(t)
  <2>1. turn # 0 /\ cur.childCompletion /\ childNow # "active" /\ ~readNow /\ turn' = 0 /\ child' = childNow
    BY <1>5 DEF Poll
  <2>2. run = 0 /\ goal # "active"
    BY <1>5, <1>b, <2>1 DEF Follows, WaitsForRun
  <2>3. reported'[t] # "interrupted"
    <3>1. reported' = [reported EXCEPT ![turn] = IF @ = "none" THEN "completed" ELSE "twice"]
      BY <1>5, <2>1 DEF Poll
    <3> QED
      BY <3>1, <1>a DEF ReportMaps
  <2> QED
    BY <1>5, <2>1, <2>2, <2>3 DEF Honest
<1>6. CASE PollFires \/ ReadEnds
  BY <1>5, <1>6 DEF PollFires, ReadEnds, ReadAnswered, native
<1>7. ~(\/ Begins \/ \E u \in Turn : Busy(u)
        \/ SendAnswered \/ GoalRead \/ GoalNotResumed \/ Settle \/ InvocationEnds
        \/ TakeStart \/ AnswerStart \/ Announce \/ ContinueGoal
        \/ \E k \in {"goal", "finish"}, ok \in BOOLEAN : AnswerGet(k, ok)
        \/ AnswerSet("goal") \/ Spawn
        \/ \E told \in BOOLEAN : ChildEnds(told)
        \/ UNCHANGED vars)
  BY DEF Begins, Busy, Send, ResumeGoal, SendAnswered, GoalRead, GoalNotResumed, Settle, InvocationEnds,
     TakeStart, AnswerStart, Announce, ContinueGoal, AnswerGet, AnswerSet, Spawn, ChildEnds, vars, record
<1> QED
  BY <1>2, <1>3, <1>4, <1>6, <1>7 DEF Calm

\* Only the current turn is reported.
LEMMA ReportedStep ==
    ASSUME Typed, Reports, [Next]_vars, NEW t \in Turn, reported'[t] # reported[t]
    PROVE  t = turn
<1>a. /\ turn \in Turn \union {0} /\ cur.last \in Statuses /\ 0 \notin Turn /\ reported \in ReportMaps
      /\ Statuses = {"completed", "interrupted", "failed"}
      /\ \A k \in {"send", "goal", "finish", "timer"} : calls[k].reply # "none" => calls[k].turn \in Turn
  BY CurWrites, CallWrites, TurnsTyped DEF Typed, TurnTyped, RestTyped, Tasks, Statuses
<1>1. ASSUME NEW o \in {owner, Released}, NEW u \in Turn, NEW status \in Statuses, FinishTurn(o, u, status)
      PROVE  t = turn
  BY <1>1, FinishShape DEF Typed
<1>2. ASSUME NEW o, Unfinished(o)
      PROVE  FALSE
  BY <1>2 DEF Unfinished
<1>3. ASSUME NEW u \in Turn, NEW value, ContinueOrFinish(u, value)
      PROVE  t = turn
  BY <1>1, <1>2, <1>3, <1>a DEF ContinueOrFinish, GoalReleases
<1>4. ASSUME NEW armed, NEW childNow, NEW readNow, NEW awaits, Poll(armed, childNow, readNow, awaits)
      PROVE  t = turn
  BY <1>4, <1>a DEF Poll, ReportMaps
<1>5. ASSUME NEW o \in {owner, Released}, NEW u, NEW c, Interrupt(o, u, c)
      PROVE  t = turn
  BY <1>1, <1>2, <1>5, <1>a DEF Interrupt
<1>6. CASE Cancel \/ ChildrenInterrupted
  BY <1>2, <1>5, <1>6 DEF Cancel, ChildrenInterrupted
<1>7. CASE PausePersisted \/ InterruptAnswered
  BY <1>1, <1>2, <1>7, <1>a DEF PausePersisted, InterruptAnswered, GoalReleases
<1>8. CASE GoalActivated \/ RunFinished
  BY <1>3, <1>8, <1>a DEF GoalActivated, RunFinished
<1>9. CASE WaitFails
  BY <1>1, <1>9, <1>a DEF WaitFails, GoalReleases
<1>10. CASE PollFires \/ ReadEnds
  BY <1>4, <1>10 DEF PollFires, ReadEnds, ReadAnswered
<1>11. CASE TellGoal \/ \E value \in {"none", "paused"} : GoalEnds(value)
  BY <1>1, <1>2, <1>11, <1>a DEF TellGoal, GoalEnds, GoalReleases
<1>12. CASE \E status \in Statuses : RunEnds(status)
  BY <1>1, <1>2, <1>12, <1>a DEF RunEnds
<1>13. CASE Exit
  BY <1>1, <1>2, <1>13, <1>a DEF Exit
<1>14. ~(\/ \E u \in Turn : Busy(u) \/ Send(u) \/ ResumeGoal(u)
         \/ SendAnswered \/ GoalRead \/ GoalNotResumed \/ Settle \/ InvocationEnds
         \/ Pause \/ PauseJoins \/ PauseFails \/ WaitExpires
         \/ TakeStart \/ AnswerStart \/ Announce \/ ContinueGoal
         \/ \E k \in {"goal", "finish"}, ok \in BOOLEAN : AnswerGet(k, ok)
         \/ \E k \in {"goal", "timer", "control"} : AnswerSet(k)
         \/ AnswerInterrupt \/ AnswerChildren \/ Spawn
         \/ \E told \in BOOLEAN : ChildEnds(told)
         \/ UNCHANGED vars)
  BY DEF Busy, Send, ResumeGoal, SendAnswered, GoalRead, GoalNotResumed, Settle, InvocationEnds, Pause,
     PauseJoins, PauseFails, WaitExpires, TakeStart, AnswerStart, Announce, ContinueGoal, AnswerGet, AnswerSet,
     AnswerInterrupt, AnswerChildren, Spawn, ChildEnds, vars, record
<1> QED
  BY <1>6, <1>7, <1>8, <1>9, <1>10, <1>11, <1>12, <1>13, <1>14 DEF Next, Continue, Host, WaitLimit, Native

LEMMA HonestStep ==
    ASSUME CodexAssumption, Typed, Reports, Order, Basics, Tracked, [Next]_vars,
           NEW t \in Turn, reported'[t] # reported[t]
    PROVE  Honest(t)
<1>1. t = turn /\ turn # 0 /\ t \in Nat /\ proc = "up"
  BY ReportedStep, TurnsTyped DEF Basics, ProcOK, Typed, NativeTyped
<1>2. CASE stopped' # {}
  <2>1. \A u \in stopped : u <= t
    BY <1>1 DEF Order
  <2>2. \A u \in {turn, owner.turn} : u # 0 => u = t
    BY <1>1 DEF Order
  <2>3. \A u \in stopped' : u <= t
    BY <1>1, <2>1, <2>2, StopsGrow
  <2> QED
    BY <1>2, <2>3 DEF Honest, Unsettled
<1>3. CASE stopped' = {} /\ proc' = "up"
  <2>1. Unstopped
    BY <1>3, CalmStep
  <2>2. NoControls /\ GoalHeard /\ Follows
    BY <2>1 DEF Tracked
  <2>3. Calm
    BY <1>3, <2>2, CalmStep
  <2> QED
    BY <1>1, <2>2, <2>3, CalmHonest
<1>4. CASE proc' # "up"
  <2>1. Exit
    BY <1>1, <1>4 DEF Next, Continue, SendAnswered, GoalRead, GoalActivated, GoalNotResumed, ChildrenInterrupted,
       PauseJoins, PausePersisted, InterruptAnswered, PauseFails, RunFinished, WaitFails, Settle,
       InvocationEnds, Host, Cancel, Pause, Busy, Send, ResumeGoal, WaitLimit, WaitExpires, AnswerSet,
       PollFires, ReadEnds, ReadAnswered, vars, native, Native, TakeStart, AnswerStart, Announce,
       ContinueGoal, GoalEnds, TellGoal, RunEnds, AnswerGet, AnswerInterrupt, AnswerChildren, Spawn, ChildEnds
  <2>2. FinishTurn(owner, turn, "failed") /\ "failed" \in Statuses
    BY <1>1, <2>1 DEF Exit, Statuses
  <2>3. reported'[t] = "failed"
    BY <1>1, <2>2, FinishShape DEF Typed
  <2> QED
    BY <2>3 DEF Honest
<1> QED
  BY <1>2, <1>3, <1>4

\* A turn is completed only when its runs and its children are through and its goal starts no
\* further run, and interrupted only once it or one before it was stopped.
THEOREM HonestReports == CodexAssumption => (Spec => StatusHonest)
<1> SUFFICES ASSUME CodexAssumption
             PROVE  Spec => StatusHonest
  OBVIOUS
<1> DEFINE Kept == [][\A t \in Turn : reported'[t] # reported[t] => Honest(t)]_vars
<1>1. Inductive /\ [Next]_vars => [\A t \in Turn : reported'[t] # reported[t] => Honest(t)]_vars
  BY HonestStep DEF Inductive
<1>2. Spec => Kept
  BY <1>1, InductiveHolds, PTL DEF Spec
<1> QED
  BY <1>2 DEF StatusHonest, Honest
=============================================================================
