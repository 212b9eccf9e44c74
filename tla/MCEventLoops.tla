---------------------------- MODULE MCEventLoops ----------------------------
(***************************************************************************)
(* The single-threaded JavaScript programs that share no state, side by    *)
(* side: a behaviour is one of an ACP worker, of a Codex worker or of the  *)
(* window, chosen at the start.                                            *)
(***************************************************************************)
EXTENDS AcpSession, Sequences

CONSTANTS ChildTurns, MaxRuns, MaxStops, MaxFails,                          \* CodexSession
          MaxSends, MaxGens, MaxExtras, MaxOps, MaxLag, MaxPast, Outcomes   \* SessionView

VARIABLES
    loop,       \* which of them this is
    \* CodexSession
    turn, cur, goal, calls, child, reading, fails, poll, owner, control, proc, run, runs,
    announced, halting, nativeGoal, nativeChild, serves, reported, answered, stopped,
    \* SessionView
    row, turns, gen, paused, begun, seq, clock, sent, extras, open, compacting, past, cursor, retired,
    shown, cards, active, busy, list, op, ended, late, lost

codexvars == <<turn, cur, goal, calls, child, reading, fails, poll, owner, control, proc, run, runs,
               announced, halting, nativeGoal, nativeChild, serves, reported, answered, stopped>>
viewvars  == <<row, turns, gen, paused, begun, seq, clock, sent, extras, open, compacting, past, cursor,
               retired, shown, cards, active, busy, list, op, ended, late, lost>>

Codex == INSTANCE CodexSession
View  == INSTANCE SessionView

ASSUME CodexAssumed == Codex!CodexAssumption
ASSUME ViewAssumed == View!ViewAssumption

LoopsInit ==
    /\ loop \in {"acp", "codex", "view"}
    /\ Init /\ View!Init
    /\ Codex!Init /\ (loop = "codex" \/ nativeGoal = "none")

LoopsNext ==
    /\ UNCHANGED loop
    /\ \/ loop = "acp"   /\ Next       /\ UNCHANGED <<codexvars, viewvars>>
       \/ loop = "codex" /\ Codex!Next /\ UNCHANGED <<vars, viewvars>>
       \/ loop = "view"  /\ View!Next  /\ UNCHANGED <<vars, codexvars>>

Loops == LoopsInit /\ [][LoopsNext]_<<loop, vars, codexvars, viewvars>> /\ Fairness /\ Codex!Fairness

----------------------------------------------------------------------------

\* Each program's state is of its type.
Types == TypeOK /\ Codex!TypeOK /\ View!TypeOK

\* Codex: a turn is reported once at most, and an invocation that is answered as done has
\* had its last event before.
TurnAnswered == Codex!TurnAnswered

\* Codex: no native run goes on for a turn that is over.
RunsTracked == Codex!RunsTracked

\* Codex: a turn is completed only when its runs, its children and its goal are through,
\* and interrupted only if the user stopped it or one before it.
StatusHonest == Codex!StatusHonest

\* ACP: a cancelled turn ends.  Codex: a turn does not wait for ever for a run that does
\* not come, nor for a child that is through, unless the last poll for it came while the
\* child was being read.
WaitsEnd == []<>~(HeldUp \/ (Codex!HeldUp /\ ~Codex!Overlooked))

\* Window: once everything has arrived it shows a session running exactly if it is.
Converged == View!Converged

\* Window: once everything has arrived its cards are those of the requests that wait.
CardsMatch == View!CardsMatch

\* Window: a turn whose end it was told never runs again for it.
EndStays == View!EndStays
=============================================================================
