----------------------------- MODULE MCPrograms -----------------------------
(***************************************************************************)
(* The event loops and, beside them, the writes of a workspace: a behaviour*)
(* is one of the loops or one of the writes, chosen at the start.          *)
(***************************************************************************)
EXTENDS MCEventLoops

CONSTANTS MaxCalls, MaxErrors, MaxRestarts, WriteKinds, WriteRequests, Inputs   \* WorkspaceWrites

VARIABLES
    program,    \* which of them this is
    \* WorkspaceWrites
    rowStatus, rowCancelled, call, pc, result, admission, writer, uncertain, halted, callAnswer,
    performed, early, errors, restarts

writevars == <<rowStatus, rowCancelled, call, pc, result, admission, writer, uncertain, halted, callAnswer,
               performed, early, errors, restarts>>

Writes == INSTANCE WorkspaceWrites WITH
    Kinds <- WriteKinds, Requests <- WriteRequests,
    status <- rowStatus, cancelled <- rowCancelled, answer <- callAnswer

ASSUME WritesAssumed == Writes!WritesAssumption

ProgramsInit ==
    /\ program \in {"loops", "writes"}
    /\ LoopsInit /\ Writes!Init
    /\ program = "writes" => loop = "acp" /\ nativeGoal = "none"

ProgramsNext ==
    /\ UNCHANGED program
    /\ \/ program = "loops"  /\ LoopsNext   /\ UNCHANGED writevars
       \/ program = "writes" /\ Writes!Next /\ UNCHANGED <<loop, vars, codexvars, viewvars>>

\* The fairness of each of them, asked only of the behaviours that are its own.
Own(mine, state) == IF mine THEN state ELSE <<>>
Is(name)     == loop = name /\ UNCHANGED loop
IsWrites     == program = "writes" /\ UNCHANGED program

ProgramsFair ==
    /\ WF_(Own(loop = "acp", vars))(Is("acp") /\ Continue)
    /\ WF_(Own(loop = "acp", vars))(Is("acp") /\ Timers)
    /\ WF_(Own(loop = "codex", codexvars))(Is("codex") /\ Codex!Continue)
    /\ WF_(Own(loop = "codex", codexvars))(Is("codex") /\ Codex!WaitLimit)
    /\ WF_(Own(loop = "codex", codexvars))(Is("codex") /\ Codex!PollFires)
    /\ WF_(Own(loop = "codex", codexvars))(Is("codex") /\ Codex!ReadEnds)
    /\ \A c \in Writes!Call :
        WF_(Own(program = "writes", writevars))(IsWrites /\ Writes!MayProceed(c))

Programs ==
    /\ ProgramsInit /\ [][ProgramsNext]_<<program, loop, vars, codexvars, viewvars, writevars>>
    /\ ProgramsFair

----------------------------------------------------------------------------

\* Every call of a write is answered.
CallsEnd == Writes!CallsEnd
=============================================================================
