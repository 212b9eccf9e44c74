----------------------------- MODULE MessageFate -----------------------------
(***************************************************************************)
(* What a session promises about each message a user submits, without     *)
(* queues, locks, turns or restarts: it is offered to the provider at most *)
(* once, an accepted message never disappears before the provider has it   *)
(* unless its user withdraws it, and once its outcome is unknown it is     *)
(* never offered again.                                                    *)
(***************************************************************************)
EXTENDS Naturals

CONSTANT Msg

VARIABLES
    fate,   \* of each message
    copies  \* how often the provider was handed it

Fates == {"draft", "waiting", "claimed", "unknown", "direct", "gone"}

Init ==
    /\ fate = [m \in Msg |-> "draft"]
    /\ copies = [m \in Msg |-> 0]

Moves(m, from, to) == fate[m] \in from /\ fate'[m] = to /\ copies'[m] = copies[m]

\* The message is queued, or starts a turn at once.
Submit(m) == Moves(m, {"draft"}, "waiting") \/ Moves(m, {"draft"}, "direct")

\* One delivery attempt takes the message; only its user takes it back.
Claim(m)    == Moves(m, {"waiting"}, "claimed")
Withdraw(m) == Moves(m, {"waiting", "unknown"}, "gone")

\* The attempt reaches the provider.
Hear(m) ==
    /\ fate[m] \in {"claimed", "unknown", "direct"} /\ copies[m] = 0
    /\ fate'[m] = fate[m] /\ copies'[m] = 1

\* The attempt ends: it succeeded, it certainly failed, or nobody knows.
Confirm(m) == copies[m] = 1 /\ Moves(m, {"claimed", "unknown"}, "gone")
Return(m)  == copies[m] = 0 /\ Moves(m, {"claimed", "unknown"}, "waiting")
Doubt(m)   == Moves(m, {"claimed"}, "unknown")

Step(m) == Submit(m) \/ Claim(m) \/ Withdraw(m) \/ Hear(m) \/ Confirm(m) \/ Return(m) \/ Doubt(m)

\* One operation may move several messages (clearing a queue, a restart).
Next ==
    \A m \in Msg : Step(m) \/ (fate'[m] = fate[m] /\ copies'[m] = copies[m])

Spec == Init /\ [][Next]_<<fate, copies>>
=============================================================================
