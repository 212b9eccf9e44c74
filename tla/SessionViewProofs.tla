-------------------------- MODULE SessionViewProofs --------------------------
(***************************************************************************)
(* What TLAPS proves of SessionView for every value of its constants.      *)
(*                                                                         *)
(* The window is behind the host by the events on their way to it.  Every  *)
(* part of the invariant about it has the same shape: the last of the      *)
(* events on their way that bear on something (LastIn) tells of it as the  *)
(* host has it, and if none of them does (NoneIn), the window itself has it*)
(* as the host does.                                                       *)
(***************************************************************************)
EXTENDS SessionView, TLAPS

USE DEF rowvars, viewvars, vars

----------------------------------------------------------------------------
(* Events on their way.                                                    *)

\* Whatever Event may be.
Wire == [gen : Nat, seq : Nat, time : Nat, kind : Kinds, turn : Nat, ask : Nat]
Of(kinds) == {e \in Wire : e.kind \in kinds}

\* No event of s is one of K.
NoneIn(s, K) == \A i \in 1..Len(s) : s[i] \notin K

\* The last event of s that is one of K is one of A.
LastIn(s, K, A) ==
    \A i \in 1..Len(s) : s[i] \in K /\ (\A j \in 1..Len(s) : j > i => s[j] \notin K) => s[i] \in A

\* The event e comes after the point c: later, in no older generation, and in the same
\* generation with a greater sequence.
After(e, c) == e.time > c.time /\ e.gen >= c.gen /\ (e.gen = c.gen => e.seq > c.seq)

\* Events that bring a state, those that say that a turn goes on, and its end.
Works    == {"started", "asked", "resolved"}
Stateful == Of(Works \union Finals)

\* Events that decide whether the request r has a card, and those that give it one.
About(r) == {e \in Wire : e.kind \in Finals \/ (e.kind \in {"asked", "resolved"} /\ e.ask = r)}
Asks(r)  == {e \in About(r) : e.kind = "asked"}

\* Events that set the activity, and those that end it.
Activity == Of(Works \union Finals \union {"compacting", "compacted"})
Rest     == {e \in Wire : e.kind \in Finals \/ (e.kind = "compacted" /\ e.turn = 0)}

----------------------------------------------------------------------------
(* The inductive invariant.                                                *)

\* The row runs exactly while a turn does; requests wait during a turn only.
HostOK ==
    /\ seq <= clock
    /\ Running(row) <=> begun # "over"
    /\ open # {} => begun = "begun"
    /\ \A r \in open : r <= extras

\* The events on their way follow each other and the cursor; those that have arrived, and
\* the generations that were left, are behind it.
Order ==
    /\ \A i, j \in 1..Len(sent) : i < j => After(sent[j], sent[i])
    /\ \A i \in 1..Len(sent) : /\ After(sent[i], cursor)
                               /\ sent[i].gen <= gen /\ (sent[i].gen = gen => sent[i].seq <= seq)
    /\ cursor.gen <= gen /\ (cursor.gen = gen => cursor.seq <= seq)
    /\ \A g \in retired : g < cursor.gen
    /\ \A i \in 1..Len(past) : /\ past[i].gen <= cursor.gen
                               /\ past[i].gen = cursor.gen => past[i].seq <= cursor.seq
                               /\ past[i].gen < cursor.gen => past[i].gen \in retired

\* The state that is shown, a list that was read and the receipt of a send are those of
\* the row, but for events on their way.
StateOK ==
    /\ LastIn(sent, Stateful, IF begun = "begun" THEN Of(Works) ELSE Of(Finals))
    /\ NoneIn(sent, Stateful) /\ begun # "no" =>
         /\ late \/ (paused /\ begun # "over") \/ Running(shown) = Running(row)
         /\ list.at = "read" /\ list.clean => Running(list.value) = Running(row)
         /\ op["send"].at = "done" /\ op["send"].fresh => Running(op["send"].value) = Running(row)
    /\ op["stop"].at # "none" => op["stop"].about <= turns
    /\ op["stop"].at = "done" /\ op["stop"].about = turns => paused

\* The cards are those of the requests that wait, but for events on their way.
CardsOK ==
    /\ \A r \in 0..MaxExtras :
         /\ LastIn(sent, About(r), IF r \in open THEN Asks(r) ELSE Wire \ Asks(r))
         /\ NoneIn(sent, About(r)) =>
              /\ r \in cards => r \in open
              /\ r \in open => r \in cards \/ lost \/ paused
    /\ \A r \in cards : r <= extras
    /\ \A i \in 1..Len(sent) : sent[i].ask <= extras
    /\ op["answer"].at # "none" => op["answer"].about <= extras
    /\ op["answer"].at = "done" => op["answer"].about \notin open

\* Nothing is shown at work that is not, but for events on their way.
ActiveOK ==
    ~Running(row) /\ compacting = 0 => LastIn(sent, Activity, Rest) /\ (NoneIn(sent, Activity) => ~active)

\* What says that a turn goes on is about a turn whose end was not told before.
EndOK ==
    /\ ended <= turns /\ (begun # "over" => ended < turns)
    /\ \A i \in 1..Len(sent) :
         /\ sent[i].turn <= turns
         /\ sent[i].kind \in Finals /\ begun # "over" => sent[i].turn < turns
         /\ sent[i].kind \in Works =>
              /\ sent[i].turn > ended
              /\ \A j \in 1..Len(sent) : j < i /\ sent[j].kind \in Finals => sent[j].turn < sent[i].turn
    /\ list.at = "read" /\ list.clean /\ Running(list.value) => turns > ended
    /\ op["send"].at = "done" /\ op["send"].fresh /\ Running(op["send"].value) => turns > ended

ViewInv == TypeOK /\ HostOK /\ Order /\ StateOK /\ CardsOK /\ ActiveOK /\ EndOK

----------------------------------------------------------------------------
(* Sequences of events.                                                    *)

\* What Append makes of a sequence.
LEMMA AppendFacts ==
    ASSUME NEW S, NEW s \in Seq(S), NEW e \in S
    PROVE  /\ Append(s, e) \in Seq(S) /\ Len(s) \in Nat /\ Len(Append(s, e)) = Len(s) + 1
           /\ \A i \in 1..Len(s) : Append(s, e)[i] = s[i]
           /\ Append(s, e)[Len(s) + 1] = e
  OBVIOUS

\* What Head and Tail make of a sequence that is not empty.
LEMMA TailFacts ==
    ASSUME NEW S, NEW s \in Seq(S), s # <<>>
    PROVE  /\ Len(s) \in Nat \ {0} /\ Head(s) = s[1] /\ Head(s) \in S
           /\ Tail(s) \in Seq(S) /\ Len(Tail(s)) = Len(s) - 1
           /\ \A i \in 1..Len(s) - 1 : Tail(s)[i] = s[i + 1]
  OBVIOUS

\* A sequence over a set is one over every larger set.
LEMMA SeqOfLarger ==
    ASSUME NEW S, NEW T, S \subseteq T, NEW s \in Seq(S)
    PROVE  s \in Seq(T)
  OBVIOUS

\* After an event of K was appended it is the last of K.
LEMMA AppendIn ==
    ASSUME NEW S, NEW s \in Seq(S), NEW K, NEW A, NEW e \in S, e \in K
    PROVE  (LastIn(Append(s, e), K, A) <=> e \in A) /\ ~NoneIn(Append(s, e), K)
  BY AppendFacts DEF LastIn, NoneIn

\* An event that is not of K, appended, changes nothing about the last of K.
LEMMA AppendOut ==
    ASSUME NEW S, NEW s \in Seq(S), NEW K, NEW A, NEW e \in S, e \notin K
    PROVE  (LastIn(Append(s, e), K, A) <=> LastIn(s, K, A)) /\ (NoneIn(Append(s, e), K) <=> NoneIn(s, K))
  BY AppendFacts DEF LastIn, NoneIn

\* When the first event leaves, the last of K is the last of K still; and if there is none
\* left, the first was the last, or not of K either.
LEMMA TailLast ==
    ASSUME NEW S, NEW s \in Seq(S), NEW K, NEW A, s # <<>>, LastIn(s, K, A)
    PROVE  /\ LastIn(Tail(s), K, A)
           /\ NoneIn(Tail(s), K) => (Head(s) \in K /\ Head(s) \in A) \/ (Head(s) \notin K /\ NoneIn(s, K))
<1>1. /\ Len(s) \in Nat \ {0} /\ Head(s) = s[1] /\ Len(Tail(s)) = Len(s) - 1
      /\ \A i \in 1..Len(s) - 1 : Tail(s)[i] = s[i + 1]
  BY TailFacts
<1>2. \A j \in 1..Len(s) : j # 1 => j - 1 \in 1..Len(Tail(s)) /\ s[j] = Tail(s)[j - 1]
  BY <1>1
<1>3. LastIn(Tail(s), K, A)
  <2>. SUFFICES ASSUME NEW i \in 1..Len(Tail(s)), Tail(s)[i] \in K,
                       \A j \in 1..Len(Tail(s)) : j > i => Tail(s)[j] \notin K
                PROVE  Tail(s)[i] \in A
    BY DEF LastIn
  <2>1. i + 1 \in 1..Len(s) /\ s[i + 1] = Tail(s)[i]
    BY <1>1
  <2>2. \A j \in 1..Len(s) : j > i + 1 => s[j] \notin K
    BY <1>1, <1>2
  <2>. QED
    BY <2>1, <2>2 DEF LastIn
<1>4. ASSUME NoneIn(Tail(s), K) PROVE \A j \in 1..Len(s) : j # 1 => s[j] \notin K
  BY <1>2, <1>4 DEF NoneIn
<1>. QED
  BY <1>1, <1>3, <1>4 DEF LastIn, NoneIn

----------------------------------------------------------------------------
(* What a step does to the events on their way.                            *)

\* The event of Tell.
NewEvent(kind, ask, generation, number) ==
    [gen |-> generation, seq |-> number, time |-> clock + 1, kind |-> kind,
     turn |-> IF begun = "over" THEN 0 ELSE turns, ask |-> ask]

\* project_event sends one event more, later than all before.
LEMMA Telling ==
    ASSUME ViewAssumption, TypeOK, seq <= clock, NEW kind \in Kinds, NEW ask \in 0..MaxExtras,
           NEW g \in 1..MaxGens, NEW n \in 1..clock + 1, Tell(kind, ask, g, n)
    PROVE  /\ NewEvent(kind, ask, g, n) \in Event' /\ NewEvent(kind, ask, g, n) \in Wire
           /\ sent' = Append(sent, NewEvent(kind, ask, g, n))
           /\ sent \in Seq(Wire) /\ past \in Seq(Event') /\ sent' \in Seq(Event') /\ Len(sent') <= MaxLag
           /\ clock' = clock + 1 /\ seq' = n
<1>1. /\ clock' = clock + 1 /\ seq' = n /\ sent' = Append(sent, NewEvent(kind, ask, g, n))
      /\ Len(sent) < MaxLag
  BY DEF Tell, NewEvent
<1>2. /\ clock \in Nat /\ turns \in 0..MaxSends /\ sent \in Seq(Event) /\ past \in Seq(Event)
      /\ {MaxSends, MaxGens, MaxExtras, MaxLag} \subseteq Nat
  BY DEF TypeOK, HostTypes, EventTypes, ViewAssumption
<1>3. NewEvent(kind, ask, g, n) \in Event' /\ NewEvent(kind, ask, g, n) \in Wire
  BY <1>1, <1>2 DEF NewEvent, Event, Wire
<1>4. Event \subseteq Event' /\ Event \subseteq Wire
  <2>1. 1..clock \subseteq 1..clock' /\ 1..clock \subseteq Nat /\ 1..MaxGens \subseteq Nat
        /\ 0..MaxSends \subseteq Nat /\ 0..MaxExtras \subseteq Nat
    BY <1>1, <1>2
  <2>2. ASSUME NEW e \in Event PROVE e \in Event' /\ e \in Wire
    BY <2>1 DEF Event, Wire
  <2>. QED
    BY <2>2
<1>5. sent \in Seq(Wire) /\ sent \in Seq(Event') /\ past \in Seq(Event')
  BY <1>2, <1>4, SeqOfLarger
<1>6. sent' \in Seq(Event') /\ Len(sent') <= MaxLag
  BY <1>1, <1>2, <1>3, <1>5, AppendFacts
<1>. QED
  BY <1>1, <1>3, <1>5, <1>6

\* An event arrives: it was the first, and what is left has its type.
LEMMA Receiving ==
    ASSUME ViewAssumption, TypeOK, Arrives
    PROVE  /\ sent # <<>> /\ sent' = Tail(sent) /\ Head(sent) = sent[1] /\ Head(sent) \in Event
           /\ sent \in Seq(Wire) /\ sent' \in Seq(Event) /\ past' \in Seq(Event)
           /\ Len(sent) \in Nat \ {0} /\ Len(sent') = Len(sent) - 1 /\ Len(past') <= MaxPast
           /\ \A i \in 1..Len(sent') : sent'[i] = sent[i + 1]
           /\ \A i \in 1..Len(past') : past'[i] = Head(sent) \/ \E j \in 1..Len(past) : past'[i] = past[j]
<1>1. /\ sent # <<>> /\ sent' = Tail(sent)
      /\ past' = IF Len(past) < MaxPast THEN Append(past, Head(sent))
                 ELSE Append(Tail(past), Head(sent))
  BY DEF Arrives
<1>2. /\ sent \in Seq(Event) /\ past \in Seq(Event) /\ Len(past) <= MaxPast
      /\ MaxPast \in Nat \ {0} /\ clock \in Nat /\ {MaxSends, MaxGens, MaxExtras, MaxLag} \subseteq Nat
  BY DEF TypeOK, HostTypes, EventTypes, ViewAssumption
<1>3. /\ Head(sent) = sent[1] /\ Head(sent) \in Event /\ sent' \in Seq(Event)
      /\ Len(sent) \in Nat \ {0} /\ Len(sent') = Len(sent) - 1
      /\ \A i \in 1..Len(sent') : sent'[i] = sent[i + 1]
  BY <1>1, <1>2, TailFacts
<1>4. sent \in Seq(Wire)
  <2>1. Event \subseteq Wire
    BY <1>2 DEF Event, Wire
  <2>. QED
    BY <1>2, <2>1, SeqOfLarger
<1>5. CASE Len(past) < MaxPast
  <2>1. past' = Append(past, Head(sent))
    BY <1>1, <1>5
  <2>. QED
    BY <1>1, <1>2, <1>3, <1>4, <1>5, <2>1, AppendFacts
<1>6. CASE ~(Len(past) < MaxPast)
  <2>1. past' = Append(Tail(past), Head(sent)) /\ past # <<>>
    BY <1>1, <1>2, <1>6
  <2>2. /\ Tail(past) \in Seq(Event) /\ Len(past) \in Nat /\ Len(Tail(past)) = Len(past) - 1
        /\ \A i \in 1..Len(past) - 1 : Tail(past)[i] = past[i + 1]
    BY <1>2, <2>1, TailFacts
  <2>3. /\ past' \in Seq(Event) /\ Len(past') = Len(past)
        /\ \A i \in 1..Len(past) - 1 : past'[i] = Tail(past)[i]
        /\ past'[Len(past)] = Head(sent)
    <3>1. /\ past' \in Seq(Event) /\ Len(past') = Len(Tail(past)) + 1
          /\ \A i \in 1..Len(Tail(past)) : past'[i] = Tail(past)[i]
          /\ past'[Len(Tail(past)) + 1] = Head(sent)
      BY <1>3, <2>1, <2>2, AppendFacts
    <3>. QED
      BY <2>2, <3>1
  <2>4. \A i \in 1..Len(past') : past'[i] = Head(sent) \/ \E j \in 1..Len(past) : past'[i] = past[j]
    <3>. SUFFICES ASSUME NEW i \in 1..Len(past'), past'[i] # Head(sent)
                  PROVE  \E j \in 1..Len(past) : past'[i] = past[j]
      OBVIOUS
    <3>1. i \in 1..Len(past) - 1
      BY <2>2, <2>3
    <3>2. past'[i] = past[i + 1] /\ i + 1 \in 1..Len(past)
      BY <2>2, <2>3, <3>1
    <3>. QED
      BY <3>2
  <2>. QED
    BY <1>1, <1>2, <1>3, <1>4, <2>2, <2>3, <2>4
<1>. QED
  BY <1>5, <1>6

\* The numbers of an event and of the cursor.
LEMMA EventNumbers ==
    ASSUME ViewAssumption, TypeOK, NEW e \in Event
    PROVE  /\ e.gen \in Nat \ {0} /\ e.seq \in Nat /\ e.time \in Nat \ {0} /\ e.turn \in Nat /\ e.ask \in Nat
           /\ e.gen \in 1..MaxGens /\ e.seq \in 1..clock /\ e.time \in 1..clock /\ e.turn \in 0..MaxSends
           /\ e.ask \in 0..MaxExtras /\ e.kind \in Kinds
<1>1. /\ e.gen \in 1..MaxGens /\ e.seq \in 1..clock /\ e.time \in 1..clock /\ e.turn \in 0..MaxSends
      /\ e.ask \in 0..MaxExtras /\ e.kind \in Kinds
  BY DEF Event
<1>2. clock \in Nat /\ MaxGens \in Nat /\ MaxSends \in Nat /\ MaxExtras \in Nat
  BY DEF TypeOK, HostTypes, ViewAssumption
<1>. QED
  BY <1>1, <1>2

LEMMA CursorNumbers ==
    ASSUME ViewAssumption, TypeOK
    PROVE  /\ cursor.gen \in Nat /\ cursor.seq \in Nat /\ cursor.time \in Nat /\ retired \subseteq Nat
           /\ gen \in Nat /\ seq \in Nat /\ clock \in Nat
           /\ \A i \in 1..Len(sent) : sent[i] \in Event
           /\ \A i \in 1..Len(past) : past[i] \in Event
           /\ Len(sent) \in Nat /\ Len(past) \in Nat
<1>1. cursor.gen \in 0..MaxGens /\ cursor.seq \in 0..clock /\ cursor.time \in 0..clock
  BY DEF TypeOK, EventTypes
<1>. QED
  BY <1>1 DEF TypeOK, HostTypes, EventTypes, ViewAssumption

\* The gate hears an event that arrives for the first time.
LEMMA HeadAccepted ==
    ASSUME ViewAssumption, TypeOK, Order, Arrives
    PROVE  Accepts(Head(sent))
<1>1. Head(sent) = sent[1] /\ 1 \in 1..Len(sent) /\ Head(sent) \in Event
  BY Receiving
<1>2. After(Head(sent), cursor) /\ \A g \in retired : g < cursor.gen
  BY <1>1 DEF Order
<1>. QED
  BY <1>1, <1>2, EventNumbers, CursorNumbers DEF After, Accepts

\* It does not hear one that has arrived before.
LEMMA AgainRefused ==
    ASSUME ViewAssumption, TypeOK, Order, NEW i \in 1..Len(past)
    PROVE  ~Accepts(past[i])
<1>1. past[i] \in Event
  BY CursorNumbers
<1>. QED
  BY <1>1, EventNumbers, CursorNumbers DEF Order, Accepts

\* So an arrival is that of an event that is handled, and a second one does nothing.
LEMMA Handling ==
    ASSUME ViewAssumption, TypeOK, Order, Arrives
    PROVE  /\ cursor' = [gen |-> Head(sent).gen, seq |-> Head(sent).seq, time |-> Head(sent).time]
           /\ retired' = IF cursor.gen \in {0, Head(sent).gen} THEN retired
                         ELSE retired \union {cursor.gen}
           /\ HandleEvent(Head(sent))
           /\ UNCHANGED <<row, turns, gen, paused, begun, seq, clock, extras, open, compacting, busy>>
  BY HeadAccepted DEF Arrives, Handle

LEMMA AgainNothing ==
    ASSUME ViewAssumption, TypeOK, Order, NEW i \in 1..Len(past), ArrivesAgain(i)
    PROVE  UNCHANGED vars
  BY AgainRefused DEF ArrivesAgain, Handle

----------------------------------------------------------------------------
(* The steps, by what they do to the events.                               *)

TellStep ==
    \E kind \in Kinds, ask \in 0..MaxExtras, g \in 1..MaxGens, n \in 1..clock + 1 :
      /\ Tell(kind, ask, g, n)
      /\ (gen' = gen /\ g = gen /\ n = seq + 1) \/ (gen' = gen + 1 /\ g = gen' /\ n = 1)
      /\ UNCHANGED <<past, cursor, retired>>
SilentStep == UNCHANGED <<sent, clock, seq, gen, past, cursor, retired>>

\* Told tells with the next sequence of the generation.
LEMMA ToldIsTell ==
    ASSUME ViewAssumption, TypeOK, HostOK, NEW kind \in Kinds, NEW ask \in 0..MaxExtras,
           Told(kind, ask), UNCHANGED <<gen, past, cursor, retired>>
    PROVE  /\ Tell(kind, ask, gen, seq + 1) /\ gen \in 1..MaxGens /\ seq + 1 \in 1..clock + 1
           /\ TellStep
<1>1. gen \in 1..MaxGens /\ seq \in Nat /\ clock \in Nat /\ seq <= clock
  BY DEF TypeOK, HostTypes, HostOK
<1>2. seq + 1 \in 1..clock + 1
  BY <1>1
<1>3. Tell(kind, ask, gen, seq + 1)
  BY DEF Told
<1>. QED
  BY <1>1, <1>2, <1>3 DEF TellStep

\* Every step tells of something, receives something or leaves the events alone.
LEMMA Steps ==
    ASSUME ViewAssumption, TypeOK, HostOK, Order, Next
    PROVE  TellStep \/ SilentStep \/ Arrives
<1>. USE DEF SilentStep
<1>k. /\ {"opened", "started", "asked", "resolved", "message", "compacting", "compacted"} \subseteq Kinds
      /\ Finals \subseteq Kinds /\ Outcomes \subseteq Finals
      /\ 0 \in 0..MaxExtras /\ extras \in 0..MaxExtras /\ MaxExtras \in Nat /\ open \subseteq 0..MaxExtras
  BY DEF Kinds, ViewAssumption, TypeOK, HostTypes
<1>1. CASE Dispatch
  BY <1>1 DEF Dispatch, StartTurn, Silent
<1>2. CASE Reopen
  <2>1. /\ gen < MaxGens /\ gen' = gen + 1 /\ Tell("opened", 0, gen', 1) /\ UNCHANGED <<past, cursor, retired>>
    BY <1>2 DEF Reopen
  <2>2. gen' \in 1..MaxGens /\ 1 \in 1..clock + 1
    BY <2>1 DEF TypeOK, HostTypes, ViewAssumption
  <2>. QED
    BY <1>k, <2>1, <2>2 DEF TellStep
<1>3. CASE TurnStarted
  BY <1>k, <1>3, ToldIsTell DEF TurnStarted
<1>4. CASE Message
  BY <1>k, <1>4, ToldIsTell DEF Message
<1>5. CASE Asked
  <2>1. extras' \in 0..MaxExtras /\ Told("asked", extras') /\ UNCHANGED <<gen, past, cursor, retired>>
    BY <1>k, <1>5 DEF Asked
  <2>. QED
    BY <1>k, <2>1, ToldIsTell
<1>6. CASE Compacting
  BY <1>k, <1>6, ToldIsTell DEF Compacting
<1>7. CASE Compacted
  BY <1>k, <1>7, ToldIsTell DEF Compacted
<1>8. CASE Withdrawn
  BY <1>k, <1>8, ToldIsTell DEF Withdrawn, Resolve
<1>9. ASSUME NEW status \in Outcomes, EndTurn(status) PROVE TellStep
  BY <1>k, <1>9, ToldIsTell DEF EndTurn
<1>10. CASE ListRead
  BY <1>10 DEF ListRead
<1>11. CASE AdmitSend
  BY <1>11 DEF AdmitSend, StartTurn, Silent
<1>12. ASSUME NEW c \in {"send", "rename"}, ReadRow(c) PROVE SilentStep
  BY <1>12 DEF ReadRow
<1>13. CASE AcceptStop
  BY <1>13 DEF AcceptStop, Silent
<1>14. CASE AcceptAnswer
  BY <1>k, <1>14, ToldIsTell DEF AcceptAnswer, Resolve, Silent
<1>15. CASE Arrives
  BY <1>15
<1>16. ASSUME NEW i \in 1..Len(past), ArrivesAgain(i) PROVE SilentStep
  BY <1>16, AgainNothing
<1>17. CASE Refresh
  BY <1>17 DEF Refresh
<1>18. CASE ListArrives
  BY <1>18 DEF ListArrives
<1>19. CASE Submit
  BY <1>19 DEF Submit
<1>20. CASE Send
  BY <1>20 DEF Send
<1>21. ASSUME NEW c \in Commands \ {"send"}, Ask(c) PROVE SilentStep
  BY <1>21 DEF Ask
<1>22. CASE SendArrives
  BY <1>22 DEF SendArrives
<1>23. CASE StopArrives
  BY <1>23 DEF StopArrives
<1>24. CASE RenameArrives
  BY <1>24 DEF RenameArrives
<1>25. CASE AnswerArrives
  BY <1>25 DEF AnswerArrives
<1>26. ASSUME NEW c \in {"send", "stop", "answer"}, Finish(c) PROVE SilentStep
  BY <1>26 DEF Finish
<1>. QED
  BY <1>1, <1>2, <1>3, <1>4, <1>5, <1>6, <1>7, <1>8, <1>9, <1>10, <1>11, <1>12, <1>13, <1>14, <1>15,
     <1>16, <1>17, <1>18, <1>19, <1>20, <1>21, <1>22, <1>23, <1>24, <1>25, <1>26 DEF Next

\* The types of the events and of the gate are kept.
LEMMA EventTypesKept ==
    ASSUME ViewAssumption, TypeOK, HostOK, Order, TellStep \/ SilentStep \/ Arrives
    PROVE  EventTypes'
<1>1. CASE SilentStep
  <2>1. Event' = Event
    BY <1>1 DEF SilentStep, Event
  <2>. QED
    BY <1>1, <2>1 DEF SilentStep, TypeOK, EventTypes
<1>2. CASE TellStep
  <2>1. PICK kind \in Kinds, ask \in 0..MaxExtras, g \in 1..MaxGens, n \in 1..clock + 1 :
          Tell(kind, ask, g, n) /\ UNCHANGED <<past, cursor, retired>>
    BY <1>2 DEF TellStep
  <2>2. past \in Seq(Event') /\ sent' \in Seq(Event') /\ Len(sent') <= MaxLag /\ clock' = clock + 1
    BY <2>1, Telling DEF HostOK
  <2>3. cursor \in [gen : 0..MaxGens, seq : 0..clock', time : 0..clock']
    <3>1. clock \in Nat /\ cursor \in [gen : 0..MaxGens, seq : 0..clock, time : 0..clock]
      BY DEF TypeOK, HostTypes, EventTypes
    <3>2. 0..clock \subseteq 0..clock'
      BY <2>2, <3>1
    <3>. QED
      BY <3>1, <3>2
  <2>. QED
    BY <2>1, <2>2, <2>3 DEF TypeOK, EventTypes
<1>3. CASE Arrives
  <2>1. Head(sent) \in Event /\ sent' \in Seq(Event) /\ past' \in Seq(Event) /\ Len(past') <= MaxPast
        /\ Len(sent') <= MaxLag
    <3>1. /\ Head(sent) \in Event /\ sent' \in Seq(Event) /\ past' \in Seq(Event)
          /\ Len(past') <= MaxPast /\ Len(sent) \in Nat /\ Len(sent') = Len(sent) - 1
      BY <1>3, Receiving
    <3>2. Len(sent) <= MaxLag /\ MaxLag \in Nat
      BY DEF TypeOK, EventTypes, ViewAssumption
    <3>. QED
      BY <3>1, <3>2
  <2>2. clock' = clock /\ Event' = Event
    BY <1>3, Handling DEF Event
  <2>3. cursor' \in [gen : 0..MaxGens, seq : 0..clock, time : 0..clock]
    <3>1. cursor' = [gen |-> Head(sent).gen, seq |-> Head(sent).seq, time |-> Head(sent).time]
      BY <1>3, Handling
    <3>2. Head(sent).gen \in 0..MaxGens /\ Head(sent).seq \in 0..clock /\ Head(sent).time \in 0..clock
      BY <2>1, EventNumbers
    <3>. QED
      BY <3>1, <3>2
  <2>4. retired' \subseteq 1..MaxGens
    <3>1. retired \subseteq 1..MaxGens /\ cursor.gen \in 0..MaxGens /\ MaxGens \in Nat
      BY DEF TypeOK, EventTypes, ViewAssumption
    <3>2. retired' = IF cursor.gen \in {0, Head(sent).gen} THEN retired
                     ELSE retired \union {cursor.gen}
      BY <1>3, Handling
    <3>3. cursor.gen # 0 => cursor.gen \in 1..MaxGens
      BY <3>1
    <3>. QED
      BY <3>1, <3>2, <3>3
  <2>. QED
    BY <2>1, <2>2, <2>3, <2>4 DEF EventTypes
<1>. QED
  BY <1>1, <1>2, <1>3

\* So is their order.
LEMMA OrderKept ==
    ASSUME ViewAssumption, TypeOK, HostOK, Order, TellStep \/ SilentStep \/ Arrives
    PROVE  Order'
<1>1. CASE SilentStep
  BY <1>1 DEF SilentStep, Order
<1>2. CASE TellStep
  <2>1. PICK kind \in Kinds, ask \in 0..MaxExtras, g \in 1..MaxGens, n \in 1..clock + 1 :
          /\ Tell(kind, ask, g, n)
          /\ (gen' = gen /\ g = gen /\ n = seq + 1) \/ (gen' = gen + 1 /\ g = gen' /\ n = 1)
          /\ UNCHANGED <<past, cursor, retired>>
    BY <1>2 DEF TellStep
  <2> DEFINE e == NewEvent(kind, ask, g, n)
  <2>2. sent' = Append(sent, e) /\ sent \in Seq(Wire) /\ e \in Wire /\ seq' = n
    BY <2>1, Telling DEF HostOK
  <2>3. e.gen = g /\ e.seq = n /\ e.time = clock + 1
    BY DEF NewEvent
  <2> HIDE DEF e
  <2>4. /\ Len(sent) \in Nat /\ Len(sent') = Len(sent) + 1 /\ sent'[Len(sent) + 1] = e
        /\ \A i \in 1..Len(sent) : sent'[i] = sent[i]
    BY <2>2, AppendFacts
  <2>5. /\ gen \in Nat /\ seq \in Nat /\ clock \in Nat /\ cursor.gen \in Nat /\ cursor.seq \in Nat
        /\ cursor.time \in Nat /\ cursor.time <= clock
    <3>1. cursor.time \in 0..clock
      BY DEF TypeOK, EventTypes
    <3>. QED
      BY <3>1, CursorNumbers
  <2>6. After(e, cursor)
    BY <2>1, <2>3, <2>5 DEF After, Order
  <2>7. \A i \in 1..Len(sent) :
          /\ sent[i].gen \in Nat /\ sent[i].seq \in Nat /\ sent[i].time \in Nat /\ sent[i].time <= clock
          /\ sent[i].gen <= gen /\ (sent[i].gen = gen => sent[i].seq <= seq)
    <3>1. \A i \in 1..Len(sent) : sent[i] \in Event
      BY CursorNumbers
    <3>2. \A i \in 1..Len(sent) : /\ sent[i].gen \in Nat /\ sent[i].seq \in Nat /\ sent[i].time \in Nat
                                  /\ sent[i].time \in 1..clock
      BY <3>1, EventNumbers
    <3>. QED
      BY <3>2, <2>5 DEF Order
  <2>8. \A i \in 1..Len(sent) : After(e, sent[i])
    BY <2>1, <2>3, <2>5, <2>7 DEF After
  <2>9. \A i, j \in 1..Len(sent') : i < j => After(sent'[j], sent'[i])
    <3>. SUFFICES ASSUME NEW i \in 1..Len(sent'), NEW j \in 1..Len(sent'), i < j
                  PROVE  After(sent'[j], sent'[i])
      OBVIOUS
    <3>1. i \in 1..Len(sent)
      BY <2>4
    <3>2. j \in 1..Len(sent) \/ j = Len(sent) + 1
      BY <2>4
    <3>. QED
      BY <2>4, <2>8, <3>1, <3>2 DEF Order
  <2>10. \A i \in 1..Len(sent') : i \in 1..Len(sent) \/ sent'[i] = e
    BY <2>4
  <2>11. e.gen <= gen' /\ (e.gen = gen' => e.seq <= seq')
    BY <2>1, <2>2, <2>3, <2>5
  <2>12. \A i \in 1..Len(sent) : sent[i].gen <= gen' /\ (sent[i].gen = gen' => sent[i].seq <= seq')
    BY <2>1, <2>2, <2>5, <2>7
  <2>13. \A i \in 1..Len(sent') : /\ After(sent'[i], cursor)
                                  /\ sent'[i].gen <= gen' /\ (sent'[i].gen = gen' => sent'[i].seq <= seq')
    BY <2>4, <2>6, <2>10, <2>11, <2>12 DEF Order
  <2>14. cursor.gen <= gen' /\ (cursor.gen = gen' => cursor.seq <= seq')
    BY <2>1, <2>2, <2>5 DEF Order
  <2>. QED
    BY <2>1, <2>9, <2>13, <2>14 DEF Order
<1>3. CASE Arrives
  <2> DEFINE e == Head(sent)
  <2>1. /\ e = sent[1] /\ e \in Event /\ 1 \in 1..Len(sent) /\ Len(sent) \in Nat
        /\ Len(sent') = Len(sent) - 1 /\ \A i \in 1..Len(sent') : sent'[i] = sent[i + 1]
        /\ \A i \in 1..Len(past') : past'[i] = e \/ \E j \in 1..Len(past) : past'[i] = past[j]
    BY <1>3, Receiving
  <2>2. /\ cursor' = [gen |-> e.gen, seq |-> e.seq, time |-> e.time]
        /\ retired' = IF cursor.gen \in {0, e.gen} THEN retired ELSE retired \union {cursor.gen}
        /\ gen' = gen /\ seq' = seq
    BY <1>3, Handling
  <2> HIDE DEF e
  <2>3. cursor'.gen = e.gen /\ cursor'.seq = e.seq /\ cursor'.time = e.time
    BY <2>2
  <2>4. /\ e.gen \in Nat \ {0} /\ e.seq \in Nat /\ cursor.gen \in Nat /\ cursor.seq \in Nat
        /\ gen \in Nat /\ seq \in Nat /\ retired \subseteq Nat
    BY <2>1, EventNumbers, CursorNumbers
  <2>5. After(e, cursor) /\ e.gen <= gen /\ (e.gen = gen => e.seq <= seq)
    BY <2>1 DEF Order
  <2>6. \A i \in 1..Len(sent') : i + 1 \in 1..Len(sent) /\ i + 1 > 1 /\ sent'[i] = sent[i + 1]
    BY <2>1
  <2>7. \A i, j \in 1..Len(sent') : i < j => After(sent'[j], sent'[i])
    BY <2>6 DEF Order
  <2>8. \A i \in 1..Len(sent') : After(sent'[i], cursor')
    <3>1. \A i \in 1..Len(sent') : After(sent'[i], e)
      BY <2>1, <2>6 DEF Order
    <3>. QED
      BY <2>3, <3>1 DEF After
  <2>9. \A i \in 1..Len(sent') : sent'[i].gen <= gen' /\ (sent'[i].gen = gen' => sent'[i].seq <= seq')
    BY <2>2, <2>6 DEF Order
  <2>10. \A g \in retired' : g < cursor'.gen
    BY <2>2, <2>3, <2>4, <2>5 DEF Order, After
  <2>11. \A i \in 1..Len(past) : /\ past[i].gen \in Nat \ {0} /\ past[i].seq \in Nat
    BY EventNumbers, CursorNumbers
  <2>12. \A i \in 1..Len(past) : /\ past[i].gen <= e.gen
                                 /\ past[i].gen = e.gen => past[i].seq <= e.seq
                                 /\ past[i].gen < e.gen => past[i].gen \in retired'
    BY <2>2, <2>4, <2>5, <2>11 DEF Order, After
  <2>13. \A i \in 1..Len(past') : /\ past'[i].gen <= cursor'.gen
                                  /\ past'[i].gen = cursor'.gen => past'[i].seq <= cursor'.seq
                                  /\ past'[i].gen < cursor'.gen => past'[i].gen \in retired'
    <3>. SUFFICES ASSUME NEW i \in 1..Len(past')
                  PROVE  /\ past'[i].gen <= cursor'.gen
                         /\ past'[i].gen = cursor'.gen => past'[i].seq <= cursor'.seq
                         /\ past'[i].gen < cursor'.gen => past'[i].gen \in retired'
      OBVIOUS
    <3>1. CASE past'[i] = e
      BY <2>3, <2>4, <3>1
    <3>2. ASSUME NEW j \in 1..Len(past), past'[i] = past[j]
          PROVE  /\ past'[i].gen <= e.gen
                 /\ past'[i].gen = e.gen => past'[i].seq <= e.seq
                 /\ past'[i].gen < e.gen => past'[i].gen \in retired'
      BY <2>12, <3>2
    <3>. QED
      BY <2>1, <2>3, <3>1, <3>2
  <2>. QED
    BY <2>2, <2>3, <2>5, <2>7, <2>8, <2>9, <2>10, <2>13 DEF Order
<1>. QED
  BY <1>1, <1>2, <1>3

----------------------------------------------------------------------------
(* The host.                                                               *)

\* The row runs exactly while a turn does, in every step of the host; the window's leave
\* it alone.
LEMMA HostKept ==
    ASSUME ViewAssumption, TypeOK, HostOK, Order, [Next]_vars
    PROVE  HostTypes' /\ HostOK'
<1>. USE DEF HostTypes, HostOK, Running
<1>t. /\ HostTypes /\ MaxSends \in Nat /\ MaxExtras \in Nat /\ MaxGens \in Nat
      /\ Ended = {"idle", "interrupted", "failed"}
      /\ States = {"idle", "interrupted", "failed", "running", "waiting", "compacting"}
  BY DEF TypeOK, ViewAssumption, States, Ended
<1>1. CASE Dispatch
  BY <1>t, <1>1 DEF Dispatch, StartTurn, Silent
<1>2. CASE Reopen
  BY <1>t, <1>2 DEF Reopen, Tell
<1>3. CASE TurnStarted
  BY <1>t, <1>3 DEF TurnStarted, Told, Tell
<1>4. CASE Message
  BY <1>t, <1>4 DEF Message, Told, Tell
<1>5. CASE Asked
  BY <1>t, <1>5 DEF Asked, Told, Tell
<1>6. CASE Compacting
  BY <1>t, <1>6 DEF Compacting, Told, Tell
<1>7. CASE Compacted
  BY <1>t, <1>7 DEF Compacted, Told, Tell
<1>8. CASE Withdrawn
  BY <1>t, <1>8 DEF Withdrawn, Resolve, Told, Tell
<1>9. ASSUME NEW status \in Outcomes, EndTurn(status) PROVE HostTypes' /\ HostOK'
  <2>1. status \in Finals
    BY DEF ViewAssumption
  <2>. QED
    BY <1>t, <1>9, <2>1 DEF EndTurn, Told, Tell, Finals
<1>10. CASE ListRead
  BY <1>10 DEF ListRead, TypeOK
<1>11. CASE AdmitSend
  <2>1. /\ \/ row \in Ended /\ turns < MaxSends /\ StartTurn /\ paused' = FALSE
           \/ Silent /\ UNCHANGED <<row, turns, begun, paused>>
        /\ UNCHANGED <<gen, extras, open, compacting>>
    BY <1>11 DEF AdmitSend
  <2>2. CASE row \in Ended /\ turns < MaxSends /\ StartTurn /\ paused' = FALSE
    <3>1. /\ row \in Ended /\ turns < MaxSends /\ row' = "running" /\ turns' = turns + 1
          /\ begun' = "no" /\ UNCHANGED <<seq, clock, gen, extras, open, compacting>>
      BY <2>1, <2>2 DEF StartTurn, Silent
    <3>p. paused' \in BOOLEAN
      BY <2>2
    <3>2. HostTypes'
      BY <1>t, <3>1, <3>p
    <3>3. HostOK'
      BY <1>t, <3>1
    <3>. QED
      BY <3>2, <3>3
  <2>3. CASE Silent /\ UNCHANGED <<row, turns, begun, paused>>
    BY <1>t, <2>1, <2>3 DEF Silent
  <2>. QED
    BY <2>1, <2>2, <2>3
<1>12. ASSUME NEW c \in {"send", "rename"}, ReadRow(c) PROVE HostTypes' /\ HostOK'
  BY <1>t, <1>12 DEF ReadRow
<1>13. CASE AcceptStop
  BY <1>t, <1>13 DEF AcceptStop, Silent
<1>14. CASE AcceptAnswer
  <2>1. /\ Resolve(op["answer"].about) \/ (Silent /\ UNCHANGED <<row, open>>)
        /\ UNCHANGED <<turns, gen, paused, begun, extras, compacting>>
    BY <1>14 DEF AcceptAnswer
  <2>2. CASE Resolve(op["answer"].about)
    <3>1. /\ open # {} /\ open' \subseteq open /\ row' = "running" /\ seq' = seq + 1 /\ clock' = clock + 1
          /\ UNCHANGED <<turns, gen, paused, begun, extras, compacting>>
      BY <2>1, <2>2 DEF Resolve, Told, Tell
    <3>. QED
      BY <1>t, <3>1
  <2>3. CASE Silent /\ UNCHANGED <<row, open>>
    BY <1>t, <2>1, <2>3 DEF Silent
  <2>. QED
    BY <2>1, <2>2, <2>3
<1>15. CASE Arrives
  <2>1. UNCHANGED <<row, turns, gen, paused, begun, seq, clock, extras, open, compacting>>
    BY <1>15, Handling
  <2>. QED
    BY <1>t, <2>1
<1>16. ASSUME NEW i \in 1..Len(past), ArrivesAgain(i) PROVE UNCHANGED rowvars
  BY <1>16 DEF ArrivesAgain
<1>17. CASE Refresh
  BY <1>t, <1>17 DEF Refresh
<1>18. CASE ListArrives
  BY <1>t, <1>18 DEF ListArrives
<1>19. CASE Submit
  BY <1>t, <1>19 DEF Submit
<1>20. CASE Send
  BY <1>t, <1>20 DEF Send
<1>21. ASSUME NEW c \in Commands \ {"send"}, Ask(c) PROVE UNCHANGED rowvars
  BY <1>21 DEF Ask
<1>22. CASE SendArrives
  BY <1>t, <1>22 DEF SendArrives
<1>23. CASE StopArrives
  BY <1>t, <1>23 DEF StopArrives
<1>24. CASE RenameArrives
  BY <1>t, <1>24 DEF RenameArrives
<1>25. CASE AnswerArrives
  BY <1>t, <1>25 DEF AnswerArrives
<1>26. ASSUME NEW c \in {"send", "stop", "answer"}, Finish(c) PROVE UNCHANGED rowvars
  BY <1>26 DEF Finish
<1>27. CASE UNCHANGED vars
  BY <1>t, <1>27
<1>28. CASE UNCHANGED rowvars
  BY <1>t, <1>28
<1>. QED
  BY <1>1, <1>2, <1>3, <1>4, <1>5, <1>6, <1>7, <1>8, <1>9, <1>10, <1>11, <1>12, <1>13, <1>14, <1>15,
     <1>16, <1>17, <1>18, <1>19, <1>20, <1>21, <1>22, <1>23, <1>24, <1>25, <1>26, <1>27, <1>28 DEF Next

----------------------------------------------------------------------------
(* The window.                                                             *)

\* The window's requests.
OpRecord == [at : {"none", "checking", "asked", "admitted", "refused", "done", "reading"},
             value : States, fresh : BOOLEAN, about : Nat]
ListRecord == [at : {"none", "asked", "read"}, value : States, clean : BOOLEAN]

\* The request of a send after an event has brought a state.
Stale == [op EXCEPT !["send"].fresh = FALSE]

\* The records the window uses are of their types.
LEMMA WindowRecords ==
    ASSUME TypeOK
    PROVE  /\ op \in [Commands -> OpRecord] /\ list \in ListRecord /\ Stale \in [Commands -> OpRecord]
           /\ NoOp \in OpRecord /\ NoList \in ListRecord /\ AskList \in ListRecord /\ Changed \in ListRecord
           /\ row \in States /\ shown \in States /\ "interrupted" \in States
<1>1. op \in [Commands -> OpRecord] /\ list \in ListRecord /\ row \in States /\ shown \in States
  BY DEF TypeOK, HostTypes, WindowTypes, OpRecord, ListRecord
<1>2. NoOp \in OpRecord /\ NoList \in ListRecord /\ AskList \in ListRecord /\ "interrupted" \in States
  BY DEF OpRecord, ListRecord, NoOp, NoList, AskList, States, Ended
<1>3. Changed \in ListRecord
  BY <1>1 DEF ListRecord, Changed
<1>4. Stale \in [Commands -> OpRecord]
  BY <1>1 DEF Stale, OpRecord
<1>. QED
  BY <1>1, <1>2, <1>3, <1>4

\* The state an event brings.
LEMMA StateBrought ==
    /\ \A kind \in Works : StateOf(kind) \in {"running", "waiting"}
    /\ \A kind \in Finals : StateOf(kind) \in Ended
    /\ \A kind \in Kinds \ (Works \union Finals) : StateOf(kind) = "none"
  BY DEF StateOf, Works, Finals, Kinds, Ended

\* What an event that says that a turn goes on does to the window.
LEMMA WorkHandled ==
    ASSUME NEW e, e.kind \in Works, HandleEvent(e)
    PROVE  /\ shown' \in {"running", "waiting"} /\ ~late' /\ (lost' <=> lost) /\ op' = Stale
           /\ active' /\ ended' = ended /\ list' = Changed
           /\ e.kind = "asked" => cards' = cards \union {e.ask}
           /\ e.kind = "resolved" => cards' = cards \ {e.ask}
           /\ e.kind = "started" => cards' = cards
<1>0. e.kind \in {"started", "asked", "resolved"} /\ e.kind \notin Finals
  BY DEF Works, Finals
<1>1. shown' \in {"running", "waiting"} /\ ~late' /\ op' = Stale
  <2>1. StateOf(e.kind) \in {"running", "waiting"}
    BY StateBrought
  <2>2. StateOf(e.kind) # "none"
    BY <2>1
  <2>. QED
    BY <2>1, <2>2 DEF HandleEvent, Stale
<1>2. (lost' <=> lost) /\ ended' = ended
  BY <1>0 DEF HandleEvent
<1>3. active'
  BY <1>0 DEF HandleEvent
<1>4. list' = Changed
  BY <1>0 DEF HandleEvent
<1>5. /\ e.kind = "asked" => cards' = cards \union {e.ask}
      /\ e.kind = "resolved" => cards' = cards \ {e.ask}
      /\ e.kind = "started" => cards' = cards
  BY <1>0 DEF HandleEvent
<1>. QED
  BY <1>1, <1>2, <1>3, <1>4, <1>5

\* What the end of a turn does to it.
LEMMA FinalHandled ==
    ASSUME NEW e, e.kind \in Finals, HandleEvent(e)
    PROVE  /\ shown' \in Ended /\ ~late' /\ ~lost' /\ op' = Stale /\ ~active' /\ cards' = {}
           /\ ended' = (IF e.turn > ended THEN e.turn ELSE ended) /\ list' = AskList
<1>0. e.kind \notin {"started", "asked", "resolved", "compacting", "compacted"}
  BY DEF Finals
<1>1. shown' \in Ended /\ ~late' /\ op' = Stale
  <2>1. StateOf(e.kind) \in Ended
    BY StateBrought
  <2>2. StateOf(e.kind) # "none"
    BY <2>1 DEF Ended
  <2>. QED
    BY <2>1, <2>2 DEF HandleEvent, Stale
<1>2. ~lost' /\ ended' = (IF e.turn > ended THEN e.turn ELSE ended)
  BY <1>0 DEF HandleEvent
<1>3. ~active'
  BY <1>0 DEF HandleEvent
<1>4. list' = AskList
  BY <1>0 DEF HandleEvent
<1>5. cards' = {}
  BY <1>0 DEF HandleEvent
<1>. QED
  BY <1>1, <1>2, <1>3, <1>4, <1>5

\* What every other event does to it.
LEMMA OtherHandled ==
    ASSUME NEW e, e.kind \in Kinds \ (Works \union Finals), HandleEvent(e)
    PROVE  /\ shown' = shown /\ (late' <=> late) /\ (lost' <=> lost) /\ op' = op
           /\ ended' = ended /\ cards' = cards /\ list' \in {list, AskList}
           /\ e.kind = "compacting" => active'
           /\ e.kind = "compacted" => (active' <=> e.turn # 0)
           /\ e.kind \notin {"compacting", "compacted"} => active' = active
<1>0. e.kind \notin {"started", "asked", "resolved"} /\ e.kind \notin Finals
  BY DEF Works
<1>1. shown' = shown /\ (late' <=> late) /\ op' = op
  <2>1. StateOf(e.kind) = "none"
    BY StateBrought
  <2>. QED
    BY <2>1 DEF HandleEvent
<1>2. (lost' <=> lost) /\ ended' = ended
  BY <1>0 DEF HandleEvent
<1>3. /\ e.kind = "compacting" => active'
      /\ e.kind = "compacted" => (active' <=> e.turn # 0)
      /\ e.kind \notin {"compacting", "compacted"} => active' = active
  BY <1>0 DEF HandleEvent
<1>4. list' \in {list, AskList}
  BY <1>0 DEF HandleEvent
<1>5. cards' = cards
  BY <1>0 DEF HandleEvent
<1>. QED
  BY <1>1, <1>2, <1>3, <1>4, <1>5

\* Every event is of one of these sorts; the flags stay Boolean.
LEMMA FlagsHandled ==
    ASSUME TypeOK, NEW e, e.kind \in Kinds, HandleEvent(e)
    PROVE  late' \in BOOLEAN /\ lost' \in BOOLEAN /\ active' \in BOOLEAN
<1>1. late' \in BOOLEAN /\ lost' \in BOOLEAN
  BY DEF HandleEvent
<1>2. active \in BOOLEAN
  BY DEF TypeOK, WindowTypes
<1>3. active' \in BOOLEAN
  BY <1>2 DEF HandleEvent
<1>. QED
  BY <1>1, <1>3

\* A step that leaves the window alone, and what else a step leaves alone.
Unseen == UNCHANGED <<viewvars, busy, list, op>>

\* The host's steps but those that answer the window.
LEMMA HostUnseen ==
    /\ Dispatch \/ Reopen \/ TurnStarted \/ Message \/ Asked \/ Compacting \/ Compacted \/ Withdrawn => Unseen
    /\ \A status \in Outcomes : EndTurn(status) => Unseen
  BY DEF Unseen, Dispatch, Reopen, TurnStarted, Message, Asked, Compacting, Compacted, Withdrawn, EndTurn

\* The types of the window are kept.
LEMMA WindowTypesKept ==
    ASSUME ViewAssumption, TypeOK, HostOK, Order, Next
    PROVE  WindowTypes'
<1>t. /\ shown \in States /\ cards \subseteq 0..MaxExtras /\ ended \in 0..MaxSends
      /\ op \in [Commands -> OpRecord] /\ list \in ListRecord /\ Stale \in [Commands -> OpRecord]
      /\ NoOp \in OpRecord /\ NoList \in ListRecord /\ AskList \in ListRecord /\ Changed \in ListRecord
      /\ row \in States /\ "interrupted" \in States
      /\ turns \in 0..MaxSends /\ MaxSends \in Nat /\ MaxExtras \in Nat
  BY WindowRecords DEF TypeOK, WindowTypes, HostTypes, ViewAssumption
<1>b. active \in BOOLEAN /\ busy \in BOOLEAN /\ late \in BOOLEAN /\ lost \in BOOLEAN
  BY DEF TypeOK, WindowTypes
<1>w. ASSUME shown' \in States, cards' \subseteq 0..MaxExtras, ended' \in 0..MaxSends,
             active' \in BOOLEAN, busy' \in BOOLEAN, late' \in BOOLEAN, lost' \in BOOLEAN,
             op' \in [Commands -> OpRecord], list' \in ListRecord
      PROVE  WindowTypes'
  BY <1>w DEF WindowTypes, OpRecord, ListRecord
<1>v. ASSUME UNCHANGED viewvars, busy' \in BOOLEAN, op' \in [Commands -> OpRecord], list' \in ListRecord
      PROVE  WindowTypes'
  BY <1>t, <1>b, <1>w, <1>v
<1>1. CASE Unseen
  BY <1>t, <1>b, <1>v, <1>1 DEF Unseen
<1>2. CASE ListRead
  <2>1. list' \in ListRecord
    BY <1>t, <1>2 DEF ListRead, ListRecord
  <2>. QED
    BY <1>t, <1>b, <1>v, <1>2, <2>1 DEF ListRead
<1>3. CASE AdmitSend
  <2>1. op' = [op EXCEPT !["send"].at = "admitted"] \/ op' = [op EXCEPT !["send"].at = "refused"]
    BY <1>3 DEF AdmitSend
  <2>2. op' \in [Commands -> OpRecord]
    BY <1>t, <2>1 DEF OpRecord
  <2>. QED
    BY <1>t, <1>b, <1>v, <1>3, <2>2 DEF AdmitSend
<1>4. ASSUME NEW c \in {"send", "rename"}, ReadRow(c) PROVE WindowTypes'
  <2>1. op' = [op EXCEPT ![c].at = "done", ![c].value = row] /\ UNCHANGED <<viewvars, busy, list>>
    BY <1>4 DEF ReadRow
  <2>2. op' \in [Commands -> OpRecord]
    BY <1>t, <2>1 DEF OpRecord
  <2>. QED
    BY <1>t, <1>b, <1>v, <2>1, <2>2
<1>5. CASE AcceptStop
  <2>1. op' = [op EXCEPT !["stop"].at = "done"] /\ UNCHANGED <<viewvars, busy, list>>
    BY <1>5 DEF AcceptStop
  <2>2. op' \in [Commands -> OpRecord]
    BY <1>t, <2>1 DEF OpRecord
  <2>. QED
    BY <1>t, <1>b, <1>v, <2>1, <2>2
<1>6. CASE AcceptAnswer
  <2>1. op' = [op EXCEPT !["answer"].at = "done"] \/ op' = [op EXCEPT !["answer"].at = "refused"]
    BY <1>6 DEF AcceptAnswer
  <2>2. UNCHANGED <<viewvars, busy, list>>
    BY <1>6 DEF AcceptAnswer
  <2>3. op' \in [Commands -> OpRecord]
    BY <1>t, <2>1 DEF OpRecord
  <2>. QED
    BY <1>t, <1>b, <1>v, <2>2, <2>3
<1>7. CASE Arrives
  <2> DEFINE e == Head(sent)
  <2>1. /\ HandleEvent(e) /\ e.kind \in Kinds /\ e.ask \in 0..MaxExtras /\ e.turn \in 0..MaxSends
        /\ busy' = busy
    BY <1>7, Handling, Receiving, EventNumbers
  <2> HIDE DEF e
  <2>2. late' \in BOOLEAN /\ lost' \in BOOLEAN /\ active' \in BOOLEAN
    BY <2>1, FlagsHandled
  <2>3. CASE e.kind \in Works
    <3>1. /\ shown' \in States /\ cards' \subseteq 0..MaxExtras
      <4>1. /\ shown' \in {"running", "waiting"}
            /\ cards' \in {cards, cards \union {e.ask}, cards \ {e.ask}}
        BY <2>1, <2>3, WorkHandled DEF Works
      <4>. QED
        BY <1>t, <2>1, <4>1 DEF States
    <3>2. ended' = ended /\ op' = Stale /\ list' = Changed
      BY <2>1, <2>3, WorkHandled
    <3>. QED
      BY <1>t, <1>b, <1>w, <2>1, <2>2, <3>1, <3>2
  <2>4. CASE e.kind \in Finals
    <3>1. shown' \in States /\ cards' \subseteq 0..MaxExtras /\ ended' \in 0..MaxSends
      BY <1>t, <2>1, <2>4, FinalHandled DEF States
    <3>2. op' = Stale /\ list' = AskList
      BY <2>1, <2>4, FinalHandled
    <3>. QED
      BY <1>t, <1>b, <1>w, <2>1, <2>2, <3>1, <3>2
  <2>5. CASE e.kind \in Kinds \ (Works \union Finals)
    <3>1. shown' = shown /\ cards' = cards /\ ended' = ended /\ op' = op /\ list' \in {list, AskList}
      BY <2>1, <2>5, OtherHandled
    <3>. QED
      BY <1>t, <1>b, <1>w, <2>1, <2>2, <3>1
  <2>. QED
    BY <2>1, <2>3, <2>4, <2>5
<1>8. ASSUME NEW i \in 1..Len(past), ArrivesAgain(i) PROVE Unseen
  BY <1>8, AgainNothing DEF Unseen
<1>9. CASE Refresh
  BY <1>t, <1>b, <1>v, <1>9 DEF Refresh
<1>10. CASE ListArrives
  <2>1. /\ shown' = Reconcile(shown, list.value, list.clean) /\ late' = (late /\ ~list.clean)
        /\ list' = NoList /\ UNCHANGED <<cards, active, busy, op, ended, lost>>
    BY <1>10 DEF ListArrives
  <2>2. list.value \in States
    BY <1>t DEF ListRecord
  <2>3. shown' \in States
    BY <1>t, <2>1, <2>2 DEF Reconcile
  <2>4. late' \in BOOLEAN
    BY <2>1
  <2>. QED
    BY <1>t, <1>b, <1>w, <2>1, <2>3, <2>4
<1>11. CASE Submit
  <2>1. op' = [op EXCEPT !["send"].at = "checking"] /\ UNCHANGED <<viewvars, busy, list>>
    BY <1>11 DEF Submit
  <2>2. op' \in [Commands -> OpRecord]
    BY <1>t, <2>1 DEF OpRecord
  <2>. QED
    BY <1>t, <1>b, <1>v, <2>1, <2>2
<1>12. CASE Send
  <2>1. /\ op' = [op EXCEPT !["send"] = [NoOp EXCEPT !.at = "asked", !.fresh = TRUE]] /\ busy' \in BOOLEAN
        /\ UNCHANGED <<viewvars, list>>
    BY <1>12 DEF Send
  <2>2. [NoOp EXCEPT !.at = "asked", !.fresh = TRUE] \in OpRecord
    BY <1>t DEF OpRecord
  <2>3. op' \in [Commands -> OpRecord]
    BY <1>t, <2>1, <2>2
  <2>. QED
    BY <1>t, <1>b, <1>v, <2>1, <2>3
<1>13. ASSUME NEW c \in Commands \ {"send"}, Ask(c) PROVE WindowTypes'
  <2>1. PICK n \in IF c = "answer" THEN cards ELSE {turns} :
          op' = [op EXCEPT ![c] = [NoOp EXCEPT !.at = "asked", !.about = n]]
    BY <1>13 DEF Ask
  <2>2. n \in Nat
    BY <1>t, <2>1
  <2>3. [NoOp EXCEPT !.at = "asked", !.about = n] \in OpRecord
    BY <1>t, <2>2 DEF OpRecord
  <2>4. op' \in [Commands -> OpRecord]
    BY <1>t, <2>1, <2>3
  <2>5. busy' \in BOOLEAN /\ UNCHANGED <<viewvars, list>>
    BY <1>13 DEF Ask
  <2>. QED
    BY <1>t, <1>b, <1>v, <2>4, <2>5
<1>14. CASE SendArrives
  <2>1. /\ shown' = Receipt(op["send"]) /\ late' = (late /\ ~op["send"].fresh) /\ list' = Changed
        /\ op' = [op EXCEPT !["send"] = [NoOp EXCEPT !.at = "reading"]]
        /\ UNCHANGED <<cards, active, busy, ended, lost>>
    BY <1>14 DEF SendArrives
  <2>2. [NoOp EXCEPT !.at = "reading"] \in OpRecord
    BY <1>t DEF OpRecord
  <2>3. op' \in [Commands -> OpRecord]
    BY <1>t, <2>1, <2>2
  <2>4. op["send"].value \in States
    BY <1>t DEF OpRecord, Commands
  <2>5. shown' \in States
    BY <1>t, <2>1, <2>4 DEF Receipt
  <2>6. late' \in BOOLEAN
    BY <2>1
  <2>. QED
    BY <1>t, <1>b, <1>w, <2>1, <2>3, <2>5, <2>6
<1>15. CASE StopArrives
  <2>1. /\ shown' = "interrupted" /\ cards' = {} /\ list' = Changed
        /\ op' = [op EXCEPT !["stop"].at = "reading"] /\ UNCHANGED <<active, busy, ended>>
    BY <1>15 DEF StopArrives
  <2>2. op' \in [Commands -> OpRecord]
    BY <1>t, <2>1 DEF OpRecord
  <2>3. late' \in BOOLEAN /\ lost' \in BOOLEAN
    BY <1>15 DEF StopArrives
  <2>. QED
    BY <1>t, <1>b, <1>w, <2>1, <2>2, <2>3
<1>16. CASE RenameArrives
  <2>1. /\ shown' = op["rename"].value /\ list' = Changed /\ op' = [op EXCEPT !["rename"] = NoOp]
        /\ UNCHANGED <<cards, active, ended, lost>>
    BY <1>16 DEF RenameArrives
  <2>2. op["rename"].value \in States
    BY <1>t DEF OpRecord, Commands
  <2>3. op' \in [Commands -> OpRecord]
    BY <1>t, <2>1
  <2>4. late' \in BOOLEAN /\ busy' \in BOOLEAN
    BY <1>16 DEF RenameArrives
  <2>. QED
    BY <1>t, <1>b, <1>w, <2>1, <2>2, <2>3, <2>4
<1>17. CASE AnswerArrives
  <2>1. /\ cards' = cards \ {op["answer"].about} /\ op' = [op EXCEPT !["answer"] = NoOp]
        /\ UNCHANGED <<shown, active, ended, late, lost, list>>
    BY <1>17 DEF AnswerArrives
  <2>2. op' \in [Commands -> OpRecord] /\ cards' \subseteq 0..MaxExtras
    BY <1>t, <2>1
  <2>3. busy' \in BOOLEAN
    BY <1>17 DEF AnswerArrives
  <2>. QED
    BY <1>t, <1>b, <1>w, <2>1, <2>2, <2>3
<1>18. ASSUME NEW c \in {"send", "stop", "answer"}, Finish(c) PROVE WindowTypes'
  <2>1. op' = [op EXCEPT ![c] = NoOp] /\ busy' \in BOOLEAN /\ UNCHANGED <<viewvars, list>>
    BY <1>18 DEF Finish
  <2>2. op' \in [Commands -> OpRecord]
    BY <1>t, <2>1
  <2>. QED
    BY <1>t, <1>b, <1>v, <2>1, <2>2
<1>. QED
  BY <1>1, <1>2, <1>3, <1>4, <1>5, <1>6, <1>7, <1>8, <1>9, <1>10, <1>11, <1>12, <1>13, <1>14, <1>15,
     <1>16, <1>17, <1>18, HostUnseen DEF Next

----------------------------------------------------------------------------
(* The window's requests, one at a time.                                   *)

\* The requests of the other commands are what they were.
Others(c) == \A d \in Commands \ {c} : op'[d] = op[d]

\* A request gets on.
LEMMA OpAt ==
    ASSUME TypeOK, NEW c \in Commands, NEW x, op' = [op EXCEPT ![c].at = x]
    PROVE  /\ Others(c)
           /\ op'[c].at = x /\ op'[c].value = op[c].value /\ op'[c].fresh = op[c].fresh
           /\ op'[c].about = op[c].about
<1>1. op \in [Commands -> OpRecord]
  BY WindowRecords
<1>2. op'[c] = [op[c] EXCEPT !.at = x] /\ op[c] \in OpRecord
  BY <1>1
<1>. QED
  BY <1>1, <1>2 DEF Others, OpRecord

\* A request begins or ends.
LEMMA OpNew ==
    ASSUME TypeOK, NEW c \in Commands, NEW r, op' = [op EXCEPT ![c] = r]
    PROVE  Others(c) /\ op'[c] = r
  BY WindowRecords DEF Others

LEMMA NoOpFields == NoOp.at = "none" /\ NoOp.value = "idle" /\ NoOp.fresh = FALSE /\ NoOp.about = 0
  BY DEF NoOp

\* An event that brings a state makes the receipt of a send stale, and nothing else.
LEMMA StaleFields ==
    ASSUME TypeOK, op' = Stale
    PROVE  /\ Others("send") /\ ~op'["send"].fresh
           /\ \A d \in Commands : /\ op'[d].at = op[d].at /\ op'[d].value = op[d].value
                                  /\ op'[d].about = op[d].about
<1>1. op \in [Commands -> OpRecord] /\ "send" \in Commands
  BY WindowRecords DEF Commands
<1>2. op'["send"] = [op["send"] EXCEPT !.fresh = FALSE] /\ op["send"] \in OpRecord
  BY <1>1 DEF Stale
<1>3. Others("send")
  BY <1>1 DEF Stale, Others
<1>4. /\ ~op'["send"].fresh /\ op'["send"].at = op["send"].at /\ op'["send"].value = op["send"].value
      /\ op'["send"].about = op["send"].about
  BY <1>2 DEF OpRecord
<1>. QED
  BY <1>3, <1>4 DEF Others

----------------------------------------------------------------------------
(* The steps, by what they do to the host.                                 *)

\* An event that says that the turn goes on.
WorkStep ==
    \E kind \in Works, ask \in 0..MaxExtras :
      /\ Told(kind, ask)
      /\ begun # "over" /\ begun' = "begun"
      /\ \/ kind = "started" /\ ask = 0 /\ UNCHANGED <<open, extras>> /\ op' = op
         \/ kind = "asked" /\ ask = extras + 1 /\ extras' = ask /\ open' = open \union {ask} /\ op' = op
         \/ /\ kind = "resolved" /\ ask \in open /\ open' = open \ {ask} /\ UNCHANGED extras
            /\ op' = op \/ (op["answer"].about = ask /\ op' = [op EXCEPT !["answer"].at = "done"])
      /\ UNCHANGED <<turns, gen, paused, compacting, viewvars, busy, list>>

\* The end of the turn.
FinalStep ==
    \E kind \in Finals :
      /\ Told(kind, 0)
      /\ begun # "over" /\ begun' = "over" /\ open' = {} /\ (paused => paused')
      /\ UNCHANGED <<turns, gen, extras, compacting, viewvars, busy, list, op>>

\* Another event.
OtherStep ==
    \E kind \in Kinds \ (Works \union Finals), g \in 1..MaxGens, n \in 1..clock + 1 :
      /\ Tell(kind, 0, g, n)
      /\ \/ kind \in {"opened", "message"} /\ compacting' = compacting
         \/ kind = "compacting" /\ compacting' # 0
         \/ kind = "compacted"
      /\ extras' \in {extras, extras + 1}
      /\ UNCHANGED <<turns, paused, begun, open, viewvars, busy, list, op>>

\* A turn starts.
StartStep ==
    /\ StartTurn /\ begun = "over"
    /\ \/ op' = op /\ paused' = paused
       \/ op["send"].at = "asked" /\ op' = [op EXCEPT !["send"].at = "admitted"]
    /\ UNCHANGED <<gen, extras, open, compacting, viewvars, busy, list>>

\* A command is refused.
RefuseStep ==
    /\ \/ op["send"].at = "asked" /\ op' = [op EXCEPT !["send"].at = "refused"]
       \/ op["answer"].at = "asked" /\ op' = [op EXCEPT !["answer"].at = "refused"]
    /\ UNCHANGED <<rowvars, viewvars, busy, list>>

\* What the steps of the host are.
LEMMA HostSteps ==
    ASSUME ViewAssumption, TypeOK, HostOK
    PROVE  /\ TurnStarted \/ Asked \/ Withdrawn => WorkStep
           /\ \A status \in Outcomes : EndTurn(status) => FinalStep
           /\ Reopen \/ Message \/ Compacting \/ Compacted => OtherStep
           /\ Dispatch => StartStep
           /\ AdmitSend => StartStep \/ RefuseStep
           /\ AcceptAnswer => WorkStep \/ RefuseStep
<1>t. /\ gen \in 1..MaxGens /\ seq + 1 \in 1..clock + 1 /\ 0 \in 0..MaxExtras /\ 1 \in 1..clock + 1
      /\ MaxExtras \in Nat /\ extras \in 0..MaxExtras /\ open \subseteq 1..MaxExtras /\ MaxGens \in Nat
  BY DEF ViewAssumption, TypeOK, HostTypes, HostOK
<1>1. ASSUME TurnStarted PROVE WorkStep
  BY <1>t, <1>1 DEF TurnStarted, WorkStep, Works
<1>2. ASSUME Asked PROVE WorkStep
  <2>1. /\ begun = "begun" /\ begun' = begun /\ extras' = extras + 1 /\ Told("asked", extras')
        /\ open' = open \union {extras'} /\ op' = op
        /\ UNCHANGED <<turns, gen, paused, compacting, viewvars, busy, list>>
    BY <1>2 DEF Asked
  <2>2. extras' \in 0..MaxExtras
    BY <1>t, <1>2 DEF Asked
  <2>. QED
    BY <2>1, <2>2 DEF WorkStep, Works
<1>3. ASSUME Withdrawn PROVE WorkStep
  <2>1. PICK ask \in open : Resolve(ask)
    BY <1>3 DEF Withdrawn
  <2>2. ask \in 0..MaxExtras /\ begun = "begun"
    BY <1>t, <2>1 DEF HostOK
  <2>. QED
    BY <1>3, <2>1, <2>2 DEF Withdrawn, Resolve, WorkStep, Works
<1>4. ASSUME NEW status \in Outcomes, EndTurn(status) PROVE FinalStep
  <2>1. status \in Finals
    BY DEF ViewAssumption
  <2>. QED
    BY <1>4, <2>1 DEF EndTurn, FinalStep
<1>k. {"opened", "message", "compacting", "compacted"} \subseteq Kinds \ (Works \union Finals)
  BY DEF Kinds, Works, Finals
<1>5. ASSUME Reopen PROVE OtherStep
  <2>1. gen' \in 1..MaxGens
    BY <1>t, <1>5 DEF Reopen
  <2>. QED
    BY <1>t, <1>k, <1>5, <2>1 DEF Reopen, OtherStep
<1>6. ASSUME Message PROVE OtherStep
  BY <1>t, <1>k, <1>6 DEF Message, Told, OtherStep
<1>7. ASSUME Compacting PROVE OtherStep
  BY <1>t, <1>k, <1>7 DEF Compacting, Told, OtherStep
<1>8. ASSUME Compacted PROVE OtherStep
  BY <1>t, <1>k, <1>8 DEF Compacted, Told, OtherStep
<1>9. ASSUME Dispatch PROVE StartStep
  BY <1>9 DEF Dispatch, StartStep, HostOK, Running
<1>10. ASSUME AdmitSend PROVE StartStep \/ RefuseStep
  BY <1>10 DEF AdmitSend, StartStep, RefuseStep, HostOK, Running, Silent
<1>11. ASSUME AcceptAnswer PROVE WorkStep \/ RefuseStep
  <2>1. CASE Resolve(op["answer"].about) /\ op' = [op EXCEPT !["answer"].at = "done"]
    <3>1. op["answer"].about \in open /\ op["answer"].about \in 0..MaxExtras /\ begun = "begun"
      BY <1>t, <2>1 DEF Resolve, HostOK
    <3>. QED
      BY <1>11, <2>1, <3>1 DEF AcceptAnswer, Resolve, WorkStep, Works
  <2>. QED
    BY <1>11, <2>1 DEF AcceptAnswer, RefuseStep, Silent
<1>. QED
  BY <1>1, <1>2, <1>3, <1>4, <1>5, <1>6, <1>7, <1>8, <1>9, <1>10, <1>11

\* The event that is told.
LEMMA TellEvent ==
    ASSUME ViewAssumption, TypeOK, HostOK, NEW kind \in Kinds, NEW ask \in 0..MaxExtras,
           NEW g \in 1..MaxGens, NEW n \in 1..clock + 1, Tell(kind, ask, g, n)
    PROVE  sent \in Seq(Wire) /\ \E e \in Wire : /\ sent' = Append(sent, e) /\ e.kind = kind /\ e.ask = ask
                                                 /\ e.turn = IF begun = "over" THEN 0 ELSE turns
<1>1. /\ NewEvent(kind, ask, g, n) \in Wire /\ sent' = Append(sent, NewEvent(kind, ask, g, n))
      /\ sent \in Seq(Wire)
  BY Telling DEF HostOK
<1>. QED
  BY <1>1 DEF NewEvent

LEMMA ToldEvent ==
    ASSUME ViewAssumption, TypeOK, HostOK, NEW kind \in Kinds, NEW ask \in 0..MaxExtras, Told(kind, ask)
    PROVE  sent \in Seq(Wire) /\ \E e \in Wire : /\ sent' = Append(sent, e) /\ e.kind = kind /\ e.ask = ask
                                                 /\ e.turn = IF begun = "over" THEN 0 ELSE turns
<1>1. gen \in 1..MaxGens /\ seq + 1 \in 1..clock + 1
  BY DEF TypeOK, HostTypes, HostOK
<1>. QED
  BY <1>1, TellEvent DEF Told

\* The sorts of events.
LEMMA Sorts ==
    /\ Works \subseteq Kinds /\ Finals \subseteq Kinds /\ Works \intersect Finals = {}
    /\ {"compacting", "compacted"} \subseteq Kinds \ (Works \union Finals)
  BY DEF Works, Finals, Kinds

----------------------------------------------------------------------------
(* The state that is shown.                                                *)

\* What the window knows of the state of a session is what the row is, but for the events
\* on their way and a receipt that came too late.
LEMMA StateKept ==
    ASSUME ViewAssumption, TypeOK, HostOK, HostOK', Order, StateOK, Next
    PROVE  StateOK'
<1>r. (Running(row) <=> begun # "over") /\ (Running(row') <=> begun' # "over")
  BY DEF HostOK
<1>o. turns \in Nat /\ op["stop"].about \in Nat
  BY WindowRecords DEF TypeOK, HostTypes, ViewAssumption, OpRecord, Commands
<1>c. /\ \A c \in {"send", "stop", "answer", "rename"} : c \in Commands
      /\ NoOp.at = "none"
  BY NoOpFields DEF Commands
<1>b. \A state : Running(state) \in BOOLEAN
  BY DEF Running
<1>h. ASSUME UNCHANGED <<row, turns, begun, sent, shown, late, list>>, paused => paused',
             op'["send"] = op["send"], op'["stop"] = op["stop"]
      PROVE  StateOK'
  BY <1>h DEF StateOK
<1>s. ASSUME UNCHANGED <<row, turns, begun, sent, shown, late, paused, list>>, op'["send"].at # "done",
             op'["stop"] = op["stop"]
      PROVE  StateOK'
  BY <1>s DEF StateOK
<1>1. CASE WorkStep
  <2>1. PICK kind \in Works, ask \in 0..MaxExtras :
          /\ Told(kind, ask) /\ begun' = "begun" /\ UNCHANGED <<turns, paused>>
          /\ op' = op \/ op' = [op EXCEPT !["answer"].at = "done"]
    BY <1>1 DEF WorkStep
  <2>2. PICK e \in Wire : sent \in Seq(Wire) /\ sent' = Append(sent, e) /\ e.kind = kind
    BY <2>1, ToldEvent, Sorts
  <2>3. e \in Stateful /\ e \in Of(Works)
    BY <2>2, Sorts DEF Stateful, Of
  <2>4. LastIn(sent', Stateful, Of(Works)) /\ ~NoneIn(sent', Stateful)
    BY <2>2, <2>3, AppendIn
  <2>5. op'["stop"] = op["stop"]
    BY <1>c, <2>1, OpAt DEF Others
  <2>. QED
    BY <2>1, <2>4, <2>5 DEF StateOK
<1>2. CASE FinalStep
  <2>1. PICK kind \in Finals : /\ Told(kind, 0) /\ begun' = "over" /\ (paused => paused')
                               /\ UNCHANGED <<turns, op>>
    BY <1>2 DEF FinalStep
  <2>2. PICK e \in Wire : sent \in Seq(Wire) /\ sent' = Append(sent, e) /\ e.kind = kind
    <3>1. 0 \in 0..MaxExtras
      BY DEF ViewAssumption
    <3>. QED
      BY <2>1, <3>1, ToldEvent, Sorts
  <2>3. e \in Stateful /\ e \in Of(Finals)
    BY <2>2, Sorts DEF Stateful, Of
  <2>4. LastIn(sent', Stateful, Of(Finals)) /\ ~NoneIn(sent', Stateful)
    BY <2>2, <2>3, AppendIn
  <2>. QED
    BY <2>1, <2>4 DEF StateOK
<1>3. CASE OtherStep
  <2>1. PICK kind \in Kinds \ (Works \union Finals), g \in 1..MaxGens, n \in 1..clock + 1 :
          Tell(kind, 0, g, n) /\ UNCHANGED <<turns, paused, begun, viewvars, list, op>>
    BY <1>3 DEF OtherStep
  <2>2. PICK e \in Wire : sent \in Seq(Wire) /\ sent' = Append(sent, e) /\ e.kind = kind
    <3>1. 0 \in 0..MaxExtras
      BY DEF ViewAssumption
    <3>. QED
      BY <2>1, <3>1, TellEvent
  <2>3. e \notin Stateful
    BY <2>2 DEF Stateful, Of
  <2>4. /\ \A A : LastIn(sent', Stateful, A) <=> LastIn(sent, Stateful, A)
        /\ NoneIn(sent', Stateful) <=> NoneIn(sent, Stateful)
    BY <2>2, <2>3, AppendOut
  <2>5. LastIn(sent', Stateful, IF begun' = "begun" THEN Of(Works) ELSE Of(Finals))
    BY <2>1, <2>4 DEF StateOK
  <2>6. /\ UNCHANGED <<turns, paused, begun, shown, list, op>> /\ (late' <=> late)
        /\ Running(row') = Running(row)
    BY <1>b, <1>r, <2>1
  <2>. QED
    BY <2>4, <2>5, <2>6 DEF StateOK
<1>4. CASE StartStep
  <2>1. begun = "over" /\ begun' = "no" /\ turns' = turns + 1 /\ UNCHANGED <<sent, shown, late, list>>
    BY <1>4 DEF StartStep, StartTurn, Silent
  <2>2. op'["stop"] = op["stop"]
    <3>1. op' = op \/ op' = [op EXCEPT !["send"].at = "admitted"]
      BY <1>4 DEF StartStep
    <3>. QED
      BY <1>c, <3>1, OpAt DEF Others
  <2>. QED
    BY <1>o, <2>1, <2>2 DEF StateOK
<1>5. CASE RefuseStep
  <2>1. UNCHANGED <<row, turns, begun, sent, shown, late, paused, list>>
    BY <1>5 DEF RefuseStep
  <2>2. CASE op' = [op EXCEPT !["send"].at = "refused"]
    <3>1. op'["send"].at = "refused" /\ op'["stop"] = op["stop"]
      <4>1. "send" \in Commands /\ "stop" \in Commands \ {"send"}
        BY DEF Commands
      <4>2. Others("send") /\ op'["send"].at = "refused"
        BY <2>2, <4>1, OpAt
      <4>. QED
        BY <4>1, <4>2 DEF Others
    <3>2. op'["send"].at # "done"
      BY <3>1
    <3>. QED
      BY <1>s, <2>1, <3>1, <3>2
  <2>3. CASE op' = [op EXCEPT !["answer"].at = "refused"]
    <3>1. op'["send"] = op["send"] /\ op'["stop"] = op["stop"]
      BY <1>c, <2>3, OpAt DEF Others
    <3>. QED
      BY <1>h, <2>1, <3>1
  <2>. QED
    BY <1>5, <2>2, <2>3 DEF RefuseStep
<1>6. CASE ListRead
  <2>1. /\ list' = [list EXCEPT !.at = "read", !.value = row]
        /\ UNCHANGED <<row, turns, begun, sent, shown, late, paused, op>>
    BY <1>6 DEF ListRead
  <2>2. list'.value = row
    BY <2>1, WindowRecords DEF ListRecord
  <2>. QED
    BY <2>1, <2>2 DEF StateOK
<1>7. ASSUME NEW c \in {"send", "rename"}, ReadRow(c) PROVE StateOK'
  <2>1. /\ op' = [op EXCEPT ![c].at = "done", ![c].value = row]
        /\ UNCHANGED <<row, turns, begun, sent, shown, late, paused, list>>
    BY <1>7 DEF ReadRow
  <2>2. op'["stop"] = op["stop"] /\ (op'["send"] = op["send"] \/ op'["send"].value = row)
    <3>1. op \in [Commands -> OpRecord] /\ {"send", "stop", "rename"} \subseteq Commands
      BY WindowRecords DEF Commands
    <3>2. op'["stop"] = op["stop"] /\ (c = "rename" => op'["send"] = op["send"])
      BY <2>1, <3>1
    <3>3. c = "send" => op'["send"].value = row
      BY <2>1, <3>1 DEF OpRecord
    <3>. QED
      BY <3>2, <3>3
  <2>. QED
    BY <2>1, <2>2 DEF StateOK
<1>8. CASE AcceptStop
  <2>1. /\ op' = [op EXCEPT !["stop"].at = "done"] /\ paused'
        /\ op["stop"].at = "asked" /\ UNCHANGED <<row, turns, begun, sent, shown, late, list>>
    BY <1>8 DEF AcceptStop, Silent
  <2>2. op'["stop"].about = op["stop"].about /\ op'["send"] = op["send"]
    BY <1>c, <2>1, OpAt DEF Others
  <2>. QED
    BY <2>1, <2>2 DEF StateOK
<1>9. CASE Arrives
  <2> DEFINE e == Head(sent)
  <2>1. /\ HandleEvent(e) /\ e.kind \in Kinds /\ UNCHANGED <<row, turns, begun, paused>>
    BY <1>9, Handling, Receiving, EventNumbers
  <2>2. sent \in Seq(Wire) /\ sent # <<>> /\ sent' = Tail(sent) /\ e \in Wire
    BY <1>9, Receiving, TailFacts
  <2> DEFINE A == IF begun = "begun" THEN Of(Works) ELSE Of(Finals)
  <2>3. LastIn(sent, Stateful, A)
    BY DEF StateOK
  <2>4. /\ LastIn(sent', Stateful, A)
        /\ NoneIn(sent', Stateful) => (e \in Stateful /\ e \in A) \/ (e \notin Stateful /\ NoneIn(sent, Stateful))
    BY <2>2, <2>3, TailLast
  <2>5. e \in Stateful <=> e.kind \in Works \union Finals
    BY <2>2 DEF Stateful, Of
  <2>6. e \in A => (e.kind \in Works <=> begun = "begun")
    BY <2>2, Sorts DEF Of
  <2> HIDE DEF e, A
  <2>7. LastIn(sent', Stateful, IF begun' = "begun" THEN Of(Works) ELSE Of(Finals))
    BY <2>1, <2>4 DEF A
  <2>8. op'["stop"].at = op["stop"].at /\ op'["stop"].about = op["stop"].about
    <3>1. op' = op \/ op' = Stale
      BY <2>1, WorkHandled, FinalHandled, OtherHandled
    <3>. QED
      BY <1>c, <3>1, StaleFields
  <2>9. CASE e.kind \in Works
    <3>1. shown' \in {"running", "waiting"} /\ op' = Stale /\ list' = Changed
      BY <2>1, <2>9, WorkHandled
    <3>2. Running(shown') /\ ~op'["send"].fresh /\ ~list'.clean
      BY <3>1, StaleFields, WindowRecords DEF Running, Ended, Changed, ListRecord
    <3>3. NoneIn(sent', Stateful) => begun = "begun"
      BY <2>4, <2>5, <2>6, <2>9
    <3>. QED
      BY <1>r, <2>1, <2>7, <2>8, <3>2, <3>3 DEF StateOK
  <2>10. CASE e.kind \in Finals
    <3>1. shown' \in Ended /\ op' = Stale /\ list' = AskList
      BY <2>1, <2>10, FinalHandled
    <3>2. ~Running(shown') /\ ~op'["send"].fresh /\ list'.at = "asked"
      BY <3>1, StaleFields DEF Running, AskList
    <3>3. NoneIn(sent', Stateful) => begun # "begun"
      BY <2>4, <2>5, <2>6, <2>10, Sorts
    <3>4. begun \in {"no", "begun", "over"}
      BY DEF TypeOK, HostTypes
    <3>5. NoneIn(sent', Stateful) /\ begun' # "no" => Running(shown') = Running(row')
      BY <1>b, <1>r, <2>1, <3>2, <3>3, <3>4
    <3>6. list'.at # "read"
      BY <3>2
    <3>. QED
      BY <2>1, <2>7, <2>8, <3>2, <3>5, <3>6 DEF StateOK
  <2>11. CASE e.kind \in Kinds \ (Works \union Finals)
    <3>1. shown' = shown /\ (late' <=> late) /\ op' = op /\ list' \in {list, AskList}
      BY <2>1, <2>11, OtherHandled
    <3>2. NoneIn(sent', Stateful) => NoneIn(sent, Stateful)
      BY <2>4, <2>5, <2>11
    <3>3. AskList.at = "asked"
      BY DEF AskList
    <3>. QED
      BY <2>1, <2>7, <3>1, <3>2, <3>3 DEF StateOK
  <2>. QED
    BY <2>1, <2>9, <2>10, <2>11
<1>10. ASSUME NEW i \in 1..Len(past), ArrivesAgain(i) PROVE StateOK'
  BY <1>h, <1>10, AgainNothing
<1>11. CASE Refresh
  <2>1. list'.at = "asked"
    BY <1>11 DEF Refresh, AskList
  <2>. QED
    BY <1>11, <2>1 DEF Refresh, StateOK
<1>12. CASE ListArrives
  <2>1. /\ list.at = "read" /\ list' = NoList /\ shown' = (IF list.clean THEN list.value ELSE shown)
        /\ late' = (late /\ ~list.clean) /\ UNCHANGED <<row, turns, begun, sent, paused, op>>
    BY <1>12 DEF ListArrives, Reconcile
  <2>2. list'.at = "none"
    BY <2>1 DEF NoList
  <2>. QED
    BY <2>1, <2>2 DEF StateOK
<1>13. CASE Submit
  <2>1. op' = [op EXCEPT !["send"].at = "checking"]
        /\ UNCHANGED <<row, turns, begun, sent, shown, late, paused, list>>
    BY <1>13 DEF Submit
  <2>2. op'["send"].at = "checking" /\ op'["stop"] = op["stop"]
    <3>1. "send" \in Commands /\ "stop" \in Commands \ {"send"}
      BY DEF Commands
    <3>2. Others("send") /\ op'["send"].at = "checking"
      BY <2>1, <3>1, OpAt
    <3>. QED
      BY <3>1, <3>2 DEF Others
  <2>3. op'["send"].at # "done"
    BY <2>2
  <2>. QED
    BY <1>s, <2>1, <2>2, <2>3
<1>14. CASE Send
  <2>1. op' = [op EXCEPT !["send"] = [NoOp EXCEPT !.at = "asked", !.fresh = TRUE]]
        /\ UNCHANGED <<row, turns, begun, sent, shown, late, paused, list>>
    BY <1>14 DEF Send
  <2>2. [NoOp EXCEPT !.at = "asked", !.fresh = TRUE].at = "asked"
    BY DEF NoOp
  <2>3. op'["send"] = [NoOp EXCEPT !.at = "asked", !.fresh = TRUE] /\ op'["stop"] = op["stop"]
    BY <1>c, <2>1, OpNew DEF Others
  <2>4. op'["send"].at # "done"
    BY <2>2, <2>3
  <2>. QED
    BY <1>s, <2>1, <2>3, <2>4
<1>15. ASSUME NEW c \in Commands \ {"send"}, Ask(c) PROVE StateOK'
  <2>1. PICK n \in IF c = "answer" THEN cards ELSE {turns} :
          op' = [op EXCEPT ![c] = [NoOp EXCEPT !.at = "asked", !.about = n]]
    BY <1>15 DEF Ask
  <2>2. UNCHANGED <<row, turns, begun, sent, shown, late, paused, list>>
    BY <1>15 DEF Ask
  <2>3. op'["send"] = op["send"] /\ op'[c] = [NoOp EXCEPT !.at = "asked", !.about = n]
    BY <1>c, <2>1, OpNew DEF Others
  <2>4. [NoOp EXCEPT !.at = "asked", !.about = n].at = "asked"
        /\ [NoOp EXCEPT !.at = "asked", !.about = n].about = n
    BY DEF NoOp
  <2>5. CASE c = "stop"
    BY <1>o, <2>1, <2>2, <2>3, <2>4, <2>5 DEF StateOK
  <2>6. CASE c # "stop"
    <3>1. op'["stop"] = op["stop"]
      BY <1>c, <2>1, <2>6, OpNew DEF Others
    <3>. QED
      BY <1>h, <2>2, <2>3, <3>1
  <2>. QED
    BY <2>5, <2>6
<1>16. CASE SendArrives
  <2>1. /\ op["send"].at = "done" /\ late' = (late /\ ~op["send"].fresh) /\ list' = Changed
        /\ shown' = (IF op["send"].fresh THEN op["send"].value ELSE shown)
        /\ op' = [op EXCEPT !["send"] = [NoOp EXCEPT !.at = "reading"]]
        /\ UNCHANGED <<row, turns, begun, sent, paused>>
    BY <1>16 DEF SendArrives, Receipt
  <2>2. [NoOp EXCEPT !.at = "reading"].at = "reading"
    BY DEF NoOp
  <2>3. op'["send"].at = "reading" /\ op'["stop"] = op["stop"]
    BY <1>c, <2>1, <2>2, OpNew DEF Others
  <2>4. ~list'.clean
    BY <2>1, WindowRecords DEF Changed, ListRecord
  <2>. QED
    BY <2>1, <2>3, <2>4 DEF StateOK
<1>17. CASE StopArrives
  <2>1. /\ op["stop"].at = "done" /\ shown' = "interrupted" /\ list' = Changed
        /\ late' = (turns > op["stop"].about) /\ op' = [op EXCEPT !["stop"].at = "reading"]
        /\ UNCHANGED <<row, turns, begun, sent, paused>>
    BY <1>17 DEF StopArrives
  <2>2. op'["stop"].at = "reading" /\ op'["stop"].about = op["stop"].about /\ op'["send"] = op["send"]
    <3>1. op' = [op EXCEPT !["stop"].at = "reading"] /\ "stop" \in Commands /\ "send" \in Commands \ {"stop"}
      BY <2>1 DEF Commands
    <3>2. Others("stop") /\ op'["stop"].at = "reading" /\ op'["stop"].about = op["stop"].about
      BY <3>1, OpAt
    <3>. QED
      BY <3>1, <3>2 DEF Others
  <2>3. ~list'.clean /\ ~Running(shown')
    BY <2>1, WindowRecords DEF Changed, ListRecord, Running, Ended
  <2>4. op["stop"].about <= turns /\ (op["stop"].about = turns => paused)
    <3>1. op["stop"].at # "none"
      BY <2>1
    <3>. QED
      BY <2>1, <3>1 DEF StateOK
  <2>5. late' \/ paused
    <3>1. CASE turns > op["stop"].about
      BY <2>1, <3>1
    <3>2. CASE turns = op["stop"].about
      BY <2>4, <3>2
    <3>. QED
      BY <1>o, <2>4, <3>1, <3>2
  <2>6. late' \/ (paused' /\ begun' # "over") \/ Running(shown') = Running(row')
    BY <1>b, <1>r, <2>1, <2>3, <2>5
  <2>7. op'["stop"].at # "done"
    BY <2>2
  <2>. QED
    BY <2>1, <2>2, <2>3, <2>4, <2>6, <2>7 DEF StateOK
<1>18. CASE RenameArrives
  <2>1. /\ shown' = op["rename"].value /\ late' = (op["rename"].value # row) /\ list' = Changed
        /\ op' = [op EXCEPT !["rename"] = NoOp] /\ UNCHANGED <<row, turns, begun, sent, paused>>
    BY <1>18 DEF RenameArrives
  <2>2. op'["stop"] = op["stop"] /\ op'["send"] = op["send"]
    BY <1>c, <2>1, OpNew DEF Others
  <2>3. ~list'.clean
    BY <2>1, WindowRecords DEF Changed, ListRecord
  <2>4. late' \/ Running(shown') = Running(row')
    BY <2>1
  <2>. QED
    BY <2>1, <2>2, <2>3, <2>4 DEF StateOK
<1>19. CASE AnswerArrives
  <2>1. op' = [op EXCEPT !["answer"] = NoOp]
        /\ UNCHANGED <<row, turns, begun, sent, shown, late, paused, list>>
    BY <1>19 DEF AnswerArrives
  <2>. QED
    BY <1>c, <1>h, <2>1, OpNew DEF Others
<1>20. ASSUME NEW c \in {"send", "stop", "answer"}, Finish(c) PROVE StateOK'
  <2>1. op' = [op EXCEPT ![c] = NoOp]
        /\ UNCHANGED <<row, turns, begun, sent, shown, late, paused, list>>
    BY <1>20 DEF Finish
  <2>2. \A d \in Commands : op'[d] = op[d] \/ op'[d].at = "none"
    BY <1>c, <2>1, OpNew DEF Others
  <2>3. (op'["send"] = op["send"] \/ op'["send"].at = "none") /\ (op'["stop"] = op["stop"] \/ op'["stop"].at = "none")
    BY <1>c, <2>2
  <2>. QED
    BY <2>1, <2>3 DEF StateOK
<1>. QED
  BY <1>1, <1>2, <1>3, <1>4, <1>5, <1>6, <1>7, <1>8, <1>9, <1>10, <1>11, <1>12, <1>13, <1>14, <1>15,
     <1>16, <1>17, <1>18, <1>19, <1>20, HostSteps DEF Next

----------------------------------------------------------------------------
(* The other steps of the window.                                          *)

\* A step that neither tells nor hears of anything: it takes cards away only for a reason,
\* and what is read is the row.
QuietStep ==
    /\ UNCHANGED <<row, turns, begun, sent, extras, open, compacting, active, ended>>
    /\ (lost => lost') /\ (paused => paused')
    /\ cards' \subseteq cards
    /\ \A r \in open : r \in cards => r \in cards' \/ lost' \/ paused'
    /\ list' = list \/ list'.at # "read" \/ ~list'.clean \/ list'.value = row
    /\ op'["send"] = op["send"] \/ op'["send"].at # "done" \/ op'["send"].value = row
    /\ op'["answer"].at # "none" =>
         \/ op["answer"].at # "none" /\ op'["answer"].about = op["answer"].about
         \/ op'["answer"].about \in cards
    /\ op'["answer"].at = "done" => op["answer"].at = "done" /\ op'["answer"].about = op["answer"].about

\* Every step is one of the host's, an arrival, or quiet.
LEMMA StepSorts ==
    ASSUME ViewAssumption, TypeOK, HostOK, Order, StateOK, CardsOK, Next
    PROVE  WorkStep \/ FinalStep \/ OtherStep \/ StartStep \/ Arrives \/ QuietStep
<1>c. /\ "send" \in Commands /\ "stop" \in Commands /\ "answer" \in Commands /\ "rename" \in Commands
      /\ NoOp.at = "none"
  BY NoOpFields DEF Commands
<1>q. ASSUME UNCHANGED <<row, turns, begun, sent, extras, open, compacting, active, ended, cards, lost>>,
             paused => paused',
             list' = list \/ list'.at # "read" \/ ~list'.clean \/ list'.value = row,
             op'["send"] = op["send"] \/ op'["send"].at # "done" \/ op'["send"].value = row,
             op'["answer"] = op["answer"] \/ op'["answer"].at = "none"
      PROVE  QuietStep
  BY <1>q DEF QuietStep
<1>1. CASE RefuseStep
  <2>1. UNCHANGED <<row, turns, begun, sent, extras, open, compacting, active, ended, cards, lost, paused, list>>
    BY <1>1 DEF RefuseStep
  <2>2. CASE op' = [op EXCEPT !["send"].at = "refused"]
    <3>1. Others("send") /\ op'["send"].at = "refused"
      BY <1>c, <2>2, OpAt
    <3>2. op'["answer"] = op["answer"] /\ op'["send"].at # "done"
      BY <1>c, <3>1 DEF Others
    <3>. QED
      BY <1>q, <2>1, <3>2
  <2>3. CASE op["answer"].at = "asked" /\ op' = [op EXCEPT !["answer"].at = "refused"]
    <3>1. Others("answer") /\ op'["answer"].at = "refused" /\ op'["answer"].about = op["answer"].about
      BY <1>c, <2>3, OpAt
    <3>2. op'["send"] = op["send"] /\ op'["answer"].at # "done" /\ op["answer"].at # "none"
      BY <1>c, <2>3, <3>1 DEF Others
    <3>. QED
      BY <2>1, <3>1, <3>2 DEF QuietStep
  <2>. QED
    BY <1>1, <2>2, <2>3 DEF RefuseStep
<1>2. CASE ListRead
  <2>1. list'.value = row
    BY <1>2, WindowRecords DEF ListRead, ListRecord
  <2>. QED
    BY <1>2, <1>q, <2>1 DEF ListRead
<1>3. ASSUME NEW c \in {"send", "rename"}, ReadRow(c) PROVE QuietStep
  <2>1. op' = [op EXCEPT ![c].at = "done", ![c].value = row] /\ op \in [Commands -> OpRecord]
        /\ c \in Commands
    BY <1>3, <1>c, WindowRecords DEF ReadRow
  <2>2. op'["answer"] = op["answer"] /\ (c = "rename" => op'["send"] = op["send"])
    BY <1>c, <2>1
  <2>3. c = "send" => op'["send"].value = row
    BY <2>1 DEF OpRecord
  <2>. QED
    BY <1>3, <1>q, <2>2, <2>3 DEF ReadRow
<1>4. CASE AcceptStop
  <2>1. op' = [op EXCEPT !["stop"].at = "done"] /\ paused' /\ UNCHANGED <<row, turns, begun, sent, extras,
          open, compacting, active, ended, cards, lost, list>>
    BY <1>4 DEF AcceptStop, Silent
  <2>2. Others("stop")
    BY <1>c, <2>1, OpAt
  <2>3. op'["send"] = op["send"] /\ op'["answer"] = op["answer"]
    BY <1>c, <2>2 DEF Others
  <2>. QED
    BY <1>q, <2>1, <2>3
<1>5. ASSUME NEW i \in 1..Len(past), ArrivesAgain(i) PROVE QuietStep
  <2>1. UNCHANGED vars
    BY <1>5, AgainNothing
  <2>. QED
    BY <1>q, <2>1
<1>6. CASE Refresh
  <2>1. list'.at # "read"
    BY <1>6 DEF Refresh, AskList
  <2>. QED
    BY <1>6, <1>q, <2>1 DEF Refresh
<1>7. CASE ListArrives
  <2>1. list'.at # "read"
    BY <1>7 DEF ListArrives, NoList
  <2>. QED
    BY <1>7, <1>q, <2>1 DEF ListArrives
<1>8. CASE Submit
  <2>1. op' = [op EXCEPT !["send"].at = "checking"]
    BY <1>8 DEF Submit
  <2>2. Others("send") /\ op'["send"].at = "checking"
    BY <1>c, <2>1, OpAt
  <2>3. op'["answer"] = op["answer"] /\ op'["send"].at # "done"
    BY <1>c, <2>2 DEF Others
  <2>. QED
    BY <1>8, <1>q, <2>3 DEF Submit
<1>9. CASE Send
  <2>1. op' = [op EXCEPT !["send"] = [NoOp EXCEPT !.at = "asked", !.fresh = TRUE]]
    BY <1>9 DEF Send
  <2>2. Others("send") /\ op'["send"] = [NoOp EXCEPT !.at = "asked", !.fresh = TRUE]
    BY <1>c, <2>1, OpNew
  <2>3. op'["send"].at = "asked"
    BY <2>2 DEF NoOp
  <2>4. op'["answer"] = op["answer"] /\ op'["send"].at # "done"
    BY <1>c, <2>2, <2>3 DEF Others
  <2>. QED
    BY <1>9, <1>q, <2>4 DEF Send
<1>10. ASSUME NEW c \in Commands \ {"send"}, Ask(c) PROVE QuietStep
  <2>1. PICK n \in IF c = "answer" THEN cards ELSE {turns} :
          op' = [op EXCEPT ![c] = [NoOp EXCEPT !.at = "asked", !.about = n]]
    BY <1>10 DEF Ask
  <2>2. Others(c) /\ op'[c] = [NoOp EXCEPT !.at = "asked", !.about = n]
    BY <2>1, OpNew
  <2>3. op'[c].at = "asked" /\ op'[c].about = n
    BY <2>2 DEF NoOp
  <2>4. op'["send"] = op["send"] /\ (c # "answer" => op'["answer"] = op["answer"])
    BY <1>c, <2>2 DEF Others
  <2>5. UNCHANGED <<row, turns, begun, sent, extras, open, compacting, active, ended, cards, lost, paused, list>>
    BY <1>10 DEF Ask
  <2>6. CASE c = "answer"
    <3>1. op'["answer"].about \in cards /\ op'["answer"].at # "done"
      BY <2>1, <2>3, <2>6
    <3>. QED
      BY <2>4, <2>5, <3>1 DEF QuietStep
  <2>. QED
    BY <1>q, <2>4, <2>5, <2>6
<1>11. CASE SendArrives
  <2>1. op' = [op EXCEPT !["send"] = [NoOp EXCEPT !.at = "reading"]] /\ list' = Changed
    BY <1>11 DEF SendArrives
  <2>2. Others("send") /\ op'["send"] = [NoOp EXCEPT !.at = "reading"]
    BY <1>c, <2>1, OpNew
  <2>3. op'["send"].at = "reading"
    BY <2>2 DEF NoOp
  <2>4. op'["answer"] = op["answer"] /\ op'["send"].at # "done"
    BY <1>c, <2>2, <2>3 DEF Others
  <2>5. ~list'.clean
    BY <2>1, WindowRecords DEF Changed, ListRecord
  <2>. QED
    BY <1>11, <1>q, <2>4, <2>5 DEF SendArrives
<1>12. CASE StopArrives
  <2>1. /\ op["stop"].at = "done" /\ list' = Changed /\ op' = [op EXCEPT !["stop"].at = "reading"]
        /\ cards' = {} /\ lost' = (lost \/ turns > op["stop"].about)
        /\ UNCHANGED <<row, turns, begun, sent, extras, open, compacting, active, ended, paused>>
    BY <1>12 DEF StopArrives
  <2>2. Others("stop")
    BY <1>c, <2>1, OpAt
  <2>3. op'["send"] = op["send"] /\ op'["answer"] = op["answer"]
    BY <1>c, <2>2 DEF Others
  <2>4. ~list'.clean
    BY <2>1, WindowRecords DEF Changed, ListRecord
  <2>5. lost' \/ paused'
    <3>1. op["stop"].at # "none"
      BY <2>1
    <3>2. op["stop"].about <= turns /\ (op["stop"].about = turns => paused)
      BY <2>1, <3>1 DEF StateOK
    <3>3. turns \in Nat /\ op["stop"].about \in Nat
      BY <1>c, WindowRecords DEF TypeOK, HostTypes, ViewAssumption, OpRecord
    <3>4. turns > op["stop"].about \/ turns = op["stop"].about
      BY <3>2, <3>3
    <3>. QED
      BY <2>1, <3>2, <3>4
  <2>6. lost => lost'
    BY <2>1
  <2>. QED
    BY <2>1, <2>3, <2>4, <2>5, <2>6 DEF QuietStep
<1>13. CASE RenameArrives
  <2>1. op' = [op EXCEPT !["rename"] = NoOp] /\ list' = Changed
    BY <1>13 DEF RenameArrives
  <2>2. Others("rename")
    BY <1>c, <2>1, OpNew
  <2>3. op'["send"] = op["send"] /\ op'["answer"] = op["answer"]
    BY <1>c, <2>2 DEF Others
  <2>4. ~list'.clean
    BY <2>1, WindowRecords DEF Changed, ListRecord
  <2>. QED
    BY <1>13, <1>q, <2>3, <2>4 DEF RenameArrives
<1>14. CASE AnswerArrives
  <2>1. /\ op["answer"].at = "done" /\ op' = [op EXCEPT !["answer"] = NoOp]
        /\ cards' = cards \ {op["answer"].about}
        /\ UNCHANGED <<row, turns, begun, sent, extras, open, compacting, active, ended, paused, lost, list>>
    BY <1>14 DEF AnswerArrives
  <2>2. Others("answer") /\ op'["answer"] = NoOp
    BY <1>c, <2>1, OpNew
  <2>3. op'["send"] = op["send"] /\ op'["answer"].at = "none"
    BY <1>c, <2>2 DEF Others
  <2>4. op["answer"].about \notin open
    BY <2>1 DEF CardsOK
  <2>5. op'["answer"].at # "done" /\ (lost => lost') /\ (paused => paused')
    BY <2>1, <2>3
  <2>. QED
    BY <2>1, <2>3, <2>4, <2>5 DEF QuietStep
<1>15. ASSUME NEW c \in {"send", "stop", "answer"}, Finish(c) PROVE QuietStep
  <2>1. op' = [op EXCEPT ![c] = NoOp] /\ c \in Commands
    BY <1>15 DEF Finish, Commands
  <2>2. Others(c) /\ op'[c] = NoOp
    BY <2>1, OpNew
  <2>3. \A d \in Commands : op'[d] = op[d] \/ op'[d].at = "none"
    BY <1>c, <2>2 DEF Others
  <2>4. /\ op'["send"] = op["send"] \/ op'["send"].at # "done"
        /\ op'["answer"] = op["answer"] \/ op'["answer"].at = "none"
    BY <1>c, <2>3
  <2>. QED
    BY <1>15, <1>q, <2>4 DEF Finish
<1>. QED
  BY <1>1, <1>2, <1>3, <1>4, <1>5, <1>6, <1>7, <1>8, <1>9, <1>10, <1>11, <1>12, <1>13, <1>14, <1>15,
     HostSteps DEF Next

----------------------------------------------------------------------------
(* The activity.                                                           *)

LEMMA ActiveKept ==
    ASSUME ViewAssumption, TypeOK, HostOK, HostOK', Order, StateOK, CardsOK, ActiveOK, Next
    PROVE  ActiveOK'
<1>r. (Running(row) <=> begun # "over") /\ (Running(row') <=> begun' # "over") /\ 0 \in 0..MaxExtras
  BY DEF HostOK, ViewAssumption
<1>1. CASE WorkStep
  <2>1. begun' = "begun"
    BY <1>1 DEF WorkStep
  <2>. QED
    BY <1>r, <2>1 DEF ActiveOK
<1>2. CASE FinalStep
  <2>1. PICK kind \in Finals : Told(kind, 0)
    BY <1>2 DEF FinalStep
  <2>2. PICK e \in Wire : sent \in Seq(Wire) /\ sent' = Append(sent, e) /\ e.kind = kind
    BY <1>r, <2>1, ToldEvent, Sorts
  <2>3. e \in Activity /\ e \in Rest
    BY <2>2, Sorts DEF Activity, Rest, Of
  <2>4. LastIn(sent', Activity, Rest) /\ ~NoneIn(sent', Activity)
    BY <2>2, <2>3, AppendIn
  <2>. QED
    BY <2>4 DEF ActiveOK
<1>3. CASE OtherStep
  <2>1. PICK kind \in Kinds \ (Works \union Finals), g \in 1..MaxGens, n \in 1..clock + 1 :
          /\ Tell(kind, 0, g, n)
          /\ \/ kind \in {"opened", "message"} /\ compacting' = compacting
             \/ kind = "compacting" /\ compacting' # 0
             \/ kind = "compacted"
          /\ UNCHANGED <<begun, active>>
    BY <1>3 DEF OtherStep
  <2>2. PICK e \in Wire : /\ sent \in Seq(Wire) /\ sent' = Append(sent, e) /\ e.kind = kind
                          /\ e.turn = IF begun = "over" THEN 0 ELSE turns
    BY <1>r, <2>1, TellEvent
  <2>3. CASE kind \in {"opened", "message"} /\ compacting' = compacting
    <3>1. e \notin Activity
      BY <2>2, <2>3 DEF Activity, Of, Works, Finals
    <3>2. /\ LastIn(sent', Activity, Rest) <=> LastIn(sent, Activity, Rest)
          /\ NoneIn(sent', Activity) <=> NoneIn(sent, Activity)
      BY <2>2, <3>1, AppendOut
    <3>. QED
      BY <1>r, <2>1, <2>3, <3>2 DEF ActiveOK
  <2>4. CASE kind = "compacting" /\ compacting' # 0
    BY <2>4 DEF ActiveOK
  <2>5. CASE kind = "compacted"
    <3>1. CASE begun = "over"
      <4>1. e \in Activity /\ e \in Rest
        BY <2>2, <2>5, <3>1 DEF Activity, Rest, Of
      <4>2. LastIn(sent', Activity, Rest) /\ ~NoneIn(sent', Activity)
        BY <2>2, <4>1, AppendIn
      <4>. QED
        BY <4>2 DEF ActiveOK
    <3>2. CASE begun # "over"
      BY <1>r, <2>1, <3>2 DEF ActiveOK
    <3>. QED
      BY <3>1, <3>2
  <2>. QED
    BY <2>1, <2>3, <2>4, <2>5
<1>4. CASE StartStep
  <2>1. begun' = "no"
    BY <1>4 DEF StartStep, StartTurn
  <2>. QED
    BY <1>r, <2>1 DEF ActiveOK
<1>5. CASE Arrives
  <2> DEFINE e == Head(sent)
  <2>1. HandleEvent(e) /\ e.kind \in Kinds /\ UNCHANGED <<row, compacting>>
    BY <1>5, Handling, Receiving, EventNumbers
  <2>2. sent \in Seq(Wire) /\ sent # <<>> /\ sent' = Tail(sent) /\ e \in Wire
    BY <1>5, Receiving, TailFacts
  <2>. SUFFICES ASSUME ~Running(row), compacting = 0
                PROVE  LastIn(sent', Activity, Rest) /\ (NoneIn(sent', Activity) => ~active')
    BY <2>1 DEF ActiveOK
  <2>3. LastIn(sent, Activity, Rest) /\ (NoneIn(sent, Activity) => ~active)
    BY DEF ActiveOK
  <2>4. /\ LastIn(sent', Activity, Rest)
        /\ NoneIn(sent', Activity) =>
             (e \in Activity /\ e \in Rest) \/ (e \notin Activity /\ NoneIn(sent, Activity))
    BY <2>2, <2>3, TailLast
  <2> HIDE DEF e
  <2>5. CASE e \in Rest
    <3>1. e.kind \in Finals \/ (e.kind = "compacted" /\ e.turn = 0)
      BY <2>5 DEF Rest
    <3>2. CASE e.kind \in Finals
      BY <2>1, <2>4, <3>2, FinalHandled
    <3>3. CASE e.kind = "compacted" /\ e.turn = 0
      <4>1. e.kind \in Kinds \ (Works \union Finals)
        BY <3>3, Sorts
      <4>2. active' <=> e.turn # 0
        BY <2>1, <3>3, <4>1, OtherHandled
      <4>. QED
        BY <2>4, <3>3, <4>2
    <3>. QED
      BY <3>1, <3>2, <3>3
  <2>6. CASE e \notin Activity
    <3>1. e.kind \in Kinds \ (Works \union Finals) /\ e.kind \notin {"compacting", "compacted"}
      BY <2>1, <2>2, <2>6 DEF Activity, Of
    <3>2. active' = active
      BY <2>1, <3>1, OtherHandled
    <3>. QED
      BY <2>3, <2>4, <2>6, <3>2
  <2>. QED
    BY <2>4, <2>5, <2>6
<1>6. CASE QuietStep
  BY <1>6 DEF QuietStep, ActiveOK
<1>. QED
  BY <1>1, <1>2, <1>3, <1>4, <1>5, <1>6, StepSorts

----------------------------------------------------------------------------
(* The cards.                                                              *)

LEMMA CardsKept ==
    ASSUME ViewAssumption, TypeOK, HostOK, HostOK', Order, StateOK, CardsOK, Next
    PROVE  CardsOK'
<1> DEFINE CardOK(r) ==
             /\ LastIn(sent, About(r), IF r \in open THEN Asks(r) ELSE Wire \ Asks(r))
             /\ NoneIn(sent, About(r)) =>
                  /\ r \in cards => r \in open
                  /\ r \in open => r \in cards \/ lost \/ paused
<1>t. /\ extras \in Nat /\ 0 \in 0..MaxExtras /\ MaxExtras \in Nat /\ cards \subseteq Nat /\ open \subseteq Nat
      /\ op["answer"].about \in Nat
  BY WindowRecords DEF TypeOK, HostTypes, WindowTypes, ViewAssumption, OpRecord, Commands
<1>c. /\ \A r \in 0..MaxExtras : CardOK(r)
      /\ \A r \in cards : r <= extras
      /\ \A i \in 1..Len(sent) : sent[i].ask <= extras
      /\ op["answer"].at # "none" => op["answer"].about <= extras
      /\ op["answer"].at = "done" => op["answer"].about \notin open
  BY DEF CardsOK
<1>w. ASSUME \A r \in 0..MaxExtras : CardOK(r)',
             \A r \in cards' : r <= extras',
             \A i \in 1..Len(sent') : sent'[i].ask <= extras',
             op'["answer"].at # "none" => op'["answer"].about <= extras',
             op'["answer"].at = "done" => op'["answer"].about \notin open'
      PROVE  CardsOK'
  BY <1>w DEF CardsOK
<1>a. ASSUME NEW e \in Wire, sent \in Seq(Wire), sent' = Append(sent, e), e.ask <= extras',
             extras' \in {extras, extras + 1}
      PROVE  \A i \in 1..Len(sent') : sent'[i].ask <= extras'
  <2>1. /\ Len(sent) \in Nat /\ Len(sent') = Len(sent) + 1 /\ sent'[Len(sent) + 1] = e
        /\ \A i \in 1..Len(sent) : sent'[i] = sent[i] /\ sent[i] \in Wire
    BY <1>a, AppendFacts
  <2>2. \A i \in 1..Len(sent) : sent[i].ask \in Nat
    BY <2>1 DEF Wire
  <2>. QED
    BY <1>a, <1>c, <1>t, <2>1, <2>2
<1> HIDE DEF CardOK
<1>1. CASE WorkStep
  <2>1. PICK kind \in Works, ask \in 0..MaxExtras :
          /\ Told(kind, ask) /\ UNCHANGED <<cards, lost, paused>>
          /\ \/ kind = "started" /\ ask = 0 /\ UNCHANGED <<open, extras>> /\ op' = op
             \/ kind = "asked" /\ ask = extras + 1 /\ extras' = ask /\ open' = open \union {ask} /\ op' = op
             \/ /\ kind = "resolved" /\ ask \in open /\ open' = open \ {ask} /\ UNCHANGED extras
                /\ op' = op \/ (op["answer"].about = ask /\ op' = [op EXCEPT !["answer"].at = "done"])
    BY <1>1 DEF WorkStep
  <2>2. PICK e \in Wire : sent \in Seq(Wire) /\ sent' = Append(sent, e) /\ e.kind = kind /\ e.ask = ask
    BY <2>1, ToldEvent, Sorts
  <2>3. ask <= extras' /\ extras' \in {extras, extras + 1}
    BY <1>t, <2>1 DEF HostOK
  <2>4. ASSUME NEW r \in 0..MaxExtras PROVE CardOK(r)'
    <3>1. CASE e \in About(r)
      <4>1. kind \in {"asked", "resolved"} /\ ask = r
        BY <2>2, <3>1, Sorts DEF About
      <4>2. IF r \in open' THEN e \in Asks(r) ELSE e \in Wire \ Asks(r)
        BY <2>1, <2>2, <3>1, <4>1 DEF Asks
      <4>3. LastIn(sent', About(r), IF r \in open' THEN Asks(r) ELSE Wire \ Asks(r)) /\ ~NoneIn(sent', About(r))
        BY <2>2, <3>1, <4>2, AppendIn
      <4>. QED
        BY <4>3 DEF CardOK
    <3>2. CASE e \notin About(r)
      <4>1. r \in open' <=> r \in open
        BY <2>1, <2>2, <3>2 DEF About
      <4>2. /\ \A A : LastIn(sent', About(r), A) <=> LastIn(sent, About(r), A)
            /\ NoneIn(sent', About(r)) <=> NoneIn(sent, About(r))
        BY <2>2, <3>2, AppendOut
      <4>3. CardOK(r)
        BY <1>c
      <4>. QED
        BY <2>1, <4>1, <4>2, <4>3 DEF CardOK
    <3>. QED
      BY <3>1, <3>2
  <2>5. /\ op'["answer"].at # "none" => op'["answer"].about <= extras'
        /\ op'["answer"].at = "done" => op'["answer"].about \notin open'
    <3>1. CASE op' = op
      BY <1>c, <1>t, <2>1, <3>1
    <3>2. CASE op["answer"].about = ask /\ op' = [op EXCEPT !["answer"].at = "done"] /\ kind = "resolved"
      <4>1. op'["answer"].about = ask
        <5>1. "answer" \in Commands
          BY DEF Commands
        <5>. QED
          BY <3>2, <5>1, OpAt
      <4>2. open' = open \ {ask}
        BY <2>1, <3>2
      <4>. QED
        BY <2>3, <4>1, <4>2
    <3>. QED
      BY <2>1, <3>1, <3>2
  <2>6. \A r \in cards' : r <= extras'
    BY <1>c, <1>t, <2>1, <2>3
  <2>. QED
    BY <1>w, <1>a, <2>2, <2>3, <2>4, <2>5, <2>6
<1>2. CASE FinalStep
  <2>1. PICK kind \in Finals : Told(kind, 0) /\ open' = {} /\ UNCHANGED <<extras, cards, op>>
    BY <1>2 DEF FinalStep
  <2>2. PICK e \in Wire : sent \in Seq(Wire) /\ sent' = Append(sent, e) /\ e.kind = kind /\ e.ask = 0
    BY <1>t, <2>1, ToldEvent, Sorts
  <2>3. ASSUME NEW r \in 0..MaxExtras PROVE CardOK(r)'
    <3>1. e \in About(r) /\ e \in Wire \ Asks(r) /\ r \notin open'
      BY <2>1, <2>2, Sorts DEF About, Asks, Finals
    <3>2. LastIn(sent', About(r), Wire \ Asks(r)) /\ ~NoneIn(sent', About(r))
      BY <2>2, <3>1, AppendIn
    <3>. QED
      BY <3>1, <3>2 DEF CardOK
  <2>4. \A i \in 1..Len(sent') : sent'[i].ask <= extras'
    BY <1>a, <1>t, <2>1, <2>2
  <2>. QED
    BY <1>c, <1>w, <2>1, <2>3, <2>4
<1>3. CASE OtherStep
  <2>1. PICK kind \in Kinds \ (Works \union Finals), g \in 1..MaxGens, n \in 1..clock + 1 :
          /\ Tell(kind, 0, g, n)
          /\ extras' \in {extras, extras + 1} /\ UNCHANGED <<paused, open, cards, lost, op>>
    BY <1>3 DEF OtherStep
  <2>2. PICK e \in Wire : sent \in Seq(Wire) /\ sent' = Append(sent, e) /\ e.kind = kind /\ e.ask = 0
    BY <1>t, <2>1, TellEvent
  <2>3. ASSUME NEW r \in 0..MaxExtras PROVE CardOK(r)'
    <3>1. e \notin About(r)
      BY <2>1, <2>2 DEF About, Works
    <3>2. /\ \A A : LastIn(sent', About(r), A) <=> LastIn(sent, About(r), A)
          /\ NoneIn(sent', About(r)) <=> NoneIn(sent, About(r))
      BY <2>2, <3>1, AppendOut
    <3>3. CardOK(r)
      BY <1>c
    <3>. QED
      BY <2>1, <3>2, <3>3 DEF CardOK
  <2>4. \A i \in 1..Len(sent') : sent'[i].ask <= extras'
    BY <1>a, <1>t, <2>1, <2>2
  <2>5. \A n1 \in Nat : n1 <= extras => n1 <= extras'
    BY <1>t, <2>1
  <2>. QED
    BY <1>c, <1>t, <1>w, <2>1, <2>3, <2>4, <2>5
<1>4. CASE StartStep
  <2>1. UNCHANGED <<sent, extras, open, cards, lost>> /\ begun = "over"
    BY <1>4 DEF StartStep, StartTurn, Silent
  <2>2. open = {}
    BY <2>1 DEF HostOK
  <2>3. op'["answer"] = op["answer"]
    <3>1. "send" \in Commands /\ "answer" \in Commands \ {"send"}
      BY DEF Commands
    <3>2. CASE op' = [op EXCEPT !["send"].at = "admitted"]
      <4>1. Others("send")
        BY <3>1, <3>2, OpAt
      <4>. QED
        BY <3>1, <4>1 DEF Others
    <3>. QED
      BY <1>4, <3>2 DEF StartStep
  <2>4. ASSUME NEW r \in 0..MaxExtras PROVE CardOK(r)'
    BY <1>c, <2>1, <2>2 DEF CardOK
  <2>. QED
    BY <1>c, <1>w, <2>1, <2>3, <2>4
<1>5. CASE Arrives
  <2> DEFINE e == Head(sent)
  <2>1. HandleEvent(e) /\ e.kind \in Kinds /\ UNCHANGED <<open, extras, paused>>
    BY <1>5, Handling, Receiving, EventNumbers
  <2>2. /\ sent \in Seq(Wire) /\ sent # <<>> /\ sent' = Tail(sent) /\ e \in Wire /\ e = sent[1]
        /\ Len(sent) \in Nat \ {0} /\ Len(sent') = Len(sent) - 1
        /\ \A i \in 1..Len(sent') : sent'[i] = sent[i + 1]
    BY <1>5, Receiving, TailFacts
  <2> HIDE DEF e
  <2>3. e.ask <= extras /\ \A i \in 1..Len(sent') : sent'[i].ask <= extras'
    BY <1>c, <2>1, <2>2
  <2>4. ASSUME NEW r \in 0..MaxExtras PROVE CardOK(r)'
    <3> DEFINE A == IF r \in open THEN Asks(r) ELSE Wire \ Asks(r)
    <3>1. LastIn(sent, About(r), A) /\ CardOK(r)
      BY <1>c DEF CardOK
    <3> HIDE DEF A
    <3>2. /\ LastIn(sent', About(r), A)
          /\ NoneIn(sent', About(r)) =>
               (e \in About(r) /\ e \in A) \/ (e \notin About(r) /\ NoneIn(sent, About(r)))
      BY <2>2, <3>1, TailLast DEF e
    <3>3. CASE e \in About(r) /\ e \in A /\ r \in open
      <4>1. e.kind = "asked" /\ e.ask = r
        BY <3>3 DEF A, Asks, About, Finals
      <4>2. r \in cards'
        BY <2>1, <4>1, WorkHandled DEF Works
      <4>. QED
        BY <2>1, <3>2, <3>3, <4>2 DEF CardOK, A
    <3>4. CASE e \in About(r) /\ e \in A /\ r \notin open
      <4>1. e.kind \in Finals \/ (e.kind = "resolved" /\ e.ask = r)
        BY <3>4 DEF A, Asks, About
      <4>2. r \notin cards'
        BY <2>1, <4>1, WorkHandled, FinalHandled DEF Works
      <4>. QED
        BY <2>1, <3>2, <3>4, <4>2 DEF CardOK, A
    <3>5. CASE e \notin About(r) /\ NoneIn(sent, About(r))
      <4>1. e.kind \notin Finals /\ (e.kind \in {"asked", "resolved"} => e.ask # r)
        BY <2>2, <3>5 DEF About
      <4>2. (r \in cards' <=> r \in cards) /\ (lost' <=> lost)
        <5>1. CASE e.kind \in Works
          BY <2>1, <4>1, <5>1, WorkHandled DEF Works
        <5>2. CASE e.kind \in Kinds \ (Works \union Finals)
          BY <2>1, <5>2, OtherHandled
        <5>. QED
          BY <2>1, <4>1, <5>1, <5>2
      <4>. QED
        BY <2>1, <3>1, <3>2, <3>5, <4>2 DEF CardOK, A
    <3>6. CASE ~NoneIn(sent', About(r))
      BY <2>1, <3>2, <3>6 DEF CardOK, A
    <3>. QED
      BY <3>2, <3>3, <3>4, <3>5, <3>6
  <2>5. \A r \in cards' : r <= extras'
    <3>1. cards' \subseteq cards \union {e.ask}
      <4>1. CASE e.kind \in Works
        BY <2>1, <4>1, WorkHandled DEF Works
      <4>2. CASE e.kind \in Finals
        BY <2>1, <4>2, FinalHandled
      <4>3. CASE e.kind \in Kinds \ (Works \union Finals)
        BY <2>1, <4>3, OtherHandled
      <4>. QED
        BY <2>1, <4>1, <4>2, <4>3
    <3>. QED
      BY <1>c, <2>1, <2>3, <3>1
  <2>6. op'["answer"].at = op["answer"].at /\ op'["answer"].about = op["answer"].about
    <3>1. op' = op \/ op' = Stale
      BY <2>1, WorkHandled, FinalHandled, OtherHandled
    <3>2. "answer" \in Commands
      BY DEF Commands
    <3>. QED
      BY <3>1, <3>2, StaleFields
  <2>. QED
    BY <1>c, <1>w, <2>1, <2>3, <2>4, <2>5, <2>6
<1>6. CASE QuietStep
  <2>1. /\ UNCHANGED <<sent, open, extras>> /\ cards' \subseteq cards /\ (lost => lost') /\ (paused => paused')
        /\ \A r \in open : r \in cards => r \in cards' \/ lost' \/ paused'
    BY <1>6 DEF QuietStep
  <2>2. ASSUME NEW r \in 0..MaxExtras PROVE CardOK(r)'
    <3>1. CardOK(r)
      BY <1>c
    <3>. QED
      BY <2>1, <3>1 DEF CardOK
  <2>3. /\ op'["answer"].at # "none" => op'["answer"].about <= extras'
        /\ op'["answer"].at = "done" => op'["answer"].about \notin open'
    BY <1>6, <1>c, <2>1 DEF QuietStep
  <2>. QED
    BY <1>c, <1>w, <2>1, <2>2, <2>3
<1>. QED
  BY <1>1, <1>2, <1>3, <1>4, <1>5, <1>6, StepSorts

----------------------------------------------------------------------------
(* The turns whose end was told.                                           *)

LEMMA EndKept ==
    ASSUME ViewAssumption, TypeOK, HostOK, HostOK', Order, StateOK, CardsOK, EndOK, Next
    PROVE  EndOK'
<1> DEFINE Old(i) ==
             /\ sent[i].turn <= turns
             /\ sent[i].kind \in Finals /\ begun # "over" => sent[i].turn < turns
             /\ sent[i].kind \in Works =>
                  /\ sent[i].turn > ended
                  /\ \A j \in 1..Len(sent) : j < i /\ sent[j].kind \in Finals => sent[j].turn < sent[i].turn
<1>t. /\ turns \in Nat /\ ended \in Nat /\ 0 \in 0..MaxExtras /\ "send" \in Commands
      /\ Running(row) <=> begun # "over"
  BY DEF TypeOK, HostTypes, WindowTypes, ViewAssumption, HostOK, Commands
<1>c. /\ ended <= turns /\ (begun # "over" => ended < turns)
      /\ \A i \in 1..Len(sent) : Old(i)
      /\ list.at = "read" /\ list.clean /\ Running(list.value) => turns > ended
      /\ op["send"].at = "done" /\ op["send"].fresh /\ Running(op["send"].value) => turns > ended
  BY DEF EndOK
<1>n. sent \in Seq(Wire) => \A i \in 1..Len(sent) : sent[i].turn \in Nat
  <2>1. sent \in Seq(Wire) => \A i \in 1..Len(sent) : sent[i] \in Wire
    OBVIOUS
  <2>. QED
    BY <2>1 DEF Wire
<1>w. ASSUME ended' <= turns' /\ (begun' # "over" => ended' < turns'),
             \A i \in 1..Len(sent') : Old(i)',
             list'.at = "read" /\ list'.clean /\ Running(list'.value) => turns' > ended',
             op'["send"].at = "done" /\ op'["send"].fresh /\ Running(op'["send"].value) => turns' > ended'
      PROVE  EndOK'
  BY <1>w DEF EndOK
<1>a. ASSUME NEW e \in Wire, sent \in Seq(Wire), sent' = Append(sent, e), UNCHANGED <<turns, ended>>,
             begun' # "over" => begun # "over", e.turn <= turns,
             e.kind \in Works => begun # "over" /\ e.turn = turns,
             e.kind \in Finals => begun' = "over"
      PROVE  \A i \in 1..Len(sent') : Old(i)'
  <2>1. /\ Len(sent) \in Nat /\ Len(sent') = Len(sent) + 1 /\ sent'[Len(sent) + 1] = e
        /\ \A i \in 1..Len(sent) : sent'[i] = sent[i]
    BY <1>a, AppendFacts
  <2>2. ASSUME NEW i \in 1..Len(sent) PROVE Old(i)'
    <3>1. sent'[i] = sent[i] /\ Old(i) /\ \A j \in 1..Len(sent') : j < i => j \in 1..Len(sent) /\ sent'[j] = sent[j]
      BY <1>c, <2>1
    <3>. QED
      BY <1>a, <3>1
  <2>3. ASSUME NEW i \in 1..Len(sent'), i = Len(sent) + 1 PROVE Old(i)'
    <3>1. \A j \in 1..Len(sent') : j < Len(sent) + 1 => j \in 1..Len(sent) /\ sent'[j] = sent[j] /\ Old(j)
      BY <1>c, <2>1
    <3>2. e.kind \in Works => e.turn > ended
      BY <1>a, <1>c, <1>t
    <3>3. e.kind \in Finals => begun' = "over"
      BY <1>a
    <3>4. ASSUME e.kind \in Works, NEW j \in 1..Len(sent'), j < Len(sent) + 1, sent'[j].kind \in Finals
          PROVE  sent'[j].turn < e.turn
      BY <1>a, <3>1, <3>4
    <3>. QED
      BY <1>a, <2>1, <2>3, <3>2, <3>3, <3>4
  <2> HIDE DEF Old
  <2>. QED
    BY <2>1, <2>2, <2>3
<1>1. CASE WorkStep
  <2>1. PICK kind \in Works, ask \in 0..MaxExtras :
          /\ Told(kind, ask) /\ begun # "over" /\ begun' = "begun" /\ UNCHANGED <<turns, ended, list>>
          /\ op' = op \/ op' = [op EXCEPT !["answer"].at = "done"]
    BY <1>1 DEF WorkStep
  <2>2. PICK e \in Wire : sent \in Seq(Wire) /\ sent' = Append(sent, e) /\ e.kind = kind /\ e.turn = turns
    BY <2>1, ToldEvent, Sorts
  <2>3. op'["send"] = op["send"]
    <3>1. "answer" \in Commands /\ "send" \in Commands \ {"answer"}
      BY DEF Commands
    <3>2. CASE op' = [op EXCEPT !["answer"].at = "done"]
      <4>1. Others("answer")
        BY <3>1, <3>2, OpAt
      <4>. QED
        BY <3>1, <4>1 DEF Others
    <3>. QED
      BY <2>1, <3>2
  <2>4. \A i \in 1..Len(sent') : Old(i)'
    <3>1. e.kind \notin Finals
      BY <2>2, Sorts
    <3>. QED
      BY <1>a, <1>t, <2>1, <2>2, <3>1
  <2>5. ended' <= turns' /\ (begun' # "over" => ended' < turns')
    BY <1>c, <2>1
  <2> HIDE DEF Old
  <2>. QED
    BY <1>c, <1>w, <2>1, <2>3, <2>4, <2>5
<1>2. CASE FinalStep
  <2>1. PICK kind \in Finals :
          Told(kind, 0) /\ begun # "over" /\ begun' = "over" /\ UNCHANGED <<turns, ended, list, op>>
    BY <1>2 DEF FinalStep
  <2>2. PICK e \in Wire : sent \in Seq(Wire) /\ sent' = Append(sent, e) /\ e.kind = kind /\ e.turn = turns
    BY <1>t, <2>1, ToldEvent, Sorts
  <2>3. \A i \in 1..Len(sent') : Old(i)'
    <3>1. e.kind \notin Works
      BY <2>2, Sorts
    <3>. QED
      BY <1>a, <1>t, <2>1, <2>2, <3>1
  <2> HIDE DEF Old
  <2>. QED
    BY <1>c, <1>w, <2>1, <2>3
<1>3. CASE OtherStep
  <2>1. PICK kind \in Kinds \ (Works \union Finals), g \in 1..MaxGens, n \in 1..clock + 1 :
          Tell(kind, 0, g, n) /\ UNCHANGED <<turns, ended, begun, list, op>>
    BY <1>3 DEF OtherStep
  <2>2. PICK e \in Wire : /\ sent \in Seq(Wire) /\ sent' = Append(sent, e) /\ e.kind = kind
                          /\ e.turn = IF begun = "over" THEN 0 ELSE turns
    BY <1>t, <2>1, TellEvent
  <2>3. \A i \in 1..Len(sent') : Old(i)'
    <3>1. e.turn <= turns
      BY <1>t, <2>2
    <3>. QED
      BY <1>a, <2>1, <2>2, <3>1
  <2> HIDE DEF Old
  <2>. QED
    BY <1>c, <1>w, <2>1, <2>3
<1>4. CASE StartStep
  <2>1. UNCHANGED <<sent, ended, list>> /\ turns' = turns + 1
    BY <1>4 DEF StartStep, StartTurn, Silent
  <2>2. op'["send"] = op["send"] \/ op'["send"].at # "done"
    <3>1. CASE op' = [op EXCEPT !["send"].at = "admitted"]
      <4>1. op'["send"].at = "admitted"
        BY <1>t, <3>1, OpAt
      <4>. QED
        BY <4>1
    <3>. QED
      BY <1>4, <3>1 DEF StartStep
  <2>3. \A i \in 1..Len(sent) : sent[i].turn \in Nat
    <3>1. sent \in Seq(Event)
      BY DEF TypeOK, EventTypes
    <3>. QED
      BY <3>1, CursorNumbers, EventNumbers
  <2>4. ASSUME NEW i \in 1..Len(sent') PROVE Old(i)'
    <3>1. Old(i) /\ sent[i].turn \in Nat
      BY <1>c, <2>1, <2>3
    <3>. QED
      BY <1>t, <2>1, <3>1
  <2> HIDE DEF Old
  <2>5. turns' > ended'
    BY <1>c, <1>t, <2>1
  <2>6. ended' <= turns'
    BY <1>t, <2>1, <2>5
  <2>7. ended' < turns'
    BY <2>5
  <2>. QED
    BY <1>w, <2>4, <2>5, <2>6, <2>7
<1>5. CASE Arrives
  <2> DEFINE e == Head(sent)
  <2>1. HandleEvent(e) /\ e.kind \in Kinds /\ UNCHANGED <<turns, begun>> /\ e.turn \in Nat
    BY <1>5, Handling, Receiving, EventNumbers
  <2>2. /\ sent \in Seq(Wire) /\ sent # <<>> /\ e \in Wire /\ e = sent[1]
        /\ Len(sent) \in Nat \ {0} /\ Len(sent') = Len(sent) - 1
        /\ \A i \in 1..Len(sent') : sent'[i] = sent[i + 1]
    BY <1>5, Receiving, TailFacts
  <2> HIDE DEF e
  <2>3. Old(1) /\ 1 \in 1..Len(sent)
    BY <1>c, <2>2
  <2>4. ended' = (IF e.kind \in Finals /\ e.turn > ended THEN e.turn ELSE ended)
    <3>1. CASE e.kind \in Works
      BY <2>1, <3>1, Sorts, WorkHandled
    <3>2. CASE e.kind \in Finals
      BY <2>1, <3>2, FinalHandled
    <3>3. CASE e.kind \in Kinds \ (Works \union Finals)
      BY <2>1, <3>3, OtherHandled
    <3>. QED
      BY <2>1, <3>1, <3>2, <3>3
  <2>5. ASSUME NEW i \in 1..Len(sent') PROVE Old(i)'
    <3>1. Old(i + 1) /\ i + 1 \in 1..Len(sent) /\ sent'[i] = sent[i + 1]
      BY <1>c, <2>2
    <3>2. sent[i + 1].kind \in Works => sent[i + 1].turn > ended'
      <4>1. e.kind \in Finals /\ sent[i + 1].kind \in Works => e.turn < sent[i + 1].turn
        BY <2>2, <2>3, <3>1
      <4>. QED
        BY <2>1, <2>2, <2>4, <3>1, <4>1, <1>n, <1>t
    <3>3. \A j \in 1..Len(sent') : j < i => j + 1 \in 1..Len(sent) /\ j + 1 < i + 1 /\ sent'[j] = sent[j + 1]
      BY <2>2
    <3>. QED
      BY <2>1, <3>1, <3>2, <3>3
  <2>6. ended' <= turns' /\ (begun' # "over" => ended' < turns')
    BY <1>c, <2>1, <2>2, <2>3, <2>4
  <2> HIDE DEF Old
  <2>7. CASE e.kind \in Works
    <3>1. op' = Stale /\ list' = Changed
      BY <2>1, <2>7, WorkHandled
    <3>2. ~op'["send"].fresh /\ ~list'.clean
      BY <3>1, StaleFields, WindowRecords DEF Changed, ListRecord
    <3>. QED
      BY <1>w, <2>5, <2>6, <3>2
  <2>8. CASE e.kind \in Finals
    <3>1. op' = Stale /\ list' = AskList
      BY <2>1, <2>8, FinalHandled
    <3>2. ~op'["send"].fresh /\ list'.at = "asked"
      BY <3>1, StaleFields DEF AskList
    <3>3. list'.at # "read"
      BY <3>2
    <3>. QED
      BY <1>w, <2>5, <2>6, <3>2, <3>3
  <2>9. CASE e.kind \in Kinds \ (Works \union Finals)
    <3>1. op' = op /\ list' \in {list, AskList} /\ ended' = ended
      BY <2>1, <2>9, OtherHandled
    <3>2. list' = list \/ list'.at # "read"
      BY <3>1 DEF AskList
    <3>. QED
      BY <1>c, <1>w, <2>1, <2>5, <2>6, <3>1, <3>2
  <2>. QED
    BY <2>1, <2>7, <2>8, <2>9
<1>6. CASE QuietStep
  <2>1. UNCHANGED <<row, turns, begun, sent, ended>>
    BY <1>6 DEF QuietStep
  <2>2. \A i \in 1..Len(sent') : Old(i)'
    BY <1>c, <2>1
  <2> HIDE DEF Old
  <2>3. /\ list' = list \/ list'.at # "read" \/ ~list'.clean \/ list'.value = row
        /\ op'["send"] = op["send"] \/ op'["send"].at # "done" \/ op'["send"].value = row
    BY <1>6 DEF QuietStep
  <2>4. Running(row) => turns' > ended'
    BY <1>c, <1>t, <2>1
  <2>5. list'.at = "read" /\ list'.clean /\ Running(list'.value) => turns' > ended'
    BY <1>c, <2>1, <2>3, <2>4
  <2>6. op'["send"].at = "done" /\ op'["send"].fresh /\ Running(op'["send"].value) => turns' > ended'
    BY <1>c, <2>1, <2>3, <2>4
  <2>. QED
    BY <1>c, <1>w, <2>1, <2>2, <2>5, <2>6
<1>. QED
  BY <1>1, <1>2, <1>3, <1>4, <1>5, <1>6, StepSorts

----------------------------------------------------------------------------
(* The theorems.                                                           *)

LEMMA ViewInit ==
    ASSUME ViewAssumption, Init
    PROVE  ViewInv
<1>1. /\ row = "idle" /\ turns = 0 /\ gen = 1 /\ paused = FALSE
      /\ begun = "over" /\ seq = 0 /\ clock = 0 /\ sent = <<>> /\ extras = 0
      /\ open = {} /\ compacting = 0
      /\ past = <<>> /\ cursor = [gen |-> 0, seq |-> 0, time |-> 0] /\ retired = {}
      /\ shown = "idle" /\ cards = {} /\ active = FALSE /\ busy = FALSE
      /\ list = NoList /\ op = [c \in Commands |-> NoOp]
      /\ ended = 0 /\ late = FALSE /\ lost = FALSE
  BY DEF Init
<1>2. /\ MaxSends \in Nat /\ MaxGens \in Nat \ {0} /\ MaxExtras \in Nat /\ MaxLag \in Nat
      /\ MaxPast \in Nat /\ Len(sent) = 0 /\ Len(past) = 0 /\ 1..Len(sent) = {} /\ 1..Len(past) = {}
  BY <1>1 DEF ViewAssumption
<1>3. NoList.at = "none" /\ \A c \in {"send", "stop", "answer"} : op[c].at = "none"
  BY <1>1, NoOpFields DEF NoList, Commands
<1>4. ~Running(row)
  BY <1>1 DEF Running, Ended
<1>5. TypeOK
  <2>1. HostTypes
    <3>1. row \in States /\ paused \in BOOLEAN /\ begun \in {"no", "begun", "over"}
      BY <1>1 DEF States, Ended
    <3>2. /\ turns \in 0..MaxSends /\ extras \in 0..MaxExtras /\ seq \in Nat /\ clock \in Nat
          /\ gen \in 1..MaxGens /\ compacting \in 0..MaxGens /\ open \subseteq 1..MaxExtras
      BY <1>1, <1>2
    <3>. QED
      BY <3>1, <3>2 DEF HostTypes
  <2>2. EventTypes
    <3>1. <<>> \in Seq(Event) /\ 0 \in 0..MaxGens /\ 0 \in 0..clock
      BY <1>1, <1>2
    <3>2. cursor \in [gen : 0..MaxGens, seq : 0..clock, time : 0..clock]
      BY <1>1, <3>1
    <3>. QED
      BY <1>1, <1>2, <3>1, <3>2 DEF EventTypes
  <2>3. NoOp \in [at : {"none", "checking", "asked", "admitted", "refused", "done", "reading"},
                  value : States, fresh : BOOLEAN, about : Nat]
        /\ NoList \in [at : {"none", "asked", "read"}, value : States, clean : BOOLEAN]
    BY DEF NoOp, NoList, States, Ended
  <2>4. WindowTypes
    <3>1. op \in [Commands -> [at : {"none", "checking", "asked", "admitted", "refused", "done", "reading"},
                               value : States, fresh : BOOLEAN, about : Nat]]
      BY <1>1, <2>3
    <3>2. shown \in States /\ cards \subseteq 0..MaxExtras /\ ended \in 0..MaxSends
      BY <1>1, <1>2 DEF States, Ended
    <3>3. {active, busy, late, lost} \subseteq BOOLEAN
      BY <1>1
    <3>. QED
      BY <1>1, <2>3, <3>1, <3>2, <3>3 DEF WindowTypes
  <2>. QED
    BY <2>1, <2>2, <2>4 DEF TypeOK
<1>6. HostOK
  BY <1>1, <1>4 DEF HostOK
<1>7. Order
  BY <1>1, <1>2 DEF Order
<1>8. StateOK
  BY <1>1, <1>2, <1>3 DEF StateOK, LastIn
<1>9. CardsOK
  BY <1>1, <1>2, <1>3 DEF CardsOK, LastIn
<1>10. ActiveOK
  BY <1>1, <1>2 DEF ActiveOK, LastIn
<1>11. EndOK
  BY <1>1, <1>2, <1>3 DEF EndOK
<1>. QED
  BY <1>5, <1>6, <1>7, <1>8, <1>9, <1>10, <1>11 DEF ViewInv

\* Every step keeps the invariant.
LEMMA ViewStep ==
    ASSUME ViewAssumption, ViewInv, [Next]_vars
    PROVE  ViewInv'
<1>1. CASE Next
  <2>1. TypeOK /\ HostOK /\ Order /\ StateOK /\ CardsOK /\ ActiveOK /\ EndOK
    BY DEF ViewInv
  <2>2. HostTypes' /\ HostOK'
    BY <1>1, <2>1, HostKept
  <2>3. EventTypes' /\ Order' /\ WindowTypes'
    BY <1>1, <2>1, Steps, EventTypesKept, OrderKept, WindowTypesKept
  <2>4. StateOK' /\ CardsOK' /\ ActiveOK' /\ EndOK'
    BY <1>1, <2>1, <2>2, StateKept, CardsKept, ActiveKept, EndKept
  <2>. QED
    BY <2>2, <2>3, <2>4 DEF ViewInv, TypeOK
<1>2. CASE UNCHANGED vars
  <2>1. UNCHANGED <<row, turns, gen, paused, begun, seq, clock, sent, extras, open, compacting,
                    past, cursor, retired, shown, cards, active, ended, late, lost, busy, list, op>>
    BY <1>2
  <2>2. HostTypes' <=> HostTypes
    BY <2>1 DEF HostTypes
  <2>3. EventTypes' <=> EventTypes
    BY <2>1 DEF EventTypes, Event
  <2>4. WindowTypes' <=> WindowTypes
    BY <2>1 DEF WindowTypes
  <2>5. HostOK' <=> HostOK
    BY <2>1 DEF HostOK
  <2>6. Order' <=> Order
    BY <2>1 DEF Order
  <2>7. StateOK' <=> StateOK
    BY <2>1 DEF StateOK
  <2>8. CardsOK' <=> CardsOK
    BY <2>1 DEF CardsOK
  <2>9. ActiveOK' <=> ActiveOK
    BY <2>1 DEF ActiveOK
  <2>10. EndOK' <=> EndOK
    BY <2>1 DEF EndOK
  <2>. QED
    BY <2>2, <2>3, <2>4, <2>5, <2>6, <2>7, <2>8, <2>9, <2>10 DEF ViewInv, TypeOK
<1>. QED
  BY <1>1, <1>2

LEMMA ViewInvariant == ViewAssumption => (Spec => []ViewInv)
<1>. SUFFICES ASSUME ViewAssumption PROVE Spec => []ViewInv
  OBVIOUS
<1>1. Init => ViewInv
  BY ViewInit
<1>2. ViewInv /\ [Next]_vars => ViewInv'
  BY ViewStep
<1>. QED
  BY <1>1, <1>2, PTL DEF Spec

\* Once settled, nothing is on its way and nothing is asked; a turn that runs has been
\* announced and goes on.
LEMMA WhenSettled ==
    ASSUME ViewInv, Settled
    PROVE  /\ \A K : NoneIn(sent, K)
           /\ begun # "no" /\ ~(paused /\ begun # "over")
           /\ Running(row) <=> begun # "over"
<1>1. sent = <<>> /\ (Running(row) => begun # "no" /\ ~paused) /\ (Running(row) <=> begun # "over")
  BY DEF Settled, ViewInv, HostOK
<1>. QED
  BY <1>1 DEF NoneIn

\* The state shown is the row's, once settled, or a receipt came too late.
LEMMA ConvergedHolds ==
    ASSUME ViewInv
    PROVE  Converged
<1>. SUFFICES ASSUME Settled PROVE late \/ Running(shown) = Running(row)
  BY DEF Converged
<1>. QED
  BY WhenSettled DEF ViewInv, StateOK

\* The cards are those of the requests that wait, and what is shown at work is at work.
LEMMA CardsMatchHolds ==
    ASSUME ViewInv
    PROVE  CardsMatch
<1>. SUFFICES ASSUME Settled
              PROVE  cards \subseteq open /\ (cards = open \/ lost)
                     /\ (active => Running(row) \/ compacting # 0)
  BY DEF CardsMatch
<1>1. cards \subseteq 0..MaxExtras /\ open \subseteq 0..MaxExtras
  BY DEF ViewInv, TypeOK, HostTypes, WindowTypes
<1>2. \A r \in 0..MaxExtras : (r \in cards => r \in open) /\ (r \in open => r \in cards \/ lost \/ paused)
  BY WhenSettled DEF ViewInv, CardsOK
<1>3. open # {} => ~paused
  BY WhenSettled DEF ViewInv, HostOK
<1>4. active => Running(row) \/ compacting # 0
  BY WhenSettled DEF ViewInv, ActiveOK
<1>. QED
  BY <1>1, <1>2, <1>3, <1>4

\* No step shows a turn running again whose end was told, but the receipt of a rename.
LEMMA EndsStayStep ==
    ASSUME ViewAssumption, ViewInv, [Next]_vars
    PROVE  ~Running(shown) /\ Running(shown') =>
             turns > ended \/ (op["rename"].at = "done" /\ op'["rename"] = NoOp)
<1>. SUFFICES ASSUME ~Running(shown), Running(shown')
              PROVE  turns > ended \/ (op["rename"].at = "done" /\ op'["rename"] = NoOp)
  OBVIOUS
<1>i. TypeOK /\ Order /\ EndOK
  BY DEF ViewInv
<1>s. shown' # shown
  OBVIOUS
<1>1. CASE Arrives
  <2> DEFINE e == Head(sent)
  <2>1. HandleEvent(e) /\ e.kind \in Kinds /\ e.turn \in Nat
    BY <1>1, <1>i, Handling, Receiving, EventNumbers
  <2>2. e = sent[1] /\ 1 \in 1..Len(sent)
    BY <1>1, <1>i, Receiving
  <2> HIDE DEF e
  <2>3. e.kind \notin Finals
    BY <2>1, FinalHandled DEF Running
  <2>4. e.kind \in Works
    BY <1>s, <2>1, <2>3, OtherHandled
  <2>5. e.turn > ended /\ e.turn <= turns
    BY <1>i, <2>2, <2>4 DEF EndOK
  <2>6. ended \in Nat /\ turns \in Nat
    BY <1>i DEF TypeOK, HostTypes, WindowTypes, ViewAssumption
  <2>. QED
    BY <2>1, <2>5, <2>6
<1>2. CASE ListArrives
  <2>1. list.at = "read" /\ shown' = (IF list.clean THEN list.value ELSE shown)
    BY <1>2 DEF ListArrives, Reconcile
  <2>2. list.clean /\ Running(list.value)
    BY <1>s, <2>1
  <2>. QED
    BY <1>i, <2>1, <2>2 DEF EndOK
<1>3. CASE SendArrives
  <2>1. op["send"].at = "done" /\ shown' = (IF op["send"].fresh THEN op["send"].value ELSE shown)
    BY <1>3 DEF SendArrives, Receipt
  <2>2. op["send"].fresh /\ Running(op["send"].value)
    BY <1>s, <2>1
  <2>. QED
    BY <1>i, <2>1, <2>2 DEF EndOK
<1>4. CASE StopArrives
  BY <1>4 DEF StopArrives, Running, Ended
<1>5. CASE RenameArrives
  <2>1. op["rename"].at = "done" /\ op' = [op EXCEPT !["rename"] = NoOp] /\ "rename" \in Commands
    BY <1>5 DEF RenameArrives, Commands
  <2>. QED
    BY <1>i, <2>1, OpNew
<1>6. ASSUME NEW i \in 1..Len(past), ArrivesAgain(i) PROVE FALSE
  BY <1>i, <1>s, <1>6, AgainNothing
<1>7. CASE AnswerArrives
  BY <1>s, <1>7 DEF AnswerArrives
<1>8. CASE UNCHANGED viewvars
  BY <1>s, <1>8
<1>9. Next => \/ UNCHANGED viewvars \/ Arrives \/ (\E i \in 1..Len(past) : ArrivesAgain(i)) \/ ListArrives
              \/ SendArrives \/ StopArrives \/ RenameArrives \/ AnswerArrives
  BY DEF Next, Dispatch, Reopen, TurnStarted, Message, Asked, Compacting, Compacted, Withdrawn, EndTurn,
         ListRead, AdmitSend, ReadRow, AcceptStop, AcceptAnswer, Refresh, Submit, Send, Ask, Finish
<1>. QED
  BY <1>1, <1>2, <1>3, <1>4, <1>5, <1>6, <1>7, <1>8, <1>9

\* Every variable keeps its type: no more events on their way, cards, turns or generations
\* than the host has made, and no state but one of the states of a session.
THEOREM TypeCorrect == ViewAssumption => (Spec => []TypeOK)
<1>. SUFFICES ASSUME ViewAssumption PROVE Spec => []TypeOK
  OBVIOUS
<1>1. ViewInv => TypeOK
  BY DEF ViewInv
<1>. QED
  BY <1>1, ViewInvariant, PTL

\* However events, list refreshes and receipts pass each other, a window that has heard of
\* everything shows a session running exactly if it is (handleAgentEvent, refreshSessions,
\* sendPromptOnce), unless a receipt of a stop or of a rename came too late.
THEOREM Converges == ViewAssumption => (Spec => []Converged)
<1>. SUFFICES ASSUME ViewAssumption PROVE Spec => []Converged
  OBVIOUS
<1>1. ViewInv => Converged
  BY ConvergedHolds
<1>. QED
  BY <1>1, ViewInvariant, PTL

\* It has a card for every request that waits for the user, and no other (handleAgentEvent,
\* resolveApproval); it shows nothing at work but a turn or a compaction (setSessionActivity).
THEOREM CardsAgree == ViewAssumption => (Spec => []CardsMatch)
<1>. SUFFICES ASSUME ViewAssumption PROVE Spec => []CardsMatch
  OBVIOUS
<1>1. ViewInv => CardsMatch
  BY CardsMatchHolds
<1>. QED
  BY <1>1, ViewInvariant, PTL

\* No event delivered twice, no list and no receipt, but that of a rename, shows a turn
\* running again whose end the window was told (createAgentEventGate, reconcileSessionRefresh).
THEOREM EndsRemain == ViewAssumption => (Spec => EndStays)
<1>. SUFFICES ASSUME ViewAssumption PROVE Spec => EndStays
  OBVIOUS
<1>1. ViewInv /\ [Next]_vars =>
        [~Running(shown) /\ Running(shown') =>
           turns > ended \/ (op["rename"].at = "done" /\ op'["rename"] = NoOp)]_vars
  BY EndsStayStep
<1>. QED
  BY <1>1, ViewInvariant, PTL DEF Spec, EndStays
=============================================================================
