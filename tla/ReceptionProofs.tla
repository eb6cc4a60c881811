--------------------------- MODULE ReceptionProofs ---------------------------
(***************************************************************************)
(* Theorems of Reception, for every size of the read buffer and of the     *)
(* datagrams, and any number of them.                                      *)
(***************************************************************************)
EXTENDS Reception, SequenceTheorems, TLAPS

\* The handle is only polled while the socket reads, is not paused and is open.
PolledSync ==
    /\ polled => reading
    /\ reading => ~paused /\ ~closed

\* An event of the nth arrival is an error or a message with bytes of its own.
TellsItself(e, n) ==
    LET d == arrived[n] IN
    IF d.fault \/ d.len > ReadBufferSize THEN e.error
    ELSE ~e.error /\ e.len = d.len /\ (d.len > 0 => e.bytes = n)

Copied ==
    /\ Len(reported) = taken
    /\ \A n \in 1..taken : TellsItself(reported[n], n)

Inductive == TypeOK /\ PolledSync /\ Copied

-----------------------------------------------------------------------------
(* Steps *)

\* A datagram gives one event, whose bytes are those of its place.
LEMMA OneEvent ==
    ASSUME NEW d \in Arrival, NEW b \in Nat
    PROVE  \E e \in Event :
              /\ on_message(d, b) = <<e>>
              /\ IF d.fault \/ d.len > ReadBufferSize THEN e.error
                 ELSE ~e.error /\ e.len = d.len /\ e.bytes = b
<1>1. d.len \in Nat /\ d.fault \in BOOLEAN
  BY ReceptionAssumption DEF Arrival, ReceptionAssumption
<1>2. CASE d.fault \/ d.len > ReadBufferSize
  <2>1. [error |-> TRUE, len |-> 0, bytes |-> 0] \in Event
    BY DEF Event
  <2> QED
    BY <1>2, <2>1 DEF on_message
<1>3. CASE ~(d.fault \/ d.len > ReadBufferSize)
  <2>1. onmessage(d.len, b) \in Event
    BY <1>1 DEF onmessage, Event
  <2> QED
    BY <1>3, <2>1 DEF on_message, onmessage
<1> QED
  BY <1>2, <1>3

LEMMA InitInductive == Init => Inductive
<1> SUFFICES ASSUME Init
             PROVE  Inductive
  OBVIOUS
<1>1. TypeOK
  <2>1. {paused, reading, polled, closed} \subseteq BOOLEAN
    BY Zenon DEF Init
  <2>2. arrived \in Seq(Arrival) /\ reported \in Seq(Event)
    BY DEF Init
  <2>3. taken \in 0..Len(arrived) /\ poll \in 0..Burst /\ buffer \in Nat
    BY ReceptionAssumption DEF Init, ReceptionAssumption
  <2> QED
    BY <2>1, <2>2, <2>3 DEF Init, TypeOK
<1>2. PolledSync
  BY DEF Init, PolledSync
<1>3. Copied
  BY DEF Init, Copied
<1> QED
  BY <1>1, <1>2, <1>3 DEF Inductive

\* What arrives leaves the events of earlier arrivals true.
LEMMA ArriveKeeps ==
    ASSUME Inductive, NEW d \in Arrival, Arrive(d)
    PROVE  Inductive'
<1> USE DEF Inductive
<1>1. TypeOK'
  BY DEF Arrive, TypeOK
<1>2. PolledSync'
  BY DEF Arrive, PolledSync
<1>3. Copied'
  <2>1. \A n \in 1..taken : arrived'[n] = arrived[n]
    BY DEF Arrive, TypeOK
  <2> QED
    BY <2>1 DEF Arrive, Copied, TellsItself
<1> QED
  BY <1>1, <1>2, <1>3

LEMMA ReceiveKeeps ==
    ASSUME Inductive, Receive
    PROVE  Inductive'
<1> USE DEF Inductive
<1> DEFINE n == taken + 1
           d == arrived[n]
<1>1. n \in 1..Len(arrived) /\ d \in Arrival
  BY DEF Receive, Buffered, TypeOK
<1>2. buffer' \in Nat /\ (~d.fault /\ d.len # 0 => buffer' = n)
  BY <1>1 DEF Receive, TypeOK
<1>3. PICK e \in Event :
          /\ on_message(d, buffer') = <<e>>
          /\ IF d.fault \/ d.len > ReadBufferSize THEN e.error
             ELSE ~e.error /\ e.len = d.len /\ e.bytes = buffer'
  BY <1>1, <1>2, OneEvent
<1>4. reported' = Append(reported, e)
  BY <1>3, AppendIsConcat, Zenon DEF Receive, TypeOK
<1>5. TypeOK'
  <2>1. poll' \in 0..Burst
    BY ReceptionAssumption DEF Receive, TypeOK, ReceptionAssumption
  <2>2. reported' \in Seq(Event)
    BY <1>3, <1>4 DEF TypeOK
  <2> QED
    BY <1>1, <1>2, <2>1, <2>2 DEF Receive, TypeOK
<1>6. PolledSync'
  BY DEF Receive, PolledSync
<1>7. Copied'
  <2>1. Len(reported') = taken'
    BY <1>3, <1>4 DEF Receive, Copied, TypeOK
  <2>2. ASSUME NEW k \in 1..taken'
        PROVE  TellsItself(reported[k], k)'
    <3>1. CASE k = n
      <4>1. reported'[k] = e
        BY <1>3, <1>4, <3>1 DEF Copied, TypeOK
      <4>2. d.len \in Nat /\ d.fault \in BOOLEAN
        BY <1>1, ReceptionAssumption DEF Arrival, ReceptionAssumption
      <4>3. IF d.fault \/ d.len > ReadBufferSize THEN e.error
            ELSE ~e.error /\ e.len = d.len /\ (d.len > 0 => e.bytes = n)
        BY <1>2, <1>3, <4>2
      <4>4. arrived' = arrived
        BY DEF Receive
      <4> QED
        BY <3>1, <4>1, <4>3, <4>4 DEF TellsItself
    <3>2. CASE k # n
      <4>1. k \in 1..taken
        BY <3>2 DEF Receive, TypeOK
      <4>2. reported'[k] = reported[k]
        BY <1>3, <1>4, <4>1 DEF Copied, TypeOK
      <4> QED
        BY <4>1, <4>2 DEF Receive, Copied, TellsItself
    <3> QED
      BY <3>1, <3>2
  <2> QED
    BY <2>1, <2>2 DEF Copied
<1> QED
  BY <1>5, <1>6, <1>7

\* The other steps read nothing.
LEMMA OthersKeep ==
    ASSUME Inductive,
           \/ Poll \/ Leave \/ UserTurn \/ Return
           \/ pause \/ resume \/ close
           \/ UNCHANGED vars
    PROVE  Inductive' /\ reported' = reported
<1> USE DEF Inductive
<1>1. UNCHANGED <<arrived, taken, buffer, reported>>
  BY DEF Poll, Leave, UserTurn, Return, pause, resume, close, vars
<1>2. TypeOK'
  <2>1. poll' \in 0..Burst
    BY ReceptionAssumption
       DEF ReceptionAssumption, TypeOK, Poll, Leave, UserTurn, Return, pause, resume, close, vars
  <2> QED
    BY <1>1, <2>1 DEF TypeOK, Poll, Leave, UserTurn, Return, pause, resume, close, vars
<1>3. PolledSync'
  BY DEF PolledSync, TypeOK, Poll, Leave, UserTurn, Return, pause, resume, close, vars
<1>4. Copied'
  BY <1>1 DEF Copied, TellsItself
<1> QED
  BY <1>1, <1>2, <1>3, <1>4

LEMMA StepInductive == Inductive /\ [Next]_vars => Inductive'
<1> SUFFICES ASSUME Inductive, [Next]_vars
             PROVE  Inductive'
  OBVIOUS
<1> QED
  BY ArriveKeeps, ReceiveKeeps, OthersKeep DEF Next

LEMMA AlwaysInductive == Spec => []Inductive
<1> QED
  BY InitInductive, StepInductive, PTL DEF Spec

-----------------------------------------------------------------------------
(* Theorems *)

\* Each datagram that was read gives one event in its order, and the messages
\* the program keeps never change, with any burst and any sizes.
THEOREM MessagesKept == Spec => []NothingLost
<1>1. Inductive => NothingLost
  <2> SUFFICES ASSUME Inductive, NEW n \in DOMAIN reported
               PROVE  Len(reported) = taken /\ Tells(reported[n], n)
    BY DEF NothingLost, Inductive, Copied
  <2>1. n \in 1..taken /\ n # Shared
    BY DEF Inductive, TypeOK, Copied, Shared
  <2>2. arrived[n] \in Arrival
    BY <2>1 DEF Inductive, TypeOK
  <2>3. arrived[n].len \in Nat
    BY <2>2, ReceptionAssumption DEF Arrival, ReceptionAssumption
  <2> QED
    BY <2>1, <2>3 DEF Inductive, Copied, TellsItself, Tells, Bytes
<1> QED
  BY <1>1, AlwaysInductive, PTL

\* pause() and close() take effect at once, in the middle of a poll as well.
THEOREM PauseSilences == Spec => SilentWhenPaused
<1>1. Inductive /\ [Next]_vars => [paused \/ closed => reported' = reported]_vars
  <2> SUFFICES ASSUME Inductive, Next, paused \/ closed
               PROVE  reported' = reported
    OBVIOUS
  <2>1. ~polled
    BY DEF Inductive, PolledSync, TypeOK
  <2>2. CASE \E d \in Arrival : Arrive(d)
    BY <2>2 DEF Arrive
  <2> QED
    BY <2>1, <2>2, OthersKeep DEF Next, Receive
<1> QED
  BY <1>1, AlwaysInductive, PTL DEF Spec, SilentWhenPaused

=============================================================================
