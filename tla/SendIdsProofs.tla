---------------------------- MODULE SendIdsProofs ----------------------------
(***************************************************************************)
(* Theorems of SendIds: a completion finds its request for every width of  *)
(* the ids, as long as no more sends are made while one is in flight than  *)
(* there are ids.                                                          *)
(***************************************************************************)
EXTENDS SendIds, Integers, TLAPS

\* How many ids after that of e the next one is.
Distance(e) == sent - e.request + 1

\* The next id is as far from that of a request in flight as sends were made
\* since, counted around the end of the ids.
IdsApart ==
    \A e \in inflight :
        /\ Distance(e) <= Span
        /\ e.id + Distance(e) = sendId \/ e.id + Distance(e) = sendId + Modulus

Inductive == TypeOK /\ IdsApart /\ OwnRequest /\ AllTold

-----------------------------------------------------------------------------
(* Ids *)

\* An id is what the native handle keeps of it.
LEMMA IdKept ==
    ASSUME NEW a \in Ids
    PROVE  uint32(a) = a
<1> QED
  BY SendIdsAssumption DEF Ids, uint32, SendIdsAssumption

\* The next id is one more, or 0 after the last.
LEMMA NextId ==
    ASSUME NEW a \in Ids
    PROVE  nextId(a) = IF a + 1 = Modulus THEN 0 ELSE a + 1
<1>1. CASE a + 1 = Modulus
  <2>1. Modulus % Modulus = 0
    BY SendIdsAssumption DEF SendIdsAssumption
  <2> QED
    BY <1>1, <2>1 DEF nextId
<1>2. CASE a + 1 # Modulus
  <2>1. a + 1 \in Ids
    BY <1>2, SendIdsAssumption DEF Ids, SendIdsAssumption
  <2>2. (a + 1) % Modulus = a + 1
    BY <2>1, IdKept DEF uint32
  <2> QED
    BY <1>2, <2>2 DEF nextId
<1> QED
  BY <1>1, <1>2

\* The next id is not that of a request in flight.
LEMMA NextIsFree ==
    ASSUME TypeOK, IdsApart, MaySend, NEW e \in inflight
    PROVE  e.id # sendId
<1>1. e.id \in Ids /\ e.request \in 1..sent /\ sent \in Nat /\ sendId \in Ids
  BY DEF TypeOK
<1>2. Distance(e) \in 1..(Span - 1)
  BY <1>1, SendIdsAssumption DEF MaySend, Distance, SendIdsAssumption
<1>3. e.id + Distance(e) = sendId \/ e.id + Distance(e) = sendId + Modulus
  BY DEF IdsApart
<1> QED
  BY <1>1, <1>2, <1>3, SendIdsAssumption DEF Ids, SendIdsAssumption

\* So a new request leaves the ids apart.
LEMMA StaysApart ==
    ASSUME TypeOK, IdsApart, MaySend, NEW e \in inflight,
           sent' = sent + 1, sendId' = nextId(sendId)
    PROVE  /\ Distance(e)' <= Span
           /\ \/ e.id + Distance(e)' = sendId'
              \/ e.id + Distance(e)' = sendId' + Modulus
<1>1. e.id \in Ids /\ e.request \in 1..sent /\ sent \in Nat /\ sendId \in Ids
  BY DEF TypeOK
<1>2. Distance(e) \in 1..(Span - 1) /\ Distance(e)' = Distance(e) + 1
  BY <1>1, SendIdsAssumption DEF MaySend, Distance, SendIdsAssumption
<1>3. e.id + Distance(e) = sendId \/ e.id + Distance(e) = sendId + Modulus
  BY DEF IdsApart
<1>4. sendId' = IF sendId + 1 = Modulus THEN 0 ELSE sendId + 1
  BY <1>1, NextId
<1>5. Distance(e)' <= Span
  BY <1>2, SendIdsAssumption DEF SendIdsAssumption
<1>6. CASE sendId + 1 = Modulus
  BY <1>1, <1>2, <1>3, <1>4, <1>6, SendIdsAssumption DEF Ids, SendIdsAssumption
<1>7. CASE sendId + 1 # Modulus
  BY <1>1, <1>2, <1>3, <1>4, <1>7, SendIdsAssumption DEF Ids, SendIdsAssumption
<1> QED
  BY <1>5, <1>6, <1>7

\* Entries with the same id or the same request are the same.
LEMMA Distinct ==
    ASSUME Inductive, NEW e \in inflight, NEW f \in inflight, e.id = f.id \/ e.request = f.request
    PROVE  e = f
<1>1. e \in [id : Ids, request : 1..sent] /\ f \in [id : Ids, request : 1..sent]
  BY DEF Inductive, TypeOK
<1>2. e.request = f.request
  BY DEF Inductive, OwnRequest
<1>3. e.id = f.id
  <2>1. sent \in Nat /\ sendId \in Ids
    BY DEF Inductive, TypeOK
  <2>2. Distance(e) = Distance(f)
    BY <1>2 DEF Distance
  <2>3. /\ e.id + Distance(e) = sendId \/ e.id + Distance(e) = sendId + Modulus
        /\ f.id + Distance(f) = sendId \/ f.id + Distance(f) = sendId + Modulus
    BY DEF Inductive, IdsApart
  <2>4. Distance(e) \in Nat
    BY <1>1, <2>1 DEF Distance
  <2> QED
    BY <1>1, <2>1, <2>2, <2>3, <2>4, SendIdsAssumption DEF Ids, SendIdsAssumption
<1> QED
  BY <1>1, <1>2, <1>3

-----------------------------------------------------------------------------
(* Steps *)

LEMMA InitInductive == Init => Inductive
<1> SUFFICES ASSUME Init
             PROVE  Inductive
  OBVIOUS
<1>1. TypeOK
  <2>1. 0 \in Ids
    BY SendIdsAssumption DEF Ids, SendIdsAssumption
  <2>2. sends \in [Ids -> 0..sent]
    BY DEF Init, NoRequest
  <2> QED
    BY <2>1, <2>2 DEF Init, TypeOK
<1>2. {e.request : e \in inflight} = {} /\ 1..sent = {}
  BY DEF Init
<1>3. IdsApart /\ OwnRequest /\ AllTold
  BY <1>2 DEF Init, IdsApart, OwnRequest, AllTold, NoRequest
<1> QED
  BY <1>1, <1>3 DEF Inductive

LEMMA SendKeeps ==
    ASSUME Inductive, _send
    PROVE  Inductive'
<1>1. /\ sent \in Nat /\ sent' = sent + 1
      /\ sendId \in Ids /\ sendId' = nextId(sendId)
      /\ MaySend /\ closed' = closed
  BY DEF _send, Inductive, TypeOK
<1>2. sendId' \in Ids
  BY <1>1, NextId, SendIdsAssumption DEF Ids, SendIdsAssumption
<1>3. \A e \in inflight :
         /\ e.id # sendId /\ e.id \in Ids /\ e.request \in 1..sent
         /\ Distance(e)' <= Span
         /\ e.id + Distance(e)' = sendId' \/ e.id + Distance(e)' = sendId' + Modulus
  BY <1>1, NextIsFree, StaysApart DEF Inductive, TypeOK
<1>4. ASSUME sends' = [sends EXCEPT ![sendId] = NoRequest],
             told' = told \cup {sent'}, inflight' = inflight
      PROVE  Inductive'
  <2>1. TypeOK'
    BY <1>1, <1>2, <1>4 DEF Inductive, TypeOK, NoRequest
  <2>2. IdsApart'
    BY <1>3, <1>4 DEF IdsApart
  <2>3. OwnRequest'
    BY <1>1, <1>3, <1>4 DEF Inductive, TypeOK, OwnRequest
  <2>4. AllTold'
    <3>1. told' = 1..sent' \ {e.request : e \in inflight'}
      BY <1>1, <1>3, <1>4 DEF Inductive, AllTold
    <3>2. ASSUME NEW id \in Ids, sends'[id] # NoRequest
          PROVE  \E e \in inflight' : e.id = id
      BY <1>4, <3>2 DEF Inductive, TypeOK, AllTold
    <3> QED
      BY <3>1, <3>2 DEF AllTold
  <2> QED
    BY <2>1, <2>2, <2>3, <2>4 DEF Inductive
<1>5. ASSUME sends' = [sends EXCEPT ![sendId] = sent'], told' = told,
             inflight' = inflight \cup {[id |-> uint32(sendId), request |-> sent']}
      PROVE  Inductive'
  <2>1. PICK new : new = [id |-> sendId, request |-> sent'] /\ inflight' = inflight \cup {new}
    BY <1>1, <1>5, IdKept
  <2>2. TypeOK'
    <3>1. sends' \in [Ids -> 0..sent']
      BY <1>1, <1>5 DEF Inductive, TypeOK
    <3>2. inflight' \subseteq [id : Ids, request : 1..sent']
      BY <1>1, <2>1 DEF Inductive, TypeOK
    <3> QED
      BY <1>1, <1>2, <1>5, <3>1, <3>2 DEF Inductive, TypeOK
  <2>3. IdsApart'
    <3>1. /\ Distance(new)' <= Span
          /\ new.id + Distance(new)' = sendId' \/ new.id + Distance(new)' = sendId' + Modulus
      <4>1. Distance(new)' = 1
        BY <1>1, <2>1 DEF Distance
      <4> QED
        BY <1>1, <2>1, <4>1, NextId, SendIdsAssumption DEF Ids, SendIdsAssumption
    <3> QED
      BY <1>3, <2>1, <3>1 DEF IdsApart
  <2>4. OwnRequest'
    BY <1>1, <1>3, <1>5, <2>1 DEF Inductive, TypeOK, OwnRequest
  <2>5. AllTold'
    <3>1. {e.request : e \in inflight'} = {e.request : e \in inflight} \cup {sent'}
      BY <2>1
    <3>2. told' = 1..sent' \ {e.request : e \in inflight'}
      BY <1>1, <1>5, <3>1 DEF Inductive, AllTold
    <3>3. ASSUME NEW id \in Ids, sends'[id] # NoRequest
          PROVE  \E e \in inflight' : e.id = id
      <4>1. CASE id = sendId
        BY <2>1, <4>1
      <4>2. CASE id # sendId
        BY <1>5, <2>1, <3>3, <4>2 DEF Inductive, TypeOK, AllTold
      <4> QED
        BY <4>1, <4>2
    <3> QED
      BY <3>2, <3>3 DEF AllTold
  <2> QED
    BY <2>2, <2>3, <2>4, <2>5 DEF Inductive
<1> QED
  BY <1>4, <1>5 DEF _send

LEMMA OnsendKeeps ==
    ASSUME Inductive, NEW e \in inflight, _onsend(e)
    PROVE  Inductive'
<1>1. e.id \in Ids /\ e.request \in 1..sent /\ sends[e.id] = e.request /\ sent \in Nat
  BY DEF Inductive, TypeOK, OwnRequest
<1>2. /\ inflight' = inflight \ {e}
      /\ sends' = [sends EXCEPT ![e.id] = NoRequest]
      /\ told' = told \cup {e.request}
      /\ UNCHANGED <<sendId, closed, sent>>
  BY <1>1 DEF _onsend, NoRequest
<1>3. \A f \in inflight' : f \in inflight /\ f.id # e.id /\ f.request # e.request
  BY <1>2, Distinct
<1>4. TypeOK'
  <2>1. sends' \in [Ids -> 0..sent']
    BY <1>1, <1>2 DEF Inductive, TypeOK, NoRequest
  <2>2. inflight' \subseteq [id : Ids, request : 1..sent'] /\ told' \subseteq 1..sent'
    BY <1>1, <1>2 DEF Inductive, TypeOK
  <2> QED
    BY <1>2, <2>1, <2>2 DEF Inductive, TypeOK
<1>5. IdsApart'
  BY <1>2 DEF Inductive, IdsApart, Distance
<1>6. OwnRequest'
  BY <1>2, <1>3 DEF Inductive, TypeOK, OwnRequest
<1>7. AllTold'
  <2>1. {f.request : f \in inflight'} = {f.request : f \in inflight} \ {e.request}
    BY <1>2, <1>3
  <2>2. told' = 1..sent' \ {f.request : f \in inflight'}
    BY <1>1, <1>2, <2>1 DEF Inductive, AllTold
  <2>3. ASSUME NEW id \in Ids, sends'[id] # NoRequest
        PROVE  \E f \in inflight' : f.id = id
    <3>1. id # e.id /\ sends[id] # NoRequest
      BY <1>1, <1>2, <2>3 DEF Inductive, TypeOK
    <3> QED
      BY <1>2, <3>1 DEF Inductive, AllTold
  <2> QED
    BY <2>2, <2>3 DEF AllTold
<1> QED
  BY <1>4, <1>5, <1>6, <1>7 DEF Inductive

LEMMA OncloseKeeps ==
    ASSUME Inductive, _onclose
    PROVE  Inductive'
<1>1. TypeOK'
  BY DEF _onclose, Inductive, TypeOK, NoRequest
<1>2. IdsApart' /\ OwnRequest' /\ AllTold'
  BY DEF _onclose, Inductive, TypeOK, IdsApart, OwnRequest, AllTold
<1> QED
  BY <1>1, <1>2 DEF Inductive

LEMMA StepInductive == Inductive /\ [Next]_vars => Inductive'
<1> SUFFICES ASSUME Inductive, [Next]_vars
             PROVE  Inductive'
  OBVIOUS
<1>1. CASE UNCHANGED vars
  BY <1>1 DEF vars, Inductive, TypeOK, IdsApart, Distance, OwnRequest, AllTold
<1> QED
  BY <1>1, SendKeeps, OnsendKeeps, OncloseKeeps DEF Next

LEMMA AlwaysInductive == Spec => []Inductive
<1> QED
  BY InitInductive, StepInductive, PTL DEF Spec

-----------------------------------------------------------------------------
(* Theorems *)

\* Fields hold values of their kinds, the ids those that fit 32 bits.
THEOREM IdsTyped == Spec => []TypeOK
<1> QED
  BY AlwaysInductive, PTL DEF Inductive

\* A completion brings back the id of its own request: so may DgramSocket let it
\* name the request.
THEOREM IdsFindRequests == Spec => []OwnRequest
<1> QED
  BY AlwaysInductive, PTL DEF Inductive

\* And no outcome is lost or told of another request, and _sends does not grow.
THEOREM OutcomesTold == Spec => []AllTold
<1> QED
  BY AlwaysInductive, PTL DEF Inductive

=============================================================================
