--------------------- MODULE DgramSocketRefinementProofs ---------------------
(***************************************************************************)
(* DgramSocket implements SocketLifecycle and, if nothing throws or fails  *)
(* in the middle of its work, SendContract.                                *)
(***************************************************************************)
EXTENDS DgramSocketRefinement, DgramSocketRequests

-----------------------------------------------------------------------------
(* The life of the getters *)

LifeStep == [Lifecycles!Next]_(Lifecycles!vars)

Getters == {"BOUND", "CONNECTED", "CLOSING", "CLOSED"}

\* A step that sets none of the four bits is no step of the life.
LEMMA OtherBits ==
    ASSUME \A bit \in Getters : bit \in state' <=> bit \in state
    PROVE  LifeStep
<1>1. /\ ("BOUND" \in state') = ("BOUND" \in state)
      /\ ("CONNECTED" \in state') = ("CONNECTED" \in state)
      /\ ("CLOSING" \in state') = ("CLOSING" \in state)
      /\ ("CLOSED" \in state') = ("CLOSED" \in state)
  BY DEF Getters
<1>2. Lifecycles!vars' = Lifecycles!vars
  BY Zenon, <1>1 DEF Lifecycles!vars
<1> QED BY <1>2 DEF LifeStep

\* The end of a bind sets one of them, if it was not set.
LEMMA BoundStep ==
    ASSUME ~Closing(state), NEW st,
           state \subseteq st, st \subseteq state \cup {"BINDING", "CONNECTING"},
           state' \ {"READING"} = (st \cup {"BOUND"}) \ {"BINDING", "READING"}
    PROVE  LifeStep
<1>1. /\ "BOUND" \in state'
      /\ \A bit \in {"CONNECTED", "CLOSING", "CLOSED"} : bit \in state' <=> bit \in state
      /\ "CLOSING" \notin state /\ "CLOSED" \notin state
  BY DEF Closing
<1>2. CASE "BOUND" \in state
  BY <1>1, <1>2, OtherBits DEF Getters
<1>3. CASE "BOUND" \notin state
  <2>1. Lifecycles!Bind
    BY <1>1, <1>3 DEF Lifecycles!Bind
  <2> QED BY <2>1 DEF LifeStep, Lifecycles!Next
<1> QED BY <1>2, <1>3

\* Connecting a bound socket is a step of the life, if it was not connected.
LEMMA ConnectedStep ==
    ASSUME NEW st, st \subseteq state \cup {"CONNECTING"}, state \subseteq st,
           \/ state' = st
           \/ state' = st \ {"CONNECTING"}
           \/ /\ "BOUND" \in state
              /\ state' = (st \ {"CONNECTING"}) \cup {"CONNECTED"}
    PROVE  LifeStep
<1>1. \A bit \in {"BOUND", "CLOSING", "CLOSED"} : bit \in state' <=> bit \in state
  OBVIOUS
<1>2. CASE "CONNECTED" \in state' <=> "CONNECTED" \in state
  BY <1>1, <1>2, OtherBits DEF Getters
<1>3. CASE "CONNECTED" \in state' /\ "CONNECTED" \notin state
  <2>1. "BOUND" \in state
    BY <1>3
  <2>2. Lifecycles!Connect
    BY <1>1, <1>3, <2>1 DEF Lifecycles!Connect
  <2> QED BY <2>2 DEF LifeStep, Lifecycles!Next
<1>4. "CONNECTED" \in state => "CONNECTED" \in state'
  OBVIOUS
<1> QED BY <1>2, <1>3, <1>4

-----------------------------------------------------------------------------
(* One lemma per kind of call *)

\* A bind and its failure are steps of the life, with what else the call sets.
LEMMA BindWithLife ==
    ASSUME TypeOK, ~Closing(state),
           NEW results \in SUBSET Result, \A res \in results : LifeOf(res.h) = LifeOf(h),
           NEW st \in SUBSET Bits,
           state \subseteq st, st \subseteq state \cup {"BINDING", "CONNECTING"},
           NEW pz \in BOOLEAN, NEW pend, NEW rest,
           bindWith(results, st, pz, pend, rest)
    PROVE  LifeStep
<1>0. ~Closing(st)
  BY DEF Closing
<1>1. \/ state' \ {"READING"} = (st \cup {"BOUND"}) \ {"BINDING", "READING"}
      \/ onbinderror(h', st, pend, rest)
  BY <1>0, BindWithFacts
<1>2. CASE state' \ {"READING"} = (st \cup {"BOUND"}) \ {"BINDING", "READING"}
  BY <1>2, BoundStep
<1>3. CASE onbinderror(h', st, pend, rest)
  <2>1. state' = st
    BY <1>3 DEF onbinderror
  <2> QED BY <2>1, OtherBits DEF Getters
<1> QED BY <1>1, <1>2, <1>3

\* So is queueing a function, and the bind that begins with it.
LEMMA BindMaybeLife ==
    ASSUME TypeOK, ~Closing(state), NEW fn, NEW st \in SUBSET Bits,
           state \subseteq st, st \subseteq state \cup {"CONNECTING"},
           NEW pz \in BOOLEAN, bindMaybe(fn, st, pz)
    PROVE  LifeStep
<1>1. CASE state' = st
  BY <1>1, OtherBits DEF Getters
<1>2. CASE bindWith(bare_dgram_bind(h), st \cup {"BINDING"}, pz, Append(pending, fn), stack)
  <2>1. /\ bare_dgram_bind(h) \in SUBSET Result
        /\ \A res \in bare_dgram_bind(h) : LifeOf(res.h) = LifeOf(h)
    BY BindResult, CallsKeepLife DEF TypeOK
  <2>2. st \cup {"BINDING"} \in SUBSET Bits
    BY DEF Bits
  <2> QED BY <1>2, <2>1, <2>2, BindWithLife
<1> QED BY <1>1, <1>2 DEF bindMaybe

\* So is looking up the host of a connect on a socket that is bound.
LEMMA ResolveConnectLife ==
    ASSUME TypeOK, NEW st \in SUBSET Bits,
           state \subseteq st, st \subseteq state \cup {"CONNECTING"},
           "BOUND" \in state \/ Closing(state), NEW rest,
           resolveConnect(st, rest) \/ \E ok \in BOOLEAN : connectResolved(st, ok, rest)
    PROVE  LifeStep
<1>1. \/ state' = st
      \/ state' = st \ {"CONNECTING"}
      \/ ~Closing(st) /\ state' = (st \ {"CONNECTING"}) \cup {"CONNECTED"}
  BY ConnectFacts
<1>2. Closing(state) => Closing(st)
  BY DEF Closing
<1> QED BY <1>1, <1>2, ConnectedStep

\* The calls that bind or connect.
LEMMA BindingCallsLive ==
    ASSUME LateAccept = FALSE, Inductive, stack # <<>>,
           bind \/ connect \/ (\E r \in Req : send(r)) \/ ipcAccept
    PROVE  LifeStep
<1>1. TypeOK /\ state \in SUBSET Bits /\ paused \in BOOLEAN
  BY DEF Inductive, TypeOK
<1>2. /\ state \cup {"BINDING"} \in SUBSET Bits
      /\ state \cup {"CONNECTING"} \in SUBSET Bits
  BY <1>1 DEF Bits
<1>3. \A results \in {bare_dgram_open(h), bare_dgram_bind(h)} :
         /\ results \in SUBSET Result
         /\ \A res \in results : LifeOf(res.h) = LifeOf(h)
  BY <1>1, OpenResult, BindResult, CallsKeepLife DEF TypeOK
<1>4. CASE bind
  <2>1. CASE state' = state \cup {"BINDING"}
    BY <2>1, OtherBits DEF Getters
  <2>2. CASE \E results \in {bare_dgram_open(h), bare_dgram_bind(h)} :
                bindWith(results, state \cup {"BINDING"}, paused, pending, stack)
    BY <1>1, <1>2, <1>3, <1>4, <2>2, BindWithLife DEF bind
  <2> QED BY <1>4, <2>1, <2>2 DEF bind, onbinderror
<1>5. CASE connect
  <2>1. CASE "BOUND" \in state \cup {"CONNECTING"} /\ resolveConnect(state \cup {"CONNECTING"}, stack)
    BY <1>1, <1>2, <2>1, ResolveConnectLife
  <2>2. CASE bindMaybe("connect", state \cup {"CONNECTING"}, paused)
    BY <1>1, <1>2, <1>5, <2>2, BindMaybeLife DEF connect
  <2> QED BY <1>5, <2>1, <2>2 DEF connect
<1>6. ASSUME NEW r \in Req, send(r)
      PROVE  LifeStep
  <2>1. CASE state' = state
    BY <2>1, OtherBits
  <2>2. CASE bindMaybe(r, state, paused)
    BY <1>1, <1>6, <2>2, BindMaybeLife DEF send
  <2> QED BY <1>6, <2>1, <2>2 DEF send
<1>7. CASE ipcAccept
  <2>1. PICK res \in bare_dgram_open(h) : onbind(res.h, state, paused, pending, stack)
    BY <1>7 DEF ipcAccept
  <2>2. res.h \in Handle
    BY <1>1, OpenResult DEF TypeOK, Result
  <2>3. state' \ {"READING"} = (state \cup {"BOUND"}) \ {"BINDING", "READING"}
    BY <1>1, <2>1, <2>2, OnBindFacts
  <2>4. ~Closing(state)
    BY <1>7 DEF ipcAccept
  <2> QED BY <2>3, <2>4, BoundStep
<1> QED BY <1>4, <1>5, <1>6, <1>7

\* The calls that do neither; close() takes the two bits together.
LEMMA OtherCallsLive ==
    ASSUME Inductive, disconnect \/ pause \/ resume \/ close \/ setOption \/ ref \/ unref
    PROVE  LifeStep
<1>1. TypeOK /\ state \in SUBSET Bits
  BY DEF Inductive, TypeOK
<1>2. CASE pause \/ setOption \/ ref \/ unref
  BY <1>2, OtherBits DEF pause, setOption, ref, unref, Getters
<1>3. CASE disconnect
  <2>1. CASE state' = state
    BY <2>1, OtherBits
  <2>2. CASE "CONNECTED" \in state /\ state' = state \ {"CONNECTED"}
    <3>1. Lifecycles!Disconnect
      <4>1. /\ "CONNECTED" \notin state'
            /\ \A bit \in {"BOUND", "CLOSING", "CLOSED"} : bit \in state' <=> bit \in state
        BY <2>2
      <4> QED BY <2>2, <4>1 DEF Lifecycles!Disconnect
    <3> QED BY <3>1 DEF LifeStep, Lifecycles!Next
  <2> QED BY <1>3, <2>1, <2>2 DEF disconnect
<1>4. CASE close
  <2>1. CASE state' = state
    BY <2>1, OtherBits
  <2>2. CASE /\ ~Closing(state)
             /\ state' = (state \ {"BINDING", "BOUND", "CONNECTING", "CONNECTED", "READING"})
                            \cup {"CLOSING"}
    <3>1. /\ "CLOSING" \notin state /\ "CLOSED" \notin state
          /\ "BOUND" \notin state' /\ "CONNECTED" \notin state'
          /\ "CLOSING" \in state' /\ "CLOSED" \notin state'
      BY <2>2 DEF Closing
    <3>2. Lifecycles!Close
      BY <3>1 DEF Lifecycles!Close
    <3> QED BY <3>2 DEF LifeStep, Lifecycles!Next
  <2> QED BY <1>4, <2>1, <2>2 DEF close
<1>5. CASE resume
  <2>1. CASE state' = state
    BY <2>1, OtherBits
  <2>2. CASE \E res \in resumed(h, state, FALSE) : state' = res.state
    <3>1. state' \ {"READING"} = state \ {"READING"}
      BY <2>2 DEF resumed
    <3> QED BY <3>1, OtherBits DEF Getters
  <2>3. CASE ~Closing(state) /\ bindMaybe("resume", state, FALSE)
    BY <1>1, <2>3, BindMaybeLife
  <2> QED BY <1>5, <2>1, <2>2, <2>3 DEF resume
<1> QED BY <1>2, <1>3, <1>4, <1>5

\* The functions of a flush, and the microtasks.
LEMMA FlushesLive ==
    ASSUME Inductive, flushNext \/ flushError \/ flushDone \/ runMicrotask \/ runBindError
    PROVE  LifeStep
<1>1. TypeOK /\ state \in SUBSET Bits
  BY DEF Inductive, TypeOK
<1>2. CASE flushError \/ flushDone \/ runMicrotask \/ runBindError
  BY <1>2, OtherBits DEF flushError, flushDone, runMicrotask, runBindError, Getters
<1>3. CASE flushNext
  <2> DEFINE rest == Push("bound", Tail(Head(stack).fns), Tail(stack))
  <2>1. CASE state' = state
    BY <2>1, OtherBits
  <2>2. CASE resolveConnect(state, rest)
    <3>1. stack \notin Seq(UnboundFrame)
      <4>1. stack # <<>> /\ Head(stack).kind = "bound"
        BY <1>3 DEF flushNext, InFlush
      <4>2. ASSUME stack \in Seq(UnboundFrame) PROVE Head(stack) \in UnboundFrame
        BY <4>1, <4>2, HeadTailProperties
      <4> QED BY <4>1, <4>2 DEF UnboundFrame
    <3>2. "BOUND" \in state \/ Closing(state)
      BY <3>1 DEF Inductive, ConnectBound
    <3> QED BY <1>1, <2>2, <3>2, ResolveConnectLife
  <2>3. CASE \E res \in resumed(h, state, paused) : state' = res.state
    <3>1. state' \ {"READING"} = state \ {"READING"}
      BY <2>3 DEF resumed
    <3> QED BY <3>1, OtherBits DEF Getters
  <2> QED BY <1>3, <2>1, <2>2, <2>3 DEF flushNext
<1> QED BY <1>2, <1>3

\* The lookups and the handle.
LEMMA CallbacksLive ==
    ASSUME Inductive,
           \/ \E ok \in BOOLEAN : lookupBind(ok) \/ lookupConnect(ok)
           \/ onclose
    PROVE  LifeStep
<1>1. TypeOK /\ state \in SUBSET Bits /\ paused \in BOOLEAN
  BY DEF Inductive, TypeOK
<1>2. ASSUME NEW ok \in BOOLEAN, lookupBind(ok)
      PROVE  LifeStep
  <2>1. CASE state' = state
    BY <2>1, OtherBits
  <2>2. CASE ~Closing(state) /\ bindWith(bare_dgram_bind(h), state, paused, pending, <<>>)
    <3>1. /\ bare_dgram_bind(h) \in SUBSET Result
          /\ \A res \in bare_dgram_bind(h) : LifeOf(res.h) = LifeOf(h)
      BY <1>1, BindResult, CallsKeepLife DEF TypeOK
    <3> QED BY <1>1, <2>2, <3>1, BindWithLife
  <2> QED BY <1>2, <2>1, <2>2 DEF lookupBind, onbinderror
<1>3. ASSUME NEW ok \in BOOLEAN, lookupConnect(ok)
      PROVE  LifeStep
  <2>1. "BOUND" \in state \/ Closing(state)
    BY <1>3 DEF lookupConnect, Inductive, ConnectBound
  <2> QED BY <1>1, <1>3, <2>1, ResolveConnectLife DEF lookupConnect
<1>4. CASE onclose
  <2>1. CASE state' = state
    BY <2>1, OtherBits
  <2>2. CASE ~h.exiting /\ state' = (state \cup {"CLOSED"}) \ {"CLOSING"}
    <3>1. h.loop = "closing"
      BY <1>4 DEF onclose, CanClose
    <3>2. "CLOSING" \in state
      BY <2>2, <3>1 DEF Inductive, Lifecycle
    <3>3. /\ "CLOSING" \notin state' /\ "CLOSED" \in state'
          /\ \A bit \in {"BOUND", "CONNECTED"} : bit \in state' <=> bit \in state
      BY <2>2
    <3>4. Lifecycles!Closed
      BY <3>2, <3>3 DEF Lifecycles!Closed
    <3> QED BY <3>4 DEF LifeStep, Lifecycles!Next
  <2> QED BY <1>4, <2>1, <2>2 DEF onclose
<1> QED BY <1>2, <1>3, <1>4

-----------------------------------------------------------------------------

\* A new socket begins the life.
LEMMA LifeBegins == Init => Lifecycles!Init
BY DEF Init, Lifecycles!Init

\* Every step of the socket is a step of the life or leaves the getters alone.
LEMMA StepsLive ==
    ASSUME LateAccept = FALSE
    PROVE  Inductive /\ [Next]_vars => LifeStep
<1> SUFFICES ASSUME Inductive, [Next]_vars PROVE LifeStep
  OBVIOUS
<1>1. CASE UserCall
  BY <1>1, BindingCallsLive, OtherCallsLive DEF UserCall, InUserCode
<1>2. CASE flushNext \/ flushError \/ flushDone \/ runMicrotask \/ runBindError
  BY <1>2, FlushesLive
<1>3. CASE (\E ok \in BOOLEAN : lookupBind(ok) \/ lookupConnect(ok)) \/ onclose
  BY <1>3, CallbacksLive
<1>4. CASE state' = state
  BY <1>4, OtherBits
<1>5. ASSUME \/ Return \/ Throw \/ userTurn \/ onteardown \/ UNCHANGED vars
             \/ \E r \in Req, ok \in BOOLEAN : lookupSend(r, ok)
             \/ \E err \in BOOLEAN : onmessage(err) \/ onsend(err)
      PROVE  state' = state
  BY <1>5 DEF Return, Throw, userTurn, onteardown, lookupSend, onmessage, onsend, vars
<1> QED BY <1>1, <1>2, <1>3, <1>4, <1>5 DEF Next

\* Whatever the program calls and the callbacks interleave, the getters bound,
\* connected, closing and closed (index.js, _state) go through the abstract life,
\* provided that no pipe accepts onto a socket that was closed, which [ipcAccept]
\* would bind again.
THEOREM LifecycleRefined ==
    ASSUME LateAccept = FALSE
    PROVE  Spec => LifecycleSpec
<1>1. Inductive /\ [Next]_vars => [Lifecycles!Next]_(Lifecycles!vars)
  BY StepsLive DEF LifeStep
<1> QED BY <1>1, LifeBegins, InductiveInvariant, PTL DEF Spec, LifecycleSpec, Lifecycles!Spec

-----------------------------------------------------------------------------
(* The contract of sends.  In these lemmas nothing throws and nothing fails. *)

ContractStep == [Contract!Next]_(Contract!vars)

Statuses == [r \in Req |-> RequestStatus(r)]

NoneClosed(s) == \A k \in DOMAIN s : s[k].kind # "closed"

\* The program hears no more and no less of the closing of the socket.
SamePhase ==
    /\ "CLOSING" \in state' <=> "CLOSING" \in state
    /\ "CLOSED" \in state' <=> "CLOSED" \in state
    /\ "CLOSED" \in state => (NoneClosed(stack') <=> NoneClosed(stack))

SameRequests ==
    /\ UNCHANGED <<issued, settled, sends>>
    /\ \A r \in Req : r \in lookups' <=> r \in lookups

\* Only one request goes somewhere else.
OnlyMoves(r) ==
    \A q \in Req \ {r} :
        /\ q \in issued' <=> q \in issued
        /\ q \in settled' <=> q \in settled
        /\ q \in sends' <=> q \in sends
        /\ q \in lookups' <=> q \in lookups

\* From the start or from a place it leaves, it is resolved, sent or reported.
Goes(r) ==
    \/ r \in settled'
    \/ r \notin settled' /\ r \in sends' /\ ~Closing(state)
    \/ r \notin settled' /\ r \notin sends' /\ r \in lookups'

LEMMA PhaseStays ==
    ASSUME SamePhase
    PROVE  ContractPhase' = ContractPhase
<1>1. Closing(state)' = Closing(state)
  BY DEF SamePhase, Closing
<1>2. HasClosed' = HasClosed
  BY DEF SamePhase, HasClosed, NoneClosed
<1> QED BY <1>1, <1>2 DEF ContractPhase

\* A step that leaves both alone is a step of the contract that changes nothing.
LEMMA ContractStays ==
    ASSUME SamePhase, SameRequests
    PROVE  ContractStep
<1>1. ASSUME NEW r \in Req
      PROVE  RequestStatus(r)' = RequestStatus(r)
  BY <1>1 DEF SameRequests, RequestStatus
<1>2. Statuses' = Statuses
  BY <1>1 DEF Statuses
<1>3. Contract!vars' = Contract!vars
  BY <1>2, PhaseStays DEF Contract!vars, Statuses
<1> QED BY <1>3 DEF ContractStep

\* One request may change its status.
LEMMA StatusBecomes ==
    ASSUME NEW r \in Req, OnlyMoves(r)
    PROVE  Statuses' = [Statuses EXCEPT ![r] = RequestStatus(r)']
<1>1. ASSUME NEW q \in Req \ {r}
      PROVE  RequestStatus(q)' = RequestStatus(q)
  BY <1>1 DEF OnlyMoves, RequestStatus
<1> QED BY <1>1 DEF Statuses

\* The request of a send that waits goes on: as the contract has it, in any way.
LEMMA RequestGoesOn ==
    ASSUME NEW r \in Req, OnlyMoves(r), SamePhase, r \in issued, r \in issued',
           \/ /\ RequestStatus(r) = "queued" /\ "CLOSED" \notin state /\ Goes(r)
           \/ /\ RequestStatus(r) = "resolving"
              /\ Goes(r) /\ (r \in settled' \/ r \in sends')
           \/ /\ RequestStatus(r) \in {"queued", "sent"}
              /\ r \in settled'
    PROVE  ContractStep
<1>1. Statuses' = [Statuses EXCEPT ![r] = RequestStatus(r)'] /\ Statuses[r] = RequestStatus(r)
  BY StatusBecomes DEF Statuses
<1>2. ContractPhase' = ContractPhase
  BY PhaseStays
<1>3. CASE r \in settled'
  <2>1. RequestStatus(r)' = "reported"
    BY <1>3 DEF RequestStatus
  <2>2. Contract!Report(r)
    BY <1>1, <1>2, <2>1 DEF Contract!Report, Contract!Becomes, Statuses
  <2> QED BY <2>2 DEF ContractStep, Contract!Next
<1>4. CASE r \notin settled' /\ r \in sends' /\ ~Closing(state)
  <2>1. RequestStatus(r)' = "sent"
    BY <1>4 DEF RequestStatus
  <2>2. ContractPhase = "open"
    BY <1>4 DEF ContractPhase, HasClosed, Closing
  <2>3. Contract!Transmit(r)
    BY <1>1, <1>2, <1>4, <2>1, <2>2 DEF Contract!Transmit, Contract!Becomes, Statuses
  <2> QED BY <2>3 DEF ContractStep, Contract!Next
<1>5. CASE r \notin settled' /\ r \notin sends' /\ r \in lookups'
  <2>1. RequestStatus(r)' = "resolving"
    BY <1>5 DEF RequestStatus
  <2>2. ContractPhase # "closed" /\ RequestStatus(r) = "queued"
    BY <1>5 DEF ContractPhase, HasClosed
  <2>3. Contract!Resolve(r)
    BY <1>1, <1>2, <2>1, <2>2 DEF Contract!Resolve, Contract!Becomes, Statuses
  <2> QED BY <2>3 DEF ContractStep, Contract!Next
<1> QED BY <1>3, <1>4, <1>5 DEF Goes

\* A socket that has closed never sends the request of a send, which is new.
LEMMA RequestAccepted ==
    ASSUME NEW r \in Req, OnlyMoves(r), SamePhase, ~Closing(state),
           r \notin issued, r \in issued'
    PROVE  ContractStep
<1>1. Statuses' = [Statuses EXCEPT ![r] = RequestStatus(r)'] /\ Statuses[r] = RequestStatus(r)
  BY StatusBecomes DEF Statuses
<1>2. ContractPhase' = ContractPhase /\ ContractPhase = "open"
  BY PhaseStays DEF ContractPhase, HasClosed, Closing
<1>3. RequestStatus(r) = "unsent"
      /\ RequestStatus(r)' \in {"queued", "resolving", "sent", "reported"}
  BY DEF RequestStatus
<1>4. Contract!Accept(r)
  BY <1>1, <1>2, <1>3 DEF Contract!Accept, Contract!Becomes, Statuses
<1> QED BY <1>4 DEF ContractStep, Contract!Next

-----------------------------------------------------------------------------
(* What the steps do to the closing of the socket and to its requests *)

\* Whether a flush of _onclose is going on, after a push.
LEMMA PushClosed ==
    ASSUME NEW kind \in UserKinds \cup FlushKinds, NEW fns \in Seq(Fn), NEW rest \in Seq(Frame)
    PROVE  NoneClosed(Push(kind, fns, rest)) <=> kind # "closed" /\ NoneClosed(rest)
<1>1. PICK s : s = Push(kind, fns, rest)
  OBVIOUS
<1>2. /\ Len(rest) \in Nat /\ DOMAIN rest = 1..Len(rest)
      /\ DOMAIN s = 1..(Len(rest) + 1)
      /\ s[1] = [kind |-> kind, fns |-> fns]
      /\ \A k \in 1..Len(rest) : s[k + 1] = rest[k]
  BY <1>1, PushFrames
<1>3. ASSUME NoneClosed(s)
      PROVE  kind # "closed" /\ NoneClosed(rest)
  BY <1>2, <1>3 DEF NoneClosed
<1>4. ASSUME kind # "closed", NoneClosed(rest)
      PROVE  NoneClosed(s)
  <2>1. ASSUME NEW k \in 1..(Len(rest) + 1)
        PROVE  s[k].kind # "closed"
    <3>1. CASE k = 1
      BY <1>2, <1>4, <3>1
    <3>2. CASE k # 1
      <4>1. k - 1 \in 1..Len(rest) /\ (k - 1) + 1 = k
        BY <1>2, <3>2
      <4> QED BY <1>2, <1>4, <4>1 DEF NoneClosed
    <3> QED BY <3>1, <3>2
  <2> QED BY <1>2, <2>1 DEF NoneClosed
<1> QED BY <1>1, <1>3, <1>4

LEMMA CallClosed ==
    ASSUME NEW kind \in UserKinds, NEW rest \in Seq(Frame)
    PROVE  NoneClosed(Call(kind, rest)) <=> NoneClosed(rest)
BY PushClosed, EmptySeq DEF Call, UserKinds

\* A bind says nothing of closing, and nothing of the requests.
LEMMA BindContract ==
    ASSUME NEW results, NEW st, NEW pz, NEW pend, NEW rest,
           bindWith(results, st, pz, pend, rest)
    PROVE  \A bit \in {"CLOSING", "CLOSED"} : bit \in state' <=> bit \in st
<1>1. ASSUME NEW hh, onbind(hh, st, pz, pend, rest)
      PROVE  \A bit \in {"CLOSING", "CLOSED"} : bit \in state' <=> bit \in st
  BY <1>1 DEF onbind, resumed
<1> QED BY <1>1 DEF bindWith, onbinderror

LEMMA BindMaybeContract ==
    ASSUME ~Closing(state), NEW fn, NEW st, st \subseteq state \cup {"CONNECTING"},
           state \subseteq st, NEW pz, bindMaybe(fn, st, pz)
    PROVE  SamePhase /\ UNCHANGED <<sends, settled, lookups>>
<1>1. \A bit \in {"CLOSING", "CLOSED"} : bit \in state' <=> bit \in state
  <2>1. CASE state' = st
    BY <2>1
  <2>2. CASE bindWith(bare_dgram_bind(h), st \cup {"BINDING"}, pz, Append(pending, fn), stack)
    <3>1. PICK st1 : st1 = st \cup {"BINDING"}
      OBVIOUS
    <3>2. \A bit \in {"CLOSING", "CLOSED"} : bit \in state' <=> bit \in st1
      BY <2>2, <3>1, BindContract
    <3> QED BY <3>1, <3>2
  <2> QED BY <2>1, <2>2 DEF bindMaybe
<1>2. "CLOSED" \notin state
  BY DEF Closing
<1> QED BY <1>1, <1>2 DEF SamePhase, bindMaybe

\* Nor does the answer of the lookup of connect.
LEMMA ConnectContract ==
    ASSUME Reliable, NEW st, st \subseteq state \cup {"CONNECTING"}, state \subseteq st, NEW rest,
           resolveConnect(st, rest) \/ \E ok \in BOOLEAN : connectResolved(st, ok, rest)
    PROVE  /\ \A bit \in {"CLOSING", "CLOSED"} : bit \in state' <=> bit \in state
           /\ stack' = rest
BY DEF resolveConnect, connectResolved, Reliable

\* The calls that may bind leave the contract alone.
LEMMA BindingCallsContract ==
    ASSUME Inductive, Reliable, bind \/ connect \/ resume \/ (InUserCode /\ ipcAccept)
    PROVE  SamePhase /\ SameRequests
<1>1. "bind" \notin Req /\ "connect" \notin Req
  BY DgramSocketAssumption
<1>2. CASE bind
  <2>1. \A bit \in {"CLOSING", "CLOSED"} : bit \in state' <=> bit \in state
    <3>1. PICK st : st = state \cup {"BINDING"}
      OBVIOUS
    <3>2. CASE state' = st
      BY <3>1, <3>2
    <3>3. CASE \E results : bindWith(results, st, paused, pending, stack)
      <4>1. \A bit \in {"CLOSING", "CLOSED"} : bit \in state' <=> bit \in st
        BY <3>3, BindContract
      <4> QED BY <3>1, <4>1
    <3>4. \/ bindWith(bare_dgram_open(h), st, paused, pending, stack)
          \/ bindWith(bare_dgram_bind(h), st, paused, pending, stack)
          \/ state' = st
      BY <1>2, <3>1 DEF bind, onbinderror
    <3> QED BY <3>2, <3>3, <3>4
  <2>2. "CLOSED" \notin state
    BY <1>2 DEF bind, Closing
  <2>3. SameRequests
    BY <1>1, <1>2 DEF bind, SameRequests
  <2> QED BY <2>1, <2>2, <2>3 DEF SamePhase
<1>3. CASE connect
  <2>1. ~Closing(state) /\ "CLOSED" \notin state
    BY <1>3 DEF connect, Closing
  <2>2. PICK st : st = state \cup {"CONNECTING"}
    OBVIOUS
  <2>3. CASE resolveConnect(st, stack) /\ UNCHANGED <<sends, settled, issued>>
    <3>1. \A bit \in {"CLOSING", "CLOSED"} : bit \in state' <=> bit \in state
      BY <2>2, <2>3, ConnectContract
    <3>2. SameRequests
      BY <1>1, <2>3 DEF resolveConnect, SameRequests
    <3> QED BY <2>1, <3>1, <3>2 DEF SamePhase
  <2>4. CASE bindMaybe("connect", st, paused) /\ issued' = issued
    BY <2>1, <2>2, <2>4, BindMaybeContract DEF SameRequests
  <2> QED BY <1>3, <2>2, <2>3, <2>4 DEF connect
<1>4. CASE resume
  <2>1. CASE UNCHANGED <<state, sends, lookups, stack, settled, issued>>
    BY <2>1 DEF SamePhase, SameRequests
  <2>2. CASE /\ \E res \in resumed(h, state, FALSE) : state' = res.state
             /\ UNCHANGED <<sends, lookups, stack, settled, issued>>
    <3>1. \A bit \in {"CLOSING", "CLOSED"} : bit \in state' <=> bit \in state
      BY <2>2 DEF resumed
    <3> QED BY <2>2, <3>1 DEF SamePhase, SameRequests
  <2>3. CASE ~Closing(state) /\ bindMaybe("resume", state, FALSE) /\ issued' = issued
    BY <2>3, BindMaybeContract DEF SameRequests
  <2> QED BY <1>4, <2>1, <2>2, <2>3 DEF resume
<1>5. CASE InUserCode /\ ipcAccept
  <2>1. TypeOK /\ pending \in Seq(Fn) /\ stack \in Seq(Frame)
    BY DEF Inductive, TypeOK
  <2>2. PICK hh : onbind(hh, state, paused, pending, stack)
    BY <1>5 DEF ipcAccept
  <2>3. \A bit \in {"CLOSING", "CLOSED"} : bit \in state' <=> bit \in state
    BY <2>2 DEF onbind, resumed
  <2>4. stack' \in Unwound(stack) \/ stack' = Push("bound", pending, stack)
    BY <2>2 DEF onbind
  <2>5. PICK kind : kind = "bound"
    OBVIOUS
  <2>6. NoneClosed(Push(kind, pending, stack)) <=> NoneClosed(stack)
    BY <2>1, <2>5, PushClosed DEF FlushKinds
  <2>7. NoneClosed(stack') <=> NoneClosed(stack)
    BY <1>5, <2>1, <2>4, <2>5, <2>6, UserCatches
  <2> QED BY <1>5, <2>3, <2>7 DEF SamePhase, SameRequests, ipcAccept
<1> QED BY <1>2, <1>3, <1>4, <1>5

\* So do those that do not.
LEMMA OtherCallsContract ==
    ASSUME disconnect \/ pause \/ setOption \/ ref \/ unref
    PROVE  SamePhase /\ SameRequests
<1>1. UNCHANGED <<issued, settled, sends, lookups, stack>>
  BY DEF disconnect, pause, setOption, ref, unref
<1>2. \A bit \in {"CLOSING", "CLOSED"} : bit \in state' <=> bit \in state
  BY DEF disconnect, pause, setOption, ref, unref
<1> QED BY <1>1, <1>2 DEF SamePhase, SameRequests

\* close() begins the closing.
LEMMA CloseContract ==
    ASSUME close
    PROVE  ContractStep
<1>1. SameRequests
  BY DEF close, SameRequests
<1>2. CASE UNCHANGED <<state, stack>>
  <2>1. SamePhase
    BY <1>2 DEF SamePhase
  <2> QED BY <1>1, <2>1, ContractStays
<1>3. CASE ~Closing(state) /\ "CLOSING" \in state' /\ "CLOSED" \notin state'
  <2>1. ContractPhase = "open" /\ ContractPhase' = "closing"
    BY <1>3 DEF ContractPhase, HasClosed, Closing
  <2>2. Statuses' = Statuses
    BY <1>1 DEF Statuses, SameRequests, RequestStatus
  <2>3. Contract!StartClose
    BY <2>1, <2>2 DEF Contract!StartClose, Statuses
  <2> QED BY <2>3 DEF ContractStep, Contract!Next
<1> QED BY <1>2, <1>3 DEF close, Closing

\* The request of a send goes to the lookup, to the handle or to its callback.
LEMMA ResolvedGoes ==
    ASSUME Reliable, NEW r \in Req, r \notin settled, r \notin sends, NEW rest,
           \/ resolveSend(r, rest)
           \/ handOver(r, FALSE, rest) /\ ~Closing(state) /\ lookups' = lookups
           \/ (\E ok \in BOOLEAN : sendResolved(r, ok, rest)) /\ lookups' = lookups \ {r}
    PROVE  /\ Goes(r)
           /\ \A q \in Req \ {r} :
                 /\ q \in settled' <=> q \in settled
                 /\ q \in sends' <=> q \in sends
                 /\ q \in lookups' <=> q \in lookups
           /\ stack' = rest \/ \E kind \in UserKinds : stack' = Call(kind, rest)
<1>1. ASSUME NEW addressed \in BOOLEAN, handOver(r, addressed, rest)
      PROVE  \/ settled' = settled \cup {r} /\ sends' = sends
             \/ sends' = sends \cup {r} /\ settled' = settled
  BY <1>1 DEF handOver, onsenderror
<1>2. ASSUME NEW ok \in BOOLEAN, sendResolved(r, ok, rest)
      PROVE  \/ settled' = settled \cup {r} /\ sends' = sends
             \/ ~Closing(state) /\ sends' = sends \cup {r} /\ settled' = settled
  BY <1>1, <1>2 DEF sendResolved, onsenderror, callback
<1>3. stack' = rest \/ \E kind \in UserKinds : stack' = Call(kind, rest)
  BY DEF resolveSend, sendResolved, handOver, callback, onsenderror, UserKinds, Reliable
<1>4. CASE resolveSend(r, rest)
  <2>1. CASE (\E ok \in BOOLEAN : sendResolved(r, ok, rest)) /\ lookups' = lookups
    BY <1>2, <1>3, <1>4, <2>1 DEF Goes
  <2>2. CASE lookups' = lookups \cup {r} /\ UNCHANGED <<sends, settled>>
    BY <1>3, <1>4, <2>2 DEF Goes
  <2> QED BY <1>4, <2>1, <2>2 DEF resolveSend, Reliable
<1>5. CASE handOver(r, FALSE, rest) /\ ~Closing(state) /\ lookups' = lookups
  BY <1>1, <1>3, <1>5 DEF Goes
<1>6. CASE (\E ok \in BOOLEAN : sendResolved(r, ok, rest)) /\ lookups' = lookups \ {r}
  BY <1>2, <1>3, <1>6 DEF Goes
<1> QED BY <1>4, <1>5, <1>6

\* A request that is somewhere has the status of its place.
LEMMA StatusOfPlace ==
    ASSUME Inductive, Traced, NEW r \in Req
    PROVE  /\ InStack(stack, r) => RequestStatus(r) = "queued"
           /\ r \in lookups => RequestStatus(r) = "resolving"
           /\ r \in sends => RequestStatus(r) = "sent"
           /\ InStack(stack, r) \/ r \in lookups \/ r \in sends => r \in issued /\ r \notin settled
           /\ InStack(stack, r) \/ r \in lookups => r \notin sends
           /\ r \notin issued => r \notin sends /\ r \notin settled
<1>1. /\ AtMostOne(pending, stack, lookups, sends, settled, r)
      /\ Somewhere(pending, stack, lookups, sends, settled, r) => r \in issued
  BY DEF Traced, Placed, PlacedIn
<1> QED BY <1>1 DEF AtMostOne, Somewhere, RequestStatus

\* send() accepts a request.
LEMMA SendContracted ==
    ASSUME Inductive, Traced, Reliable, NEW r \in Req, send(r)
    PROVE  ContractStep
<1>1. /\ r \notin issued /\ ~Closing(state) /\ issued' = issued \cup {r}
      /\ "CLOSED" \notin state /\ r \notin sends /\ r \notin settled
  BY StatusOfPlace DEF send, Closing
<1>2. CASE bindMaybe(r, state, paused)
  <2>1. SamePhase /\ UNCHANGED <<sends, settled, lookups>>
    BY <1>1, <1>2, BindMaybeContract
  <2>2. OnlyMoves(r)
    BY <1>1, <2>1 DEF OnlyMoves
  <2> QED BY <1>1, <2>1, <2>2, RequestAccepted
<1>3. CASE /\ resolveSend(r, stack) \/ (handOver(r, FALSE, stack) /\ lookups' = lookups)
           /\ state' = state
  <2>1. OnlyMoves(r)
    BY <1>1, <1>3, ResolvedGoes DEF OnlyMoves
  <2>2. SamePhase
    BY <1>1, <1>3 DEF SamePhase
  <2> QED BY <1>1, <2>1, <2>2, RequestAccepted
<1> QED BY <1>2, <1>3 DEF send

\* The functions of a flush go on, with an error or without.
LEMMA FlushContract ==
    ASSUME Inductive, Traced, Reliable, flushNext \/ flushError
    PROVE  ContractStep
<1>1. PICK kind, fns, fn, rest, next :
        /\ kind = Head(stack).kind /\ fns = Head(stack).fns /\ fn = Head(fns)
        /\ rest = Tail(stack) /\ next = Push(kind, Tail(fns), rest)
  OBVIOUS
<1>2. stack # <<>> /\ fns # <<>> /\ TypeOK /\ stack \in Seq(Frame) /\ kind \in FlushKinds
  BY <1>1 DEF flushNext, flushError, InFlush, Inductive, TypeOK, FlushKinds
<1>3. /\ fns \in Seq(Fn) /\ rest \in Seq(Frame) /\ next \in Seq(Frame) /\ Tail(fns) \in Seq(Fn)
      /\ fn \in Fn
  BY <1>1, <1>2, TopFrame, HeadTailProperties
<1>4. stack = Push(kind, fns, rest)
  BY <1>1, <1>2, TopStack
<1>5. NoneClosed(next) <=> NoneClosed(stack)
  <2>1. NoneClosed(Push(kind, fns, rest)) <=> kind # "closed" /\ NoneClosed(rest)
    BY <1>2, <1>3, PushClosed
  <2>2. NoneClosed(Push(kind, Tail(fns), rest)) <=> kind # "closed" /\ NoneClosed(rest)
    BY <1>2, <1>3, PushClosed
  <2> QED BY <1>1, <1>4, <2>1, <2>2
<1>6. stack' = next \/ (\E user \in UserKinds : stack' = Call(user, next))
        => (NoneClosed(stack') <=> NoneClosed(stack))
  BY <1>3, <1>5, CallClosed
<1>7. ASSUME fn \in Req
      PROVE  RequestStatus(fn) = "queued" /\ fn \in issued /\ fn \notin settled /\ fn \notin sends
  <2>1. InFns(fns, fn)
    BY <1>1, <1>2, <1>3, HeadTailProperties, LenProperties, EmptySeq DEF InFns
  <2>2. InStack(stack, fn)
    BY <1>2, <1>3, <1>4, <2>1, PushStack
  <2> QED BY <1>7, <2>2, StatusOfPlace
<1>8. CASE flushNext
  <2>1. kind = "bound" /\ issued' = issued
    BY <1>1, <1>8 DEF flushNext, InFlush
  <2>2. "CLOSED" \notin state
    <3>1. ASSUME "CLOSED" \in state PROVE FALSE
      <4>1. Head(stack) \in LastFrame
        BY <1>2, <3>1, FramesStay, FrameKinds DEF Traced, LastFlush
      <4> QED BY <1>1, <1>2, <2>1, <4>1 DEF LastFrame
    <3> QED BY <3>1
  <2>3. CASE fn \in Req /\ resolveSend(fn, next) /\ state' = state
    <3>1. Goes(fn) /\ OnlyMoves(fn)
      BY <1>7, <2>1, <2>3, ResolvedGoes DEF OnlyMoves
    <3>2. SamePhase
      BY <2>2, <2>3 DEF SamePhase
    <3> QED BY <1>7, <2>1, <2>2, <2>3, <3>1, <3>2, RequestGoesOn
  <2>4. CASE resolveConnect(state, next) /\ UNCHANGED <<sends, settled>>
    <3>1. \A bit \in {"CLOSING", "CLOSED"} : bit \in state' <=> bit \in state
      BY <2>4, ConnectContract
    <3>2. SameRequests
      BY <2>1, <2>4, DgramSocketAssumption DEF resolveConnect, SameRequests
    <3> QED BY <2>2, <3>1, <3>2, ContractStays DEF SamePhase
  <2>5. CASE /\ \E res \in resumed(h, state, paused) : state' = res.state
             /\ UNCHANGED <<sends, lookups, settled>>
    <3>1. \A bit \in {"CLOSING", "CLOSED"} : bit \in state' <=> bit \in state
      BY <2>5 DEF resumed
    <3>2. SameRequests
      BY <2>1, <2>5 DEF SameRequests
    <3> QED BY <2>2, <3>1, <3>2, ContractStays DEF SamePhase
  <2> QED BY <1>1, <1>8, <2>1, <2>3, <2>4, <2>5 DEF flushNext
<1>9. CASE flushError
  <2>1. /\ IF fn \in Req THEN callback(fn, next) ELSE stack' = next /\ settled' = settled
        /\ UNCHANGED <<sends, lookups, issued>>
        /\ \A bit \in {"CLOSING", "CLOSED"} : bit \in state' <=> bit \in state
    BY <1>1, <1>9 DEF flushError
  <2>2. stack' = next \/ \E user \in UserKinds : stack' = Call(user, next)
    BY <2>1 DEF callback, UserKinds
  <2>3. SamePhase
    BY <1>6, <2>1, <2>2 DEF SamePhase
  <2>4. CASE fn \in Req
    <3>1. fn \in settled' /\ OnlyMoves(fn)
      BY <2>1, <2>4 DEF callback, OnlyMoves
    <3> QED BY <1>7, <2>1, <2>3, <2>4, <3>1, RequestGoesOn
  <2>5. CASE fn \notin Req
    BY <2>1, <2>3, <2>5, ContractStays DEF SameRequests
  <2> QED BY <2>4, <2>5
<1> QED BY <1>8, <1>9

\* The flush of _onclose ends the closing, and leaves no request unreported but
\* those that wait for their lookup; other frames that go say nothing of it.
LEMMA FrameGoesContract ==
    ASSUME Inductive, Traced, Reliable, flushDone \/ Return
    PROVE  ContractStep
<1>1. PICK kind, fns, rest : kind = Head(stack).kind /\ fns = Head(stack).fns /\ rest = Tail(stack)
  OBVIOUS
<1>2. stack # <<>> /\ TypeOK /\ stack \in Seq(Frame)
  BY DEF flushDone, Return, InUserCode, Inductive, TypeOK
<1>3. kind \in UserKinds \cup FlushKinds /\ fns \in Seq(Fn) /\ rest \in Seq(Frame)
  BY <1>1, <1>2, TopFrame
<1>4. stack = Push(kind, fns, rest)
  BY <1>1, <1>2, TopStack
<1>5. NoneClosed(stack) <=> kind # "closed" /\ NoneClosed(rest)
  BY <1>3, <1>4, PushClosed
<1>6. SameRequests /\ state' = state /\ pending' = pending
  BY DEF flushDone, Return, SameRequests
<1>7. stack' = rest \/ \E user \in UserKinds : stack' = Call(user, rest)
  BY <1>1 DEF flushDone, Return, UserKinds
<1>8. NoneClosed(stack') <=> NoneClosed(rest)
  BY <1>3, <1>7, CallClosed
<1>9. CASE kind # "closed" \/ ~NoneClosed(rest) \/ "CLOSED" \notin state
  <2>1. SamePhase
    BY <1>5, <1>6, <1>8, <1>9 DEF SamePhase
  <2> QED BY <1>6, <2>1, ContractStays
<1>10. CASE kind = "closed" /\ NoneClosed(rest) /\ "CLOSED" \in state
  <2>1. HasClosed' /\ ~HasClosed
    BY <1>5, <1>6, <1>8, <1>10 DEF HasClosed, NoneClosed
  <2>2. ContractPhase = "closing" /\ ContractPhase' = "closed"
    BY <1>10, <2>1 DEF ContractPhase, Closing
  <2>3. Statuses' = Statuses
    BY <1>6 DEF Statuses, SameRequests, RequestStatus
  <2>4. fns = <<>>
    BY <1>1, <1>10 DEF flushDone, Return, InUserCode, UserKinds
  <2>5. pending = <<>> /\ sends = {} /\ rest \in Seq(LastFrame)
    BY <1>1, <1>2, <1>10, FramesStay, FrameKinds DEF Traced, LastFlush
  <2>6. ASSUME NEW r \in Req
        PROVE  RequestStatus(r) \notin {"queued", "sent"}
    <3>1. ~InFns(pending, r) /\ ~InFns(fns, r)
      BY <2>4, <2>5, NoFns
    <3>2. ~InStack(rest, r)
      <4>1. ASSUME NEW k \in DOMAIN rest
            PROVE  ~InFns(rest[k].fns, r)
        <5>1. rest[k] \in LastFrame
          BY <2>5, ElementOfSeq, LenProperties
        <5>2. rest[k].fns = <<>>
          BY <1>10, <5>1 DEF LastFrame, NoneClosed
        <5> QED BY <5>2, NoFns
      <4> QED BY <4>1 DEF InStack
    <3>3. ~InStack(stack, r)
      BY <1>3, <1>4, <3>1, <3>2, PushStack
    <3>4. r \in issued => Somewhere(pending, stack, lookups, sends, settled, r)
      BY DEF Traced, Placed, PlacedIn
    <3> QED BY <2>5, <3>1, <3>3, <3>4 DEF Somewhere, RequestStatus
  <2>7. Contract!Closed
    BY <2>2, <2>3, <2>6 DEF Contract!Closed, Statuses
  <2> QED BY <2>7 DEF ContractStep, Contract!Next
<1> QED BY <1>9, <1>10

\* What only calls user code, or a flush of what is queued, leaves it alone.
LEMMA EventsContract ==
    ASSUME Inductive, Reliable,
           \/ runMicrotask \/ runBindError \/ userTurn \/ onteardown
           \/ \E err \in BOOLEAN : onmessage(err)
           \/ \E ok \in BOOLEAN : lookupBind(ok) \/ lookupConnect(ok)
    PROVE  ContractStep
<1>1. /\ stack = <<>> /\ <<>> \in Seq(Frame) /\ pending \in Seq(Fn)
      /\ NoneClosed(<<>>) /\ micro \in Seq(Micro)
  BY EmptySeq DEF Inductive, TypeOK, runMicrotask, runBindError, userTurn, onteardown,
     onmessage, lookupBind, lookupConnect, Idle, NoneClosed
<1>2. SameRequests
  BY DgramSocketAssumption DEF SameRequests, runMicrotask, runBindError, userTurn, onteardown,
     onmessage, lookupBind, lookupConnect
<1>3. CASE runMicrotask \/ userTurn \/ onteardown \/ \E err \in BOOLEAN : onmessage(err)
  <2>1. stack' = <<>> \/ \E kind \in UserKinds : stack' = Call(kind, <<>>)
    <3>1. CASE runMicrotask
      <4>1. Head(micro) \in Micro \ {"binderror"}
        BY <1>1, <3>1, HeadTailProperties DEF runMicrotask
      <4> QED BY <3>1, <4>1 DEF runMicrotask, Micro, UserKinds
    <3>2. CASE userTurn \/ onteardown \/ \E err \in BOOLEAN : onmessage(err)
      BY <1>1, <3>2 DEF userTurn, onteardown, onmessage, UserKinds
    <3> QED BY <1>3, <3>1, <3>2
  <2>2. NoneClosed(stack')
    BY <1>1, <2>1, CallClosed
  <2>3. state' = state
    BY <1>3 DEF runMicrotask, userTurn, onteardown, onmessage
  <2>4. SamePhase
    BY <1>1, <2>2, <2>3 DEF SamePhase
  <2> QED BY <1>2, <2>4, ContractStays
<1>4. CASE runBindError
  <2>1. stack' = Push("failed", pending, <<>>) /\ state' = state \ {"BINDING"}
    BY <1>4 DEF runBindError
  <2>2. PICK kind : kind = "failed"
    OBVIOUS
  <2>3. NoneClosed(Push(kind, pending, <<>>))
    BY <1>1, <2>2, PushClosed DEF FlushKinds
  <2>4. SamePhase
    BY <1>1, <2>1, <2>2, <2>3 DEF SamePhase
  <2> QED BY <1>2, <2>4, ContractStays
<1>5. CASE \E ok \in BOOLEAN : lookupBind(ok)
  <2>1. CASE UNCHANGED <<state, stack>>
    BY <1>2, <2>1, ContractStays DEF SamePhase
  <2>2. CASE ~Closing(state) /\ \E results : bindWith(results, state, paused, pending, <<>>)
    <3>1. \A bit \in {"CLOSING", "CLOSED"} : bit \in state' <=> bit \in state
      BY <2>2, BindContract
    <3> QED BY <1>2, <2>2, <3>1, ContractStays DEF SamePhase, Closing
  <2> QED BY <1>1, <1>5, <2>1, <2>2 DEF lookupBind, onbinderror
<1>6. CASE \E ok \in BOOLEAN : lookupConnect(ok)
  <2>1. \E ok \in BOOLEAN : connectResolved(state, ok, <<>>)
    BY <1>6 DEF lookupConnect
  <2>2. (\A bit \in {"CLOSING", "CLOSED"} : bit \in state' <=> bit \in state) /\ stack' = <<>>
    BY <2>1, ConnectContract
  <2> QED BY <1>1, <1>2, <2>2, ContractStays DEF SamePhase
<1> QED BY <1>3, <1>4, <1>5, <1>6

\* The answer of the lookup of a send, and a completion, let a request go on.
LEMMA CallbacksContract ==
    ASSUME Inductive, Traced, Reliable,
           \/ \E r \in Req, ok \in BOOLEAN : lookupSend(r, ok)
           \/ \E err \in BOOLEAN : onsend(err)
    PROVE  ContractStep
<1>1. /\ stack = <<>> /\ <<>> \in Seq(Frame) /\ NoneClosed(<<>>)
      /\ state' = state /\ issued' = issued
  BY EmptySeq DEF lookupSend, onsend, Idle, NoneClosed
<1>2. ASSUME stack' = <<>> \/ \E kind \in UserKinds : stack' = Call(kind, <<>>)
      PROVE  SamePhase
  BY <1>1, <1>2, CallClosed DEF SamePhase
<1>3. ASSUME NEW r \in Req, NEW ok \in BOOLEAN, lookupSend(r, ok)
      PROVE  ContractStep
  <2>1. /\ RequestStatus(r) = "resolving" /\ r \in issued /\ r \notin settled
        /\ r \notin sends
    BY <1>3, StatusOfPlace DEF lookupSend
  <2>2. (\E yes \in BOOLEAN : sendResolved(r, yes, <<>>)) /\ lookups' = lookups \ {r}
    BY <1>3 DEF lookupSend
  <2>3. PICK rest : rest = <<>>
    OBVIOUS
  <2>4. /\ Goes(r) /\ OnlyMoves(r)
        /\ stack' = rest \/ \E kind \in UserKinds : stack' = Call(kind, rest)
    BY <1>1, <2>1, <2>2, <2>3, ResolvedGoes DEF OnlyMoves
  <2>5. SamePhase
    BY <1>2, <2>3, <2>4
  <2>6. r \in settled' \/ r \in sends'
    BY <2>2, <2>4 DEF Goes
  <2> QED BY <1>1, <2>1, <2>4, <2>5, <2>6, RequestGoesOn
<1>4. ASSUME NEW err \in BOOLEAN, onsend(err)
      PROVE  ContractStep
  <2>1. PICK r : r = Head(h.queue)
    OBVIOUS
  <2>2. lookups' = lookups
    BY <1>4 DEF onsend
  <2>3. CASE UNCHANGED <<sends, settled, stack>>
    BY <1>1, <1>2, <2>2, <2>3, ContractStays DEF SameRequests
  <2>4. CASE /\ r \in sends /\ sends' = sends \ {r} /\ settled' = settled \cup {r}
             /\ stack' = <<>> \/ \E kind \in UserKinds : stack' = Call(kind, <<>>)
    <3>1. r \in Req
      BY <2>4 DEF Inductive, TypeOK
    <3>2. RequestStatus(r) = "sent" /\ r \in issued
      BY <2>4, <3>1, StatusOfPlace
    <3>3. OnlyMoves(r) /\ r \in settled'
      BY <1>1, <2>2, <2>4 DEF OnlyMoves
    <3> QED BY <1>1, <1>2, <2>4, <3>1, <3>2, <3>3, RequestGoesOn
  <2> QED BY <1>4, <2>1, <2>3, <2>4 DEF onsend, UserKinds
<1> QED BY <1>3, <1>4

\* The close callback finds nothing in flight, and begins the last flush.
LEMMA OnCloseContract ==
    ASSUME Inductive, Traced, onclose
    PROVE  ContractStep
<1>1. /\ stack = <<>> /\ <<>> \in Seq(Frame) /\ pending \in Seq(Fn) /\ h \in Handle
      /\ UNCHANGED <<issued, settled, lookups>> /\ h' = bare_dgram__on_close(h)
      /\ CanClose(h) /\ Matched
  BY EmptySeq DEF onclose, Idle, Inductive, TypeOK, Traced
<1>2. CASE UNCHANGED <<state, sends, stack>>
  BY <1>1, <1>2, ContractStays DEF SamePhase, SameRequests
<1>3. CASE /\ ~(h.exiting \/ h'.loop = "aborted")
           /\ state' = (state \cup {"CLOSED"}) \ {"CLOSING"}
           /\ sends' = {} /\ stack' = Push("closed", pending, <<>>)
  <2>1. ~Revived(h)
    BY <1>1, <1>3 DEF bare_dgram__on_close, Handle
  <2>2. h.queue = <<>>
    BY <1>1, <2>1 DEF CanClose
  <2>3. sends = {}
    BY <1>1, <1>3, <2>2 DEF Matched, Elements
  <2>4. SameRequests
    BY <1>1, <1>3, <2>3 DEF SameRequests
  <2>5. "CLOSING" \in state /\ "CLOSED" \notin state
    BY <1>1, <1>3 DEF CanClose, Inductive, Lifecycle, StateBits
  <2>6. PICK kind : kind = "closed"
    OBVIOUS
  <2>7. ~NoneClosed(Push(kind, pending, <<>>))
    BY <1>1, <2>6, PushClosed DEF FlushKinds
  <2>8. ~HasClosed /\ ~HasClosed'
    BY <1>3, <2>5, <2>6, <2>7 DEF HasClosed, NoneClosed
  <2>9. ContractPhase = "closing" /\ ContractPhase' = "closing"
    BY <1>3, <2>5, <2>8 DEF ContractPhase, Closing
  <2>10. Statuses' = Statuses
    BY <2>4 DEF Statuses, SameRequests, RequestStatus
  <2>11. Contract!vars' = Contract!vars
    BY <2>9, <2>10 DEF Contract!vars, Statuses
  <2> QED BY <2>11 DEF ContractStep
<1> QED BY <1>2, <1>3 DEF onclose

-----------------------------------------------------------------------------

\* Every step of the socket is a step of the contract or leaves it alone.
LEMMA StepsContract ==
    ASSUME Inductive, Traced, Reliable, [Next]_vars
    PROVE  ContractStep
<1>1. CASE UserCall
  <2>1. CASE \/ bind \/ connect \/ resume \/ (InUserCode /\ ipcAccept)
             \/ disconnect \/ pause \/ setOption \/ ref \/ unref
    BY <2>1, BindingCallsContract, OtherCallsContract, ContractStays
  <2>2. CASE close \/ \E r \in Req : send(r)
    BY <2>2, CloseContract, SendContracted
  <2> QED BY <1>1, <2>1, <2>2 DEF UserCall
<1>2. CASE flushNext \/ flushError \/ flushDone \/ Return
  BY <1>2, FlushContract, FrameGoesContract
<1>3. CASE \/ runMicrotask \/ runBindError \/ userTurn \/ onteardown
           \/ \E err \in BOOLEAN : onmessage(err)
           \/ \E ok \in BOOLEAN : lookupBind(ok) \/ lookupConnect(ok)
  BY <1>3, EventsContract
<1>4. CASE \/ \E r \in Req, ok \in BOOLEAN : lookupSend(r, ok)
           \/ \E err \in BOOLEAN : onsend(err)
  BY <1>4, CallbacksContract
<1>5. CASE onclose
  BY <1>5, OnCloseContract
<1>6. CASE UNCHANGED vars
  BY <1>6, ContractStays DEF vars, SamePhase, SameRequests
<1>7. ~Throw
  BY DEF Throw, Reliable
<1> QED BY <1>1, <1>2, <1>3, <1>4, <1>5, <1>6, <1>7 DEF Next

\* A new socket begins it.
LEMMA ContractBegins == Init => Contract!Init
<1> SUFFICES ASSUME Init PROVE Contract!Init
  OBVIOUS
<1>1. ContractPhase = "open"
  BY DEF Init, ContractPhase, HasClosed, Closing
<1>2. \A r \in Req : RequestStatus(r) = "unsent"
  BY DEF Init, RequestStatus
<1> QED BY <1>1, <1>2 DEF Contract!Init

\* What a program may rely on between send(), close() and their callbacks (index.js),
\* provided that nothing throws or fails in the middle of what the socket does: a
\* request goes from send to one report, reaches the handle only while the socket is
\* open, and is reported before 'close' unless it waits for its lookup.
THEOREM ContractKept ==
    ASSUME Throws = FALSE, LookupThrows = FALSE, OsFaults = FALSE
    PROVE  Spec => ContractSpec
<1>1. Reliable
  BY DEF Reliable
<1>2. Inductive /\ Traced /\ [Next]_vars => [Contract!Next]_(Contract!vars)
  BY <1>1, StepsContract DEF ContractStep
<1> QED BY <1>2, ContractBegins, InductiveInvariant, TracedInvariant, PTL
        DEF Spec, ContractSpec, Contract!Spec

=============================================================================
