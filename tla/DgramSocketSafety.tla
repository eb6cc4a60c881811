-------------------------- MODULE DgramSocketSafety --------------------------
(***************************************************************************)
(* The invariant of DgramSocketInv is inductive, and with it the safety    *)
(* properties hold for any set of requests and any program.                *)
(***************************************************************************)
EXTENDS DgramSocketInv, DgramSocketProofs

-----------------------------------------------------------------------------
(* Sequences *)

\* The failure of a bind is due after an append if it was due or is appended.
LEMMA AppendReports ==
    ASSUME NEW m \in Seq(Micro), NEW task \in Micro
    PROVE  ReportsBind(Append(m, task)) <=> ReportsBind(m) \/ task = "binderror"
<1>1. /\ Len(m) \in Nat /\ DOMAIN m = 1..Len(m)
      /\ DOMAIN Append(m, task) = 1..(Len(m) + 1)
      /\ Append(m, task)[Len(m) + 1] = task
      /\ \A i \in 1..Len(m) : Append(m, task)[i] = m[i]
  OBVIOUS
<1> QED BY <1>1 DEF ReportsBind

\* The microtasks of connect leave it due.
LEMMA ConnectReports ==
    ASSUME TypeOK, micro' \in {micro, Append(micro, "error"), Append(micro, "connect")},
           ReportsBind(micro)
    PROVE  ReportsBind(micro')
<1>1. micro \in Seq(Micro) /\ "error" \in Micro /\ "connect" \in Micro
  BY DEF TypeOK, Micro
<1>2. ReportsBind(Append(micro, "error")) /\ ReportsBind(Append(micro, "connect"))
  BY <1>1, AppendReports
<1>3. CASE micro' = micro
  BY <1>3
<1>4. CASE micro' = Append(micro, "error")
  BY <1>2, <1>4
<1>5. CASE micro' = Append(micro, "connect")
  BY <1>2, <1>5
<1> QED BY <1>3, <1>4, <1>5

\* Taking another microtask from the queue leaves it due.
LEMMA TailReports ==
    ASSUME NEW m \in Seq(Micro), m # <<>>, Head(m) # "binderror", ReportsBind(m)
    PROVE  ReportsBind(Tail(m))
<1>1. PICK i \in 1..Len(m) : m[i] = "binderror"
  BY DEF ReportsBind
<1>2. m[1] # "binderror"
  OBVIOUS
<1>3. Tail(m) \in Seq(Micro) /\ Len(Tail(m)) = Len(m) - 1
      /\ \A j \in 1..Len(Tail(m)) : Tail(m)[j] = m[j + 1]
  BY HeadTailProperties
<1>4. i - 1 \in 1..Len(Tail(m)) /\ m[(i - 1) + 1] = m[i] /\ Len(m) \in Nat
  BY <1>1, <1>2, <1>3
<1>5. i - 1 \in DOMAIN Tail(m) /\ Tail(m)[i - 1] = "binderror"
  BY <1>1, <1>3, <1>4, LenProperties
<1> QED BY <1>5 DEF ReportsBind

\* A stack without a flush of a bound socket gets none from a call of user code,
\* an exception or a return.
LEMMA UnboundStack ==
    ASSUME NEW rest \in Seq(UnboundFrame)
    PROVE  /\ \A kind \in UserKinds : Call(kind, rest) \in Seq(UnboundFrame)
           /\ \A kind \in {"failed", "closed"}, fns \in Seq(Fn) :
                 Push(kind, fns, rest) \in Seq(UnboundFrame)
           /\ \A t \in Unwound(rest) : t \in Seq(UnboundFrame)
           /\ rest # <<>> => Tail(rest) \in Seq(UnboundFrame)
<1>1. ASSUME NEW kind \in (UserKinds \cup FlushKinds) \ {"bound"}, NEW fns \in Seq(Fn)
      PROVE  Push(kind, fns, rest) \in Seq(UnboundFrame)
  <2>1. <<[kind |-> kind, fns |-> fns]>> \in Seq(UnboundFrame)
    BY <1>1 DEF UnboundFrame
  <2> QED BY <2>1, ConcatProperties DEF Push
<1>2. \A kind \in UserKinds : Call(kind, rest) \in Seq(UnboundFrame)
  BY <1>1, EmptySeq DEF Call, UserKinds
<1>3. ASSUME NEW t \in Unwound(rest)
      PROVE  t \in Seq(UnboundFrame)
  <2>1. PICK i \in 1..(Len(rest) + 1) : t = SubSeq(rest, i, Len(rest))
    BY DEF Unwound
  <2>2. Len(rest) \in Nat /\ \A j \in i..Len(rest) : rest[j] \in UnboundFrame
    BY LenProperties, ElementOfSeq
  <2> QED BY <2>1, <2>2, SubSeqProperties
<1>4. rest # <<>> => Tail(rest) \in Seq(UnboundFrame)
  BY HeadTailProperties
<1> QED BY <1>1, <1>2, <1>3, <1>4 DEF FlushKinds

-----------------------------------------------------------------------------
(* What the helpers leave alone *)

\* Handing over or resolving a request never moves the handle on or opens it.
LEMMA HandOverFacts ==
    ASSUME TypeOK, NEW r \in Req, NEW addressed \in BOOLEAN, NEW rest,
           handOver(r, addressed, rest)
    PROVE  LifeOf(h') = LifeOf(h) /\ h'.sock = h.sock
BY SendKeepsSocket DEF handOver, TypeOK

\* Nor does resolving one, which adds no frame of onbind.
LEMMA ResolveSendFacts ==
    ASSUME TypeOK, NEW r \in Req, NEW rest,
           resolveSend(r, rest) \/ \E ok \in BOOLEAN : sendResolved(r, ok, rest)
    PROVE  /\ LifeOf(h') = LifeOf(h) /\ h'.sock = h.sock
           /\ rest \in Seq(UnboundFrame) => stack' \in Seq(UnboundFrame)
<1>1. ASSUME callback(r, rest) \/ onsenderror(r, rest), rest \in Seq(UnboundFrame)
      PROVE  stack' \in Seq(UnboundFrame)
  BY <1>1, UnboundStack DEF callback, onsenderror, UserKinds
<1>2. ASSUME NEW addressed \in BOOLEAN, handOver(r, addressed, rest), rest \in Seq(UnboundFrame)
      PROVE  stack' \in Seq(UnboundFrame)
  BY <1>1, <1>2 DEF handOver
<1>3. LifeOf(h') = LifeOf(h) /\ h'.sock = h.sock
  BY HandOverFacts DEF resolveSend, sendResolved
<1>4. \A t \in Unwound(rest) : rest \in Seq(UnboundFrame) => t \in Seq(UnboundFrame)
  BY UnboundStack
<1> QED BY <1>1, <1>2, <1>3, <1>4 DEF resolveSend, sendResolved

\* Connecting sets CONNECTED only on a socket that was not closed.
LEMMA ConnectFacts ==
    ASSUME TypeOK, NEW st \in SUBSET Bits, NEW rest,
           resolveConnect(st, rest) \/ \E ok \in BOOLEAN : connectResolved(st, ok, rest)
    PROVE  /\ LifeOf(h') = LifeOf(h) /\ h'.sock = h.sock
           /\ stack' = rest \/ stack' \in Unwound(rest)
           /\ \/ state' = st
              \/ state' = st \ {"CONNECTING"}
              \/ ~Closing(st) /\ state' = (st \ {"CONNECTING"}) \cup {"CONNECTED"}
           /\ micro' \in {micro, Append(micro, "error"), Append(micro, "connect")}
<1> DEFINE st1 == st \ {"CONNECTING"}
<1>1. CASE /\ state' = st /\ UNCHANGED <<h, micro>>
           /\ stack' = rest \/ stack' \in Unwound(rest)
  BY <1>1
<1>2. CASE \E ok \in BOOLEAN : connectResolved(st, ok, rest)
  <2>1. stack' = rest
    BY <1>2 DEF connectResolved
  <2>2. CASE state' = st1 /\ h' = h /\ micro' \in {micro, Append(micro, "error")}
    BY <2>1, <2>2
  <2>3. CASE /\ ~Closing(st1)
             /\ \E res \in bare_dgram_connect(h) :
                   /\ h' = res.h
                   /\ state' = IF res.err THEN st1 ELSE st1 \cup {"CONNECTED"}
                   /\ micro' = Append(micro, IF res.err THEN "error" ELSE "connect")
    <3>1. PICK res \in bare_dgram_connect(h) :
                   /\ h' = res.h
                   /\ state' = IF res.err THEN st1 ELSE st1 \cup {"CONNECTED"}
                   /\ micro' = Append(micro, IF res.err THEN "error" ELSE "connect")
      BY <2>3
    <3>2. LifeOf(h') = LifeOf(h) /\ h'.sock = h.sock
      BY <3>1, ConnectKeepsSocket DEF TypeOK
    <3>3. ~Closing(st)
      BY <2>3 DEF Closing
    <3> QED BY <2>1, <3>1, <3>2, <3>3
  <2> QED BY <1>2, <2>2, <2>3 DEF connectResolved
<1> QED BY <1>1, <1>2 DEF resolveConnect

\* The end of a bind sets BOUND, and READING if it reads; it leaves the queue only
\* if a system call fails or the socket was closed.
LEMMA OnBindFacts ==
    ASSUME NEW hh \in Handle, NEW st \in SUBSET Bits, NEW pz \in BOOLEAN,
           NEW pend, NEW rest, onbind(hh, st, pz, pend, rest)
    PROVE  /\ LifeOf(h') = LifeOf(hh)
           /\ state' \ {"READING"} = (st \cup {"BOUND"}) \ {"BINDING", "READING"}
           /\ micro' = micro
           /\ pending' = <<>> \/ (pending' = pend /\ (OsFaults \/ Closing(st)))
<1> DEFINE st1 == (st \cup {"BOUND"}) \ {"BINDING"}
<1>1. micro' = micro
  BY DEF onbind
<1>2. CASE /\ OsFaults \/ Closing(st)
           /\ state' = st1 /\ h' = hh /\ pending' = pend
  BY <1>1, <1>2
<1>3. ASSUME NEW res \in resumed(hh, st1, pz), state' = res.state, h' = res.h,
             IF res.err THEN pending' = pend ELSE pending' = <<>>
      PROVE  /\ LifeOf(h') = LifeOf(hh)
             /\ state' \ {"READING"} = st1 \ {"READING"}
             /\ pending' = <<>> \/ (pending' = pend /\ OsFaults)
  <2>1. CASE pz \/ "READING" \in st1
    <3>1. res = [err |-> FALSE, h |-> hh, state |-> st1]
      BY <2>1 DEF resumed
    <3> QED BY <1>3, <3>1
  <2>2. CASE ~(pz \/ "READING" \in st1)
    <3>1. PICK call \in bare_dgram_resume(hh) :
             res = [err |-> call.err, h |-> call.h, state |-> st1 \cup {"READING"}]
      BY <2>2 DEF resumed
    <3>2. LifeOf(call.h) = LifeOf(hh)
      BY CallsKeepLife
    <3>3. call.err => OsFaults
      BY DEF bare_dgram_resume, Ok, Failed
    <3> QED BY <1>3, <3>1, <3>2, <3>3
  <2> QED BY <2>1, <2>2
<1> QED BY <1>1, <1>2, <1>3 DEF onbind

\* A bind, whatever its outcome, either binds the socket or queues the report.
LEMMA BindWithFacts ==
    ASSUME NEW results \in SUBSET Result, \A res \in results : LifeOf(res.h) = LifeOf(h),
           NEW st \in SUBSET Bits, ~Closing(st), NEW pz \in BOOLEAN, NEW pend, NEW rest,
           bindWith(results, st, pz, pend, rest)
    PROVE  /\ LifeOf(h') = LifeOf(h)
           /\ \/ /\ state' \ {"READING"} = (st \cup {"BOUND"}) \ {"BINDING", "READING"}
                 /\ micro' = micro
                 /\ pending' = <<>> \/ OsFaults
              \/ onbinderror(h', st, pend, rest)
<1>1. PICK res \in results :
        IF res.err THEN onbinderror(res.h, st, pend, rest)
                   ELSE onbind(res.h, st, pz, pend, rest)
  BY DEF bindWith
<1>2. res.h \in Handle /\ LifeOf(res.h) = LifeOf(h)
  BY DEF Result
<1>3. CASE res.err
  BY <1>1, <1>2, <1>3 DEF onbinderror
<1>4. CASE ~res.err
  BY <1>1, <1>2, <1>4, OnBindFacts
<1> QED BY <1>3, <1>4

-----------------------------------------------------------------------------
(* Two kinds of steps keep the invariant: the end of a bind, and whatever   *)
(* leaves the life of the socket alone                                      *)

\* User code and the callbacks of an open socket run on an active handle.
LEMMA OpenIsActive ==
    ASSUME TypeOK, Lifecycle, ~Closing(state), stack # <<>> \/ (Idle /\ ~h.exiting)
    PROVE  h.loop = "active" /\ ~h.exiting
BY DEF TypeOK, Lifecycle, Closing, Handle, Idle

\* A step that binds, or fails to, on an open socket keeps the invariant.
LEMMA BindStepKeeps ==
    ASSUME Inductive, TypeOK', h.loop = "active", ~Closing(state),
           NEW st \in SUBSET Bits,
           state \subseteq st, st \subseteq state \cup {"BINDING", "CONNECTING"},
           LifeOf(h') = LifeOf(h),
           "connect" \in lookups' => "connect" \in lookups,
           \/ /\ state' \ {"READING"} = (st \cup {"BOUND"}) \ {"BINDING", "READING"}
              /\ micro' = micro
              /\ pending' = <<>> \/ OsFaults
           \/ /\ state' = st
              /\ ~({"BINDING", "BOUND"} \subseteq st)
              /\ "BINDING" \in st => ReportsBind(micro') \/ "bind" \in lookups' \/ LookupThrows
              /\ ~OsFaults /\ pending' # <<>> => "BINDING" \in st
              /\ stack \in Seq(UnboundFrame) => stack' \in Seq(UnboundFrame)
    PROVE  Inductive'
<1>1. h'.loop = "active" /\ ~h'.exiting /\ ~h'.closing
  BY DEF LifeOf, Inductive, Lifecycle
<1>2. ~Closing(state') /\ {"CLOSING", "CLOSED"} \cap state' = {}
  BY DEF Closing
<1>3. StateBits'
  BY <1>2 DEF StateBits, Inductive
<1>4. Lifecycle'
  BY <1>1, <1>2 DEF Lifecycle
<1>5. ConnectBound'
  BY DEF ConnectBound, Inductive, Closing
<1>6. ~LookupThrows => BindingHasOwner'
  BY DEF BindingHasOwner
<1>7. ~OsFaults => PendingHasFlusher'
  BY DEF PendingHasFlusher
<1>8. NoRevival'
  BY <1>1 DEF NoRevival, Revived
<1> QED BY <1>3, <1>4, <1>5, <1>6, <1>7, <1>8 DEF Inductive

\* So does a step that leaves the bits of binding and closing, the life of the
\* handle and the work that is due as they are.
LEMMA QuietStepKeeps ==
    ASSUME Inductive, TypeOK',
           \A bit \in {"CLOSING", "CLOSED", "BINDING", "BOUND"} : bit \in state' <=> bit \in state,
           "CONNECTED" \in state' => "CONNECTED" \in state \/ ("BOUND" \in state /\ ~Closing(state)),
           Closing(state) => "CONNECTING" \notin state',
           LifeOf(h') = LifeOf(h),
           "resume" \notin Calls => h'.sock = h.sock \/ h.loop = "active",
           "bind" \in lookups => "bind" \in lookups',
           "connect" \in lookups' => "connect" \in lookups \/ "BOUND" \in state \/ Closing(state),
           ReportsBind(micro) => ReportsBind(micro'),
           pending' = pending \/ "BINDING" \in state,
           stack \in Seq(UnboundFrame) => stack' \in Seq(UnboundFrame),
           h.exiting \/ h.loop = "aborted" => stack' = <<>> /\ micro' = <<>>
    PROVE  Inductive'
<1>1. h'.loop = h.loop /\ h'.exiting = h.exiting /\ h'.closing = h.closing
  BY DEF LifeOf
<1>2. Closing(state') <=> Closing(state)
  BY DEF Closing
<1>3. StateBits'
  BY <1>2 DEF StateBits, Inductive
<1>4. Lifecycle'
  BY <1>1 DEF Lifecycle, Inductive
<1>5. ConnectBound'
  BY <1>2 DEF ConnectBound, Inductive
<1>6. ~LookupThrows => BindingHasOwner'
  BY DEF BindingHasOwner, Inductive
<1>7. ~OsFaults => PendingHasFlusher'
  BY DEF PendingHasFlusher, Inductive
<1>8. "resume" \notin Calls /\ ~LateAccept => NoRevival'
  BY <1>1 DEF NoRevival, Revived, Inductive
<1> QED BY <1>3, <1>4, <1>5, <1>6, <1>7, <1>8 DEF Inductive

-----------------------------------------------------------------------------
(* The calls of the program *)

\* _bindMaybe keeps the invariant: what it queues is flushed by the bind it begins.
LEMMA BindMaybeKeeps ==
    ASSUME Inductive, TypeOK', stack # <<>>, ~Closing(state), NEW fn,
           NEW st \in SUBSET Bits, state \subseteq st, st \subseteq state \cup {"CONNECTING"},
           NEW pz \in BOOLEAN, bindMaybe(fn, st, pz)
    PROVE  Inductive'
<1>1. TypeOK /\ h.loop = "active" /\ ~h.exiting
  BY OpenIsActive DEF Inductive
<1>2. lookups' = lookups /\ "BOUND" \notin st
  BY DEF bindMaybe
<1>3. CASE "BINDING" \in st /\ state' = st /\ UNCHANGED <<h, micro, stack>>
  BY <1>1, <1>2, <1>3, QuietStepKeeps DEF Closing
<1>4. CASE bindWith(bare_dgram_bind(h), st \cup {"BINDING"}, pz, Append(pending, fn), stack)
  <2>1. /\ bare_dgram_bind(h) \in SUBSET Result
        /\ \A res \in bare_dgram_bind(h) : LifeOf(res.h) = LifeOf(h)
    BY <1>1, BindResult, CallsKeepLife DEF TypeOK
  <2>2. st \cup {"BINDING"} \in SUBSET Bits /\ ~Closing(st \cup {"BINDING"})
    BY DEF Bits, Closing
  <2>3. /\ LifeOf(h') = LifeOf(h)
        /\ \/ /\ state' \ {"READING"} = ((st \cup {"BINDING"}) \cup {"BOUND"}) \ {"BINDING", "READING"}
              /\ micro' = micro
              /\ pending' = <<>> \/ OsFaults
           \/ onbinderror(h', st \cup {"BINDING"}, Append(pending, fn), stack)
    BY <1>4, <2>1, <2>2, BindWithFacts
  <2>4. ASSUME onbinderror(h', st \cup {"BINDING"}, Append(pending, fn), stack)
        PROVE  state' = st \cup {"BINDING"} /\ ReportsBind(micro') /\ stack' = stack
    BY <1>1, <2>4, AppendReports DEF onbinderror, TypeOK, Micro
  <2> QED BY <1>1, <1>2, <2>2, <2>3, <2>4, BindStepKeeps
<1> QED BY <1>3, <1>4 DEF bindMaybe

\* bind() keeps the invariant.
LEMMA BindKeeps ==
    ASSUME Inductive, stack # <<>>, bind
    PROVE  Inductive'
<1> DEFINE st == state \cup {"BINDING"}
<1>1. TypeOK /\ TypeOK'
  BY BindKeepsType DEF Inductive
<1>2. ~Closing(state) /\ "BOUND" \notin state /\ st \in SUBSET Bits /\ ~Closing(st)
  BY <1>1 DEF bind, TypeOK, Bits, Closing
<1>3. h.loop = "active" /\ ~h.exiting
  BY <1>1, <1>2, OpenIsActive DEF Inductive
<1>4. ASSUME onbinderror(h', st, pending, stack)
      PROVE  state' = st /\ ReportsBind(micro') /\ stack' = stack
  BY <1>1, <1>4, AppendReports DEF onbinderror, TypeOK, Micro
<1>5. CASE \/ bindWith(bare_dgram_open(h), st, paused, pending, stack) /\ lookups' = lookups
           \/ bindWith(bare_dgram_bind(h), st, paused, pending, stack) /\ lookups' = lookups
  <2>1. \A results \in {bare_dgram_open(h), bare_dgram_bind(h)} :
           /\ results \in SUBSET Result
           /\ \A res \in results : LifeOf(res.h) = LifeOf(h)
    BY <1>1, OpenResult, BindResult, CallsKeepLife DEF TypeOK
  <2>2. /\ LifeOf(h') = LifeOf(h)
        /\ \/ /\ state' \ {"READING"} = (st \cup {"BOUND"}) \ {"BINDING", "READING"}
              /\ micro' = micro
              /\ pending' = <<>> \/ OsFaults
           \/ onbinderror(h', st, pending, stack)
    BY <1>1, <1>2, <1>5, <2>1, BindWithFacts DEF TypeOK
  <2> QED BY <1>1, <1>2, <1>3, <1>4, <1>5, <2>2, BindStepKeeps
<1>6. CASE onbinderror(h, st, pending, stack) /\ lookups' = lookups
  <2>1. h' = h
    BY <1>6 DEF onbinderror
  <2> QED BY <1>1, <1>2, <1>3, <1>4, <1>6, <2>1, BindStepKeeps
<1>7. CASE /\ lookups' = lookups \cup {"bind"} \/ (LookupThrows /\ lookups' = lookups)
           /\ state' = st /\ UNCHANGED <<h, pending, micro, stack>>
  BY <1>1, <1>2, <1>3, <1>7, BindStepKeeps
<1> QED BY <1>5, <1>6, <1>7 DEF bind

\* connect() keeps the invariant: it only looks its host up on a bound socket.
LEMMA ConnectKeeps ==
    ASSUME Inductive, stack # <<>>, "connect" \in Calls, connect
    PROVE  Inductive'
<1> DEFINE st == state \cup {"CONNECTING"}
<1>1. TypeOK /\ TypeOK'
  BY ConnectKeepsType DEF Inductive
<1>2. ~Closing(state) /\ st \in SUBSET Bits
  BY <1>1 DEF connect, TypeOK, Bits
<1>3. h.loop = "active" /\ ~h.exiting
  BY <1>1, <1>2, OpenIsActive DEF Inductive
<1>4. CASE "BOUND" \in st /\ resolveConnect(st, stack) /\ UNCHANGED <<pending, sends, settled>>
  <2>1. /\ LifeOf(h') = LifeOf(h) /\ h'.sock = h.sock
        /\ stack' = stack \/ stack' \in Unwound(stack)
        /\ \/ state' = st
           \/ state' = st \ {"CONNECTING"}
           \/ ~Closing(st) /\ state' = (st \ {"CONNECTING"}) \cup {"CONNECTED"}
        /\ micro' \in {micro, Append(micro, "error"), Append(micro, "connect")}
    BY <1>1, <1>2, <1>4, ConnectFacts
  <2>2. stack \in Seq(UnboundFrame) => stack' \in Seq(UnboundFrame)
    BY <2>1, UnboundStack
  <2>3. "bind" \in lookups => "bind" \in lookups'
    BY <1>4 DEF resolveConnect
  <2>4. ReportsBind(micro) => ReportsBind(micro')
    BY <1>1, <2>1, ConnectReports
  <2> QED BY <1>1, <1>2, <1>3, <1>4, <2>1, <2>2, <2>3, <2>4, QuietStepKeeps
<1>5. CASE bindMaybe("connect", st, paused)
  BY <1>1, <1>2, <1>5, BindMaybeKeeps DEF TypeOK
<1> QED BY <1>4, <1>5 DEF connect

\* send() keeps the invariant: a handed-over request moves no bit.
LEMMA SendKeeps ==
    ASSUME Inductive, stack # <<>>, NEW r \in Req, send(r)
    PROVE  Inductive'
<1>1. TypeOK /\ TypeOK'
  BY SendKeepsType DEF Inductive
<1>2. ~Closing(state) /\ state \in SUBSET Bits
  BY <1>1 DEF send, TypeOK
<1>3. h.loop = "active" /\ ~h.exiting
  BY <1>1, <1>2, OpenIsActive DEF Inductive
<1>4. r \notin {"bind", "connect"}
  BY DgramSocketAssumption
<1>5. CASE /\ "CONNECTED" \in state
           /\ handOver(r, FALSE, stack)
           /\ UNCHANGED <<state, pending, lookups, micro>>
  <2>1. LifeOf(h') = LifeOf(h) /\ h'.sock = h.sock
    BY <1>1, <1>5, HandOverFacts
  <2>2. "BOUND" \in state
    BY <1>5 DEF Inductive, StateBits
  <2>3. stack \in Seq(UnboundFrame) => stack' \in Seq(UnboundFrame)
    BY <1>5, UnboundStack DEF handOver, onsenderror, UserKinds
  <2> QED BY <1>1, <1>2, <1>3, <1>5, <2>1, <2>3, QuietStepKeeps
<1>6. CASE resolveSend(r, stack) /\ UNCHANGED <<state, pending, micro>>
  <2>1. /\ LifeOf(h') = LifeOf(h) /\ h'.sock = h.sock
        /\ stack \in Seq(UnboundFrame) => stack' \in Seq(UnboundFrame)
    BY <1>1, <1>6, ResolveSendFacts
  <2>2. lookups' = lookups \/ lookups' = lookups \cup {r}
    BY <1>6 DEF resolveSend
  <2> QED BY <1>1, <1>2, <1>3, <1>4, <1>6, <2>1, <2>2, QuietStepKeeps
<1>7. CASE bindMaybe(r, state, paused)
  BY <1>1, <1>2, <1>7, BindMaybeKeeps DEF TypeOK
<1> QED BY <1>5, <1>6, <1>7 DEF send

\* resume() keeps the invariant; its queued half is what NoRevival leaves out.
LEMMA ResumeKeeps ==
    ASSUME Inductive, stack # <<>>, "resume" \in Calls, resume
    PROVE  Inductive'
<1>1. TypeOK /\ TypeOK'
  BY ResumeKeepsType DEF Inductive
<1>2. h.loop # "aborted" /\ ~h.exiting
  BY DEF Inductive, Lifecycle
<1>3. CASE UNCHANGED <<state, pending, sends, h, lookups, micro, stack, settled>>
  BY <1>1, <1>2, <1>3, QuietStepKeeps DEF Inductive, StateBits, Closing
<1>4. CASE /\ ~Closing(state) /\ "BOUND" \in state
           /\ \E res \in resumed(h, state, FALSE) : state' = res.state /\ h' = res.h
           /\ UNCHANGED <<pending, sends, lookups, micro, stack, settled>>
  <2>1. /\ state' \ {"READING"} = state \ {"READING"}
        /\ LifeOf(h') = LifeOf(h)
    BY <1>1, <1>4, CallsKeepLife DEF resumed, TypeOK
  <2> QED BY <1>1, <1>2, <1>4, <2>1, QuietStepKeeps
<1>5. CASE ~Closing(state) /\ bindMaybe("resume", state, FALSE)
  BY <1>1, <1>5, BindMaybeKeeps DEF TypeOK
<1> QED BY <1>3, <1>4, <1>5 DEF resume

\* close() keeps the invariant: it clears the bits that a late callback must not find.
LEMMA CloseKeeps ==
    ASSUME Inductive, stack # <<>>, close
    PROVE  Inductive'
<1>1. TypeOK /\ TypeOK' /\ h.loop # "aborted" /\ ~h.exiting
  BY OtherCallsKeepType DEF Inductive, Lifecycle
<1>2. CASE /\ micro' = Append(micro, "onclose")
           /\ UNCHANGED <<state, paused, pending, sends, h, lookups, stack, issued, settled>>
  <2>1. ReportsBind(micro) => ReportsBind(micro')
    BY <1>1, <1>2, AppendReports DEF TypeOK, Micro
  <2> QED BY <1>1, <1>2, <2>1, QuietStepKeeps DEF Inductive, StateBits
<1>3. CASE /\ ~Closing(state)
           /\ state' = (state \ {"BINDING", "BOUND", "CONNECTING", "CONNECTED", "READING"})
                          \cup {"CLOSING"}
           /\ h' = bare_dgram_close(h)
           /\ UNCHANGED <<paused, pending, sends, lookups, micro, stack, issued, settled>>
  <2>1. h.loop = "active" /\ ~h.closing
    BY <1>1, <1>3, OpenIsActive DEF Inductive, Lifecycle
  <2>2. /\ h'.loop = "closing" /\ h'.closing /\ ~h'.exiting /\ h'.sock = "none"
    BY <1>1, <1>3, <2>1 DEF bare_dgram_close, uv_close, TypeOK, Handle
  <2>3. Closing(state') /\ "CLOSING" \in state' /\ "CLOSED" \notin state'
    BY <1>3 DEF Closing
  <2>4. StateBits' /\ BindingHasOwner' /\ PendingHasFlusher' /\ ConnectBound'
    BY <1>3, <2>3 DEF StateBits, BindingHasOwner, PendingHasFlusher, ConnectBound
  <2>5. Lifecycle' /\ NoRevival'
    BY <2>2, <2>3 DEF Lifecycle, NoRevival, Revived
  <2> QED BY <1>1, <2>4, <2>5 DEF Inductive
<1> QED BY <1>2, <1>3 DEF close

\* The calls that set neither BINDING nor a bit of closing.
LEMMA OtherCallsKeep ==
    ASSUME Inductive, stack # <<>>, disconnect \/ pause \/ setOption \/ ref \/ unref
    PROVE  Inductive'
<1>1. TypeOK /\ TypeOK' /\ h.loop # "aborted" /\ ~h.exiting
  BY OtherCallsKeepType DEF Inductive, Lifecycle
<1>2. UNCHANGED <<pending, lookups, micro, stack>>
  BY DEF disconnect, pause, setOption, ref, unref
<1>3. state' \subseteq state \cup {"UNREFED"} /\ state \ {"CONNECTED", "READING", "UNREFED"} \subseteq state'
  BY DEF disconnect, pause, setOption, ref, unref
<1>4. LifeOf(h') = LifeOf(h) /\ (h'.sock = h.sock \/ h.loop = "active")
  <2>1. CASE disconnect
    BY <1>1, <2>1, ConnectKeepsSocket DEF disconnect, TypeOK
  <2>2. CASE pause \/ ref \/ unref
    BY <1>1, <2>2, StepsKeepSocket DEF pause, ref, unref, TypeOK
  <2>3. CASE setOption
    <3>1. h.loop = "active"
      BY <1>1, <2>3, OpenIsActive DEF setOption, Inductive
    <3> QED BY <1>1, <2>3, <3>1, CallsKeepLife DEF setOption, TypeOK
  <2> QED BY <2>1, <2>2, <2>3
<1> QED BY <1>1, <1>2, <1>3, <1>4, QuietStepKeeps DEF Inductive, StateBits

\* Adopting a descriptor from a pipe does, and the bind it ends may be that of a
\* socket that was closed.
LEMMA IpcAcceptKeeps ==
    ASSUME Inductive, stack # <<>>, ipcAccept
    PROVE  Inductive'
<1>1. TypeOK /\ TypeOK'
  BY OtherCallsKeepType DEF Inductive
<1>2. PICK res \in bare_dgram_open(h) : onbind(res.h, state, paused, pending, stack)
  BY DEF ipcAccept
<1>3. res.h \in Handle /\ LifeOf(res.h) = LifeOf(h)
  BY <1>1, OpenResult, CallsKeepLife DEF TypeOK, Result
<1>4. /\ LifeOf(h') = LifeOf(h)
      /\ state' \ {"READING"} = (state \cup {"BOUND"}) \ {"BINDING", "READING"}
      /\ micro' = micro
      /\ pending' = <<>> \/ (pending' = pending /\ (OsFaults \/ Closing(state)))
  BY <1>1, <1>2, <1>3, OnBindFacts DEF TypeOK
<1>5. lookups' = lookups /\ state \in SUBSET Bits
  BY <1>1 DEF ipcAccept, TypeOK
<1>6. CASE ~Closing(state)
  <2>1. h.loop = "active"
    BY <1>1, <1>6, OpenIsActive DEF Inductive
  <2> QED BY <1>1, <1>4, <1>5, <1>6, <2>1, BindStepKeeps
<1>7. CASE Closing(state)
  <2>1. LateAccept /\ h.loop # "aborted" /\ ~h.exiting
    BY <1>7 DEF ipcAccept, Inductive, Lifecycle
  <2>2. /\ "CLOSING" \in state' <=> "CLOSING" \in state
        /\ "CLOSED" \in state' <=> "CLOSED" \in state
        /\ state' \cap {"BINDING", "CONNECTING", "CONNECTED"} = {} /\ Closing(state')
    BY <1>4, <1>7 DEF Inductive, StateBits, Closing
  <2>3. StateBits' /\ BindingHasOwner' /\ ConnectBound'
    BY <2>1, <2>2 DEF StateBits, BindingHasOwner, ConnectBound, Inductive
  <2>4. Lifecycle'
    BY <1>4, <2>1, <2>2 DEF Lifecycle, LifeOf, Inductive
  <2>5. ~OsFaults => PendingHasFlusher'
    BY <1>4, <1>7, <2>2 DEF PendingHasFlusher, Inductive, StateBits, Closing
  <2> QED BY <1>1, <2>1, <2>3, <2>4, <2>5 DEF Inductive
<1> QED BY <1>6, <1>7

-----------------------------------------------------------------------------
(* flush, the microtasks and the event loop *)

\* The flush of onbind is on the stack of a socket that was bound.
LEMMA FlushOnBound ==
    ASSUME Inductive, flushNext
    PROVE  stack \notin Seq(UnboundFrame) /\ ("BOUND" \in state \/ Closing(state))
<1>1. stack # <<>> /\ Head(stack).kind = "bound"
  BY DEF flushNext, InFlush
<1>2. ASSUME stack \in Seq(UnboundFrame) PROVE Head(stack) \in UnboundFrame
  BY <1>1, <1>2, HeadTailProperties
<1>3. stack \notin Seq(UnboundFrame)
  BY <1>1, <1>2 DEF UnboundFrame
<1> QED BY <1>3 DEF Inductive, ConnectBound

\* So what it calls keeps the invariant.
LEMMA FlushNextKeeps ==
    ASSUME Inductive, flushNext
    PROVE  Inductive'
<1> DEFINE fn == Head(Head(stack).fns)
           rest == Push("bound", Tail(Head(stack).fns), Tail(stack))
<1>1. TypeOK /\ TypeOK' /\ stack # <<>> /\ h.loop # "aborted" /\ ~h.exiting
  BY FlushNextKeepsType DEF Inductive, Lifecycle, flushNext, InFlush
<1>2. fn \in Fn /\ state \in SUBSET Bits
  BY <1>1, TopFrame DEF flushNext, TypeOK
<1>3. stack \notin Seq(UnboundFrame) /\ ("BOUND" \in state \/ Closing(state))
  BY FlushOnBound
<1>4. Closing(state) => state \cap {"CONNECTING", "CONNECTED"} = {}
  BY DEF Inductive, StateBits
<1>5. CASE fn \in Req /\ resolveSend(fn, rest) /\ UNCHANGED <<state, micro, pending>>
  <2>1. LifeOf(h') = LifeOf(h) /\ h'.sock = h.sock
    BY <1>1, <1>5, ResolveSendFacts
  <2>2. (lookups' = lookups \/ lookups' = lookups \cup {fn}) /\ fn \notin {"bind", "connect"}
    BY <1>5, DgramSocketAssumption DEF resolveSend
  <2> QED BY <1>1, <1>3, <1>4, <1>5, <2>1, <2>2, QuietStepKeeps
<1>6. CASE resolveConnect(state, rest) /\ UNCHANGED pending
  <2>1. /\ LifeOf(h') = LifeOf(h) /\ h'.sock = h.sock
        /\ \/ state' = state
           \/ state' = state \ {"CONNECTING"}
           \/ ~Closing(state) /\ state' = (state \ {"CONNECTING"}) \cup {"CONNECTED"}
        /\ micro' \in {micro, Append(micro, "error"), Append(micro, "connect")}
    BY <1>1, <1>2, <1>6, ConnectFacts
  <2>2. "bind" \in lookups => "bind" \in lookups'
    BY <1>6 DEF resolveConnect
  <2>3. ReportsBind(micro) => ReportsBind(micro')
    BY <1>1, <2>1, ConnectReports
  <2> QED BY <1>1, <1>3, <1>4, <1>6, <2>1, <2>2, <2>3, QuietStepKeeps
<1>7. CASE /\ fn = "resume"
           /\ \E res \in resumed(h, state, paused) : state' = res.state /\ h' = res.h
           /\ UNCHANGED <<sends, lookups, micro, settled, pending>>
  <2>1. /\ state' \ {"READING"} = state \ {"READING"}
        /\ LifeOf(h') = LifeOf(h)
    BY <1>1, <1>7, CallsKeepLife DEF resumed, TypeOK
  <2>2. "resume" \in Calls
    BY <1>2, <1>7, DgramSocketAssumption DEF Fn
  <2> QED BY <1>1, <1>3, <1>4, <1>7, <2>1, <2>2, QuietStepKeeps
<1> QED BY <1>5, <1>6, <1>7 DEF flushNext

\* A function called with an error sets no bit.
LEMMA FlushErrorKeeps ==
    ASSUME Inductive, flushError
    PROVE  Inductive'
<1> DEFINE fn == Head(Head(stack).fns)
           rest == Push(Head(stack).kind, Tail(Head(stack).fns), Tail(stack))
<1>1. TypeOK /\ TypeOK' /\ stack # <<>> /\ h.loop # "aborted" /\ ~h.exiting
  BY FlushErrorKeepsType DEF Inductive, Lifecycle, flushError, InFlush
<1>2. /\ state' = IF fn = "connect" THEN state \ {"CONNECTING"} ELSE state
      /\ UNCHANGED <<paused, pending, sends, h, lookups, micro, issued>>
  BY DEF flushError
<1>3. Closing(state) => "CONNECTING" \notin state
  BY DEF Inductive, StateBits
<1>4. ASSUME stack \in Seq(UnboundFrame)
      PROVE  stack' \in Seq(UnboundFrame)
  <2>1. Tail(stack) \in Seq(UnboundFrame)
    BY <1>1, <1>4, HeadTailProperties
  <2>2. Head(stack).kind \in {"failed", "closed"} /\ Tail(Head(stack).fns) \in Seq(Fn)
    BY <1>1, TopFrame, HeadTailProperties DEF flushError, InFlush
  <2>3. rest \in Seq(UnboundFrame)
    BY <2>1, <2>2, UnboundStack
  <2> QED BY <2>3, UnboundStack DEF flushError, callback, UserKinds
<1> QED BY <1>1, <1>2, <1>3, <1>4, QuietStepKeeps

\* Emitting the event after a flush disturbs nothing.
LEMMA FlushDoneKeeps ==
    ASSUME Inductive, flushDone
    PROVE  Inductive'
<1>1. TypeOK /\ TypeOK' /\ stack # <<>> /\ h.loop # "aborted" /\ ~h.exiting
  BY FlushDoneKeepsType DEF Inductive, Lifecycle, flushDone
<1>2. UNCHANGED <<state, paused, pending, sends, h, lookups, issued, settled>>
  BY DEF flushDone
<1>3. ReportsBind(micro) => ReportsBind(micro')
  <2>1. micro \in Seq(Micro) /\ "listening" \in Micro
    BY <1>1 DEF TypeOK, Micro
  <2>2. ReportsBind(micro) => ReportsBind(Append(micro, "listening"))
    BY <2>1, AppendReports
  <2>3. micro' \in {micro, Append(micro, "listening")}
    BY DEF flushDone
  <2>4. CASE micro' = micro
    BY <2>4
  <2>5. CASE micro' = Append(micro, "listening")
    BY <2>2, <2>5
  <2> QED BY <2>3, <2>4, <2>5
<1>4. ASSUME stack \in Seq(UnboundFrame)
      PROVE  stack' \in Seq(UnboundFrame)
  <2>1. Tail(stack) \in Seq(UnboundFrame)
    BY <1>1, <1>4, HeadTailProperties
  <2> QED BY <2>1, UnboundStack DEF flushDone, UserKinds
<1> QED BY <1>1, <1>2, <1>3, <1>4, QuietStepKeeps DEF Inductive, StateBits

\* Nor do the steps that only enter or leave user code.
LEMMA ReturnsKeep ==
    ASSUME Inductive, Return \/ Throw \/ userTurn \/ \E err \in BOOLEAN : onmessage(err)
    PROVE  Inductive'
<1>1. TypeOK /\ TypeOK'
  BY ReturnsKeepType DEF Inductive
<1>2. UNCHANGED <<state, paused, pending, sends, h, lookups, micro, issued, settled>>
  BY DEF Return, Throw, userTurn, onmessage
<1>3. h.loop # "aborted" /\ ~h.exiting
  BY <1>1 DEF Return, Throw, userTurn, onmessage, InUserCode, Idle, CanReceive, Inductive, Lifecycle
<1>4. stack \in Seq(UnboundFrame) => stack' \in Seq(UnboundFrame)
  <2>1. CASE Return \/ Throw
    <3>1. ASSUME stack \in Seq(UnboundFrame)
          PROVE  Tail(stack) \in Seq(UnboundFrame)
      BY <2>1, <3>1, UnboundStack DEF Return, Throw, InUserCode
    <3> QED BY <2>1, <3>1, UnboundStack DEF Return, Throw
  <2>2. CASE userTurn \/ \E err \in BOOLEAN : onmessage(err)
    <3>1. <<>> \in Seq(UnboundFrame)
      BY EmptySeq
    <3> QED BY <2>2, <3>1, UnboundStack DEF userTurn, onmessage, UserKinds
  <2> QED BY <2>1, <2>2
<1> QED BY <1>1, <1>2, <1>3, <1>4, QuietStepKeeps DEF Inductive, StateBits

\* The report of a failed bind takes BINDING and the queue away together.
LEMMA MicrotasksKeep ==
    ASSUME Inductive, runMicrotask \/ runBindError
    PROVE  Inductive'
<1>1. TypeOK /\ TypeOK' /\ h.loop # "aborted" /\ ~h.exiting
  BY MicrotasksKeepType DEF Inductive, Lifecycle, runMicrotask, runBindError
<1>2. CASE runMicrotask
  <2>1. UNCHANGED <<state, paused, pending, sends, h, lookups, issued, settled>>
    BY <1>2 DEF runMicrotask
  <2>2. ReportsBind(micro) => ReportsBind(micro')
    BY <1>1, <1>2, TailReports DEF runMicrotask, TypeOK
  <2>3. stack' \in Seq(UnboundFrame)
    <3>1. Head(micro) \in UserKinds
      BY <1>1, <1>2, HeadTailProperties DEF runMicrotask, TypeOK, Micro, UserKinds
    <3>2. <<>> \in Seq(UnboundFrame)
      BY EmptySeq
    <3> QED BY <1>2, <3>1, <3>2, UnboundStack DEF runMicrotask
  <2> QED BY <1>1, <2>1, <2>2, <2>3, QuietStepKeeps DEF Inductive, StateBits
<1>3. CASE runBindError
  <2>1. state' = state \ {"BINDING"} /\ pending' = <<>> /\ UNCHANGED <<h, lookups>>
    BY <1>3 DEF runBindError
  <2>2. stack' \in Seq(UnboundFrame)
    <3>1. <<>> \in Seq(UnboundFrame) /\ pending \in Seq(Fn)
      BY <1>1, EmptySeq DEF TypeOK
    <3> QED BY <1>3, <3>1, UnboundStack DEF runBindError
  <2>3. Closing(state') <=> Closing(state)
    BY <2>1 DEF Closing
  <2>4. StateBits' /\ (~LookupThrows => BindingHasOwner') /\ PendingHasFlusher'
    BY <2>1, <2>3 DEF StateBits, BindingHasOwner, PendingHasFlusher, Inductive
  <2>5. Lifecycle'
    BY <1>1, <2>1 DEF Lifecycle, Inductive
  <2>6. ConnectBound'
    BY <2>1, <2>2, <2>3 DEF ConnectBound, Inductive
  <2>7. "resume" \notin Calls /\ ~LateAccept => NoRevival'
    BY <2>1 DEF NoRevival, Revived, Inductive
  <2> QED BY <1>1, <2>4, <2>5, <2>6, <2>7 DEF Inductive
<1> QED BY <1>2, <1>3

\* A lookup that answers after close() touches no bit and no handle.
LEMMA LookupsKeep ==
    ASSUME Inductive, NEW ok \in BOOLEAN,
           lookupBind(ok) \/ lookupConnect(ok) \/ \E r \in Req : lookupSend(r, ok)
    PROVE  Inductive'
<1>1. TypeOK /\ TypeOK' /\ h.loop # "aborted" /\ ~h.exiting /\ stack = <<>>
  BY LookupsKeepType DEF Inductive, lookupBind, lookupConnect, lookupSend, Idle
<1>2. state \in SUBSET Bits /\ paused \in BOOLEAN /\ <<>> \in Seq(UnboundFrame)
  BY <1>1, EmptySeq DEF TypeOK
<1>3. CASE lookupBind(ok)
  <2>1. "connect" \in lookups' => "connect" \in lookups
    BY <1>3 DEF lookupBind
  <2>2. CASE Closing(state) /\ UNCHANGED <<state, pending, h, micro, stack>>
    <3>1. "BINDING" \notin state
      BY <2>2 DEF Inductive, StateBits
    <3>2. StateBits' /\ Lifecycle' /\ PendingHasFlusher' = PendingHasFlusher /\ NoRevival' = NoRevival
      BY <2>2 DEF StateBits, Lifecycle, PendingHasFlusher, NoRevival, Revived, Inductive
    <3>3. BindingHasOwner' /\ ConnectBound'
      BY <2>1, <2>2, <3>1 DEF BindingHasOwner, ConnectBound, Inductive
    <3> QED BY <1>1, <3>2, <3>3 DEF Inductive
  <2>3. CASE ~Closing(state)
    <3>1. h.loop = "active"
      BY <1>1, <1>3, <2>3, OpenIsActive DEF lookupBind, Inductive
    <3>2. ASSUME onbinderror(h', state, pending, <<>>)
          PROVE  state' = state /\ ReportsBind(micro') /\ pending' = pending /\ stack' = <<>>
      BY <1>1, <3>2, AppendReports DEF onbinderror, TypeOK, Micro
    <3>3. ~({"BINDING", "BOUND"} \subseteq state) /\ (~OsFaults /\ pending # <<>> => "BINDING" \in state)
      BY <2>3 DEF Inductive, StateBits, PendingHasFlusher, Closing
    <3>4. CASE onbinderror(h, state, pending, <<>>)
      <4>1. h' = h
        BY <3>4 DEF onbinderror
      <4> QED BY <1>1, <1>2, <2>1, <2>3, <3>1, <3>2, <3>3, <3>4, <4>1, BindStepKeeps
    <3>5. CASE bindWith(bare_dgram_bind(h), state, paused, pending, <<>>)
      <4>1. /\ bare_dgram_bind(h) \in SUBSET Result
            /\ \A res \in bare_dgram_bind(h) : LifeOf(res.h) = LifeOf(h)
        BY <1>1, BindResult, CallsKeepLife DEF TypeOK
      <4>2. /\ LifeOf(h') = LifeOf(h)
            /\ \/ /\ state' \ {"READING"} = (state \cup {"BOUND"}) \ {"BINDING", "READING"}
                  /\ micro' = micro
                  /\ pending' = <<>> \/ OsFaults
               \/ onbinderror(h', state, pending, <<>>)
        BY <1>2, <2>3, <3>5, <4>1, BindWithFacts
      <4> QED BY <1>1, <1>2, <2>1, <2>3, <3>1, <3>2, <3>3, <4>2, BindStepKeeps
    <3> QED BY <1>3, <2>3, <3>4, <3>5 DEF lookupBind
  <2> QED BY <1>3, <2>2, <2>3 DEF lookupBind
<1>4. CASE lookupConnect(ok)
  <2>1. /\ LifeOf(h') = LifeOf(h) /\ h'.sock = h.sock
        /\ \/ state' = state
           \/ state' = state \ {"CONNECTING"}
           \/ ~Closing(state) /\ state' = (state \ {"CONNECTING"}) \cup {"CONNECTED"}
        /\ micro' \in {micro, Append(micro, "error"), Append(micro, "connect")}
    BY <1>1, <1>2, <1>4, ConnectFacts DEF lookupConnect
  <2>2. ReportsBind(micro) => ReportsBind(micro')
    BY <1>1, <2>1, ConnectReports
  <2>3. stack' = <<>>
    BY <1>4 DEF lookupConnect, connectResolved
  <2>4. lookups' = lookups \ {"connect"} /\ pending' = pending /\ ("BOUND" \in state \/ Closing(state))
    BY <1>4 DEF lookupConnect, Inductive, ConnectBound
  <2>5. Closing(state) => "CONNECTING" \notin state
    BY DEF Inductive, StateBits
  <2> QED BY <1>1, <1>2, <2>1, <2>2, <2>3, <2>4, <2>5, QuietStepKeeps
<1>5. ASSUME NEW r \in Req, lookupSend(r, ok)
      PROVE  Inductive'
  <2>1. /\ LifeOf(h') = LifeOf(h) /\ h'.sock = h.sock
        /\ stack' \in Seq(UnboundFrame)
    BY <1>1, <1>2, <1>5, ResolveSendFacts DEF lookupSend
  <2>2. /\ UNCHANGED <<state, pending, micro>>
        /\ lookups' = lookups \ {r}
        /\ r \notin {"bind", "connect"}
    BY <1>5, DgramSocketAssumption DEF lookupSend
  <2> QED BY <1>1, <2>1, <2>2, QuietStepKeeps DEF Inductive, StateBits
<1> QED BY <1>3, <1>4, <1>5

\* The handle calls back in step with the closing bits.
LEMMA HandleCallbacksKeep ==
    ASSUME Inductive, (\E err \in BOOLEAN : onsend(err)) \/ onclose \/ onteardown
    PROVE  Inductive'
<1>1. TypeOK /\ TypeOK' /\ h.loop # "aborted" /\ stack = <<>> /\ micro = <<>>
  BY HandleCallbacksKeepType DEF Inductive, onsend, onclose, onteardown, Idle
<1>2. <<>> \in Seq(UnboundFrame)
  BY EmptySeq
<1>3. ASSUME NEW err \in BOOLEAN, onsend(err)
      PROVE  Inductive'
  <2>1. LifeOf(h') = LifeOf(h) /\ h'.sock = h.sock
    BY <1>1, <1>3, StepsKeepSocket DEF onsend, TypeOK
  <2>2. UNCHANGED <<state, pending, lookups, micro>>
    BY <1>3 DEF onsend
  <2>3. stack' \in Seq(UnboundFrame) /\ (h.exiting => stack' = <<>>)
    BY <1>1, <1>2, <1>3, UnboundStack DEF onsend, UserKinds
  <2> QED BY <1>1, <2>1, <2>2, <2>3, QuietStepKeeps DEF Inductive, StateBits
<1>4. CASE onclose
  <2>1. /\ h.loop = "closing"
        /\ h'.loop = IF Revived(h) THEN "aborted" ELSE "closed"
        /\ h'.exiting = h.exiting /\ h'.closing = h.closing
    BY <1>1, <1>4 DEF onclose, CanClose, bare_dgram__on_close, TypeOK, Handle
  <2>2. UNCHANGED <<lookups, micro>>
    BY <1>4 DEF onclose
  <2>3. CASE UNCHANGED <<state, pending, sends, stack>> /\ (h.exiting \/ h'.loop = "aborted")
    <3>1. StateBits' /\ (~LookupThrows => BindingHasOwner') /\ ConnectBound' /\ PendingHasFlusher' = PendingHasFlusher
      BY <2>2, <2>3 DEF StateBits, BindingHasOwner, ConnectBound, PendingHasFlusher, Inductive
    <3>2. Lifecycle'
      BY <1>1, <2>1, <2>2, <2>3 DEF Lifecycle, Inductive
    <3>3. "resume" \notin Calls /\ ~LateAccept => NoRevival'
      BY <2>1 DEF NoRevival, Revived, Inductive
    <3> QED BY <1>1, <3>1, <3>2, <3>3 DEF Inductive
  <2>4. CASE /\ ~h.exiting /\ h'.loop # "aborted"
             /\ state' = (state \cup {"CLOSED"}) \ {"CLOSING"}
             /\ pending' = <<>>
    <3>1. "CLOSING" \in state /\ Closing(state) /\ h.closing
      BY <2>1, <2>4 DEF Lifecycle, Inductive, Closing
    <3>2. Closing(state')
      BY <2>4 DEF Closing
    <3>3. StateBits' /\ BindingHasOwner' /\ ConnectBound' /\ PendingHasFlusher'
      BY <2>4, <3>1, <3>2 DEF StateBits, BindingHasOwner, ConnectBound, PendingHasFlusher, Inductive
    <3>4. Lifecycle'
      BY <2>1, <2>4, <3>1 DEF Lifecycle
    <3>5. NoRevival'
      BY <2>1, <2>4 DEF NoRevival, Revived
    <3> QED BY <1>1, <3>3, <3>4, <3>5 DEF Inductive
  <2> QED BY <1>4, <2>3, <2>4 DEF onclose
<1>5. CASE onteardown
  <2>1. UNCHANGED <<state, paused, pending, sends, lookups, micro, stack, issued, settled>>
        /\ h' = bare_dgram__on_teardown(h) /\ ~h.exiting /\ h.loop # "closed"
    BY <1>5 DEF onteardown
  <2>2. \/ h.closing /\ h'.loop = h.loop /\ h'.sock = h.sock
        \/ ~h.closing /\ h.loop = "active" /\ h'.loop = "closing" /\ h'.sock = "none"
    BY <1>1, <2>1 DEF bare_dgram__on_teardown, uv_close, TypeOK, Handle, Lifecycle, Inductive
  <2>3. h'.exiting /\ h'.closing = h.closing
    BY <1>1, <2>1 DEF bare_dgram__on_teardown, uv_close, TypeOK, Handle
  <2>4. StateBits' /\ (~LookupThrows => BindingHasOwner') /\ ConnectBound' /\ PendingHasFlusher' = PendingHasFlusher
    BY <2>1 DEF StateBits, BindingHasOwner, ConnectBound, PendingHasFlusher, Inductive
  <2>5. Lifecycle'
    BY <1>1, <2>1, <2>2, <2>3 DEF Lifecycle, Inductive
  <2>6. "resume" \notin Calls /\ ~LateAccept => NoRevival'
    BY <2>2 DEF NoRevival, Revived, Inductive
  <2> QED BY <1>1, <2>4, <2>5, <2>6 DEF Inductive
<1> QED BY <1>3, <1>4, <1>5

-----------------------------------------------------------------------------

\* A new socket satisfies the invariant.
LEMMA InitInductive == Init => Inductive
<1> SUFFICES ASSUME Init PROVE Inductive
  OBVIOUS
<1>1. TypeOK
  BY InitHandle, EmptySeq DEF Init, TypeOK
<1>2. h.loop = "active" /\ ~h.closing /\ ~h.exiting
  BY DEF Init, bare_dgram_init
<1>3. stack \in Seq(UnboundFrame)
  BY EmptySeq DEF Init
<1>4. StateBits /\ BindingHasOwner /\ PendingHasFlusher
  BY DEF Init, StateBits, BindingHasOwner, PendingHasFlusher, Closing
<1>5. Lifecycle /\ ConnectBound /\ NoRevival
  BY <1>2, <1>3 DEF Init, Lifecycle, ConnectBound, NoRevival, Revived
<1> QED BY <1>1, <1>4, <1>5 DEF Inductive

\* Every step keeps the invariant.
LEMMA StepKeepsInductive == Inductive /\ [Next]_vars => Inductive'
<1> SUFFICES ASSUME Inductive, [Next]_vars PROVE Inductive'
  OBVIOUS
<1>1. CASE UserCall
  BY <1>1, BindKeeps, ConnectKeeps, SendKeeps, ResumeKeeps, CloseKeeps,
     OtherCallsKeep, IpcAcceptKeeps DEF UserCall, InUserCode
<1>2. CASE flushNext \/ flushError \/ flushDone
  BY <1>2, FlushNextKeeps, FlushErrorKeeps, FlushDoneKeeps
<1>3. CASE Return \/ Throw \/ userTurn \/ \E err \in BOOLEAN : onmessage(err)
  BY <1>3, ReturnsKeep
<1>4. CASE runMicrotask \/ runBindError
  BY <1>4, MicrotasksKeep
<1>5. CASE \/ \E ok \in BOOLEAN : lookupBind(ok) \/ lookupConnect(ok)
           \/ \E r \in Req, ok \in BOOLEAN : lookupSend(r, ok)
  BY <1>5, LookupsKeep
<1>6. CASE (\E err \in BOOLEAN : onsend(err)) \/ onclose \/ onteardown
  BY <1>6, HandleCallbacksKeep
<1>7. CASE UNCHANGED vars
  <2>1. Inductive' = Inductive
    BY <1>7 DEF vars, Inductive, TypeOK, StateBits, Lifecycle, ConnectBound, BindingHasOwner,
       PendingHasFlusher, NoRevival, Revived
  <2> QED BY <2>1
<1> QED BY <1>1, <1>2, <1>3, <1>4, <1>5, <1>6, <1>7 DEF Next

\* The bits, the flags and the queues stay consistent in every reachable state.
THEOREM InductiveInvariant == Spec => []Inductive
BY InitInductive, StepKeepsInductive, PTL DEF Spec

\* The bits of _state (constants.js) never contradict each other: no callback that
\* index.js runs late brings back what close() has cleared.  Only a pipe that accepts
\* onto a closed socket does, which binds it again and connects nothing.
THEOREM StateBitsHold == Spec => []StateBits
<1>1. Inductive => StateBits
  BY DEF Inductive
<1> QED BY <1>1, InductiveInvariant, PTL

\* A bind in progress always has a lookup in flight or a failure to report, so the
\* BINDING bit is cleared by one of lookup, onbind and onbinderror, provided that
\* the lookup itself does not throw.
THEOREM BindingEnds ==
    ASSUME LookupThrows = FALSE
    PROVE  Spec => []BindingHasOwner
<1>1. Inductive => BindingHasOwner
  BY DEF Inductive
<1> QED BY <1>1, InductiveInvariant, PTL

\* Nothing is left in _pending without a flush to come, provided that the system
\* calls at the end of a bind do not fail.
THEOREM PendingFlushed ==
    ASSUME OsFaults = FALSE
    PROVE  Spec => []PendingHasFlusher
<1>1. Inductive => PendingHasFlusher
  BY DEF Inductive
<1> QED BY <1>1, InductiveInvariant, PTL

\* A program that does not call resume() never gets a descriptor opened on a handle
\* that is closing, and libuv never aborts, provided that no pipe accepts onto a
\* socket that was closed: every other call is guarded.
THEOREM NoAbort ==
    ASSUME "resume" \notin Calls, LateAccept = FALSE
    PROVE  Spec => []NoRevival
<1>1. Inductive => NoRevival
  BY DEF Inductive
<1> QED BY <1>1, InductiveInvariant, PTL

-----------------------------------------------------------------------------
(* What a closing socket calls *)

\* A frame that was pushed is the top of a stack that is not empty.
LEMMA PushTop ==
    ASSUME NEW kind, NEW fns, NEW rest \in Seq(Frame)
    PROVE  /\ Push(kind, fns, rest) # <<>>
           /\ Head(Push(kind, fns, rest)).kind = kind
<1>1. PICK frame : frame = [kind |-> kind, fns |-> fns]
  OBVIOUS
<1>2. Len(<<frame>>) = 1 /\ <<frame>>[1] = frame /\ Len(rest) \in Nat
  BY LenProperties
<1>3. <<frame>> \o rest # <<>> /\ (<<frame>> \o rest)[1] = frame
  BY <1>2
<1>4. Head(<<frame>> \o rest) = frame
  BY <1>3
<1> QED BY <1>1, <1>3, <1>4 DEF Push

\* An exception leaves a stack alone or makes it shorter.
LEMMA UnwoundShorter ==
    ASSUME NEW s \in Seq(Frame), NEW t \in Unwound(s)
    PROVE  t = s \/ Len(t) < Len(s)
<1>1. PICK i \in 1..(Len(s) + 1) : t = SubSeq(s, i, Len(s))
  BY DEF Unwound
<1>2. Len(s) \in Nat
  BY LenProperties
<1>3. CASE i = 1
  BY <1>1, <1>2, <1>3
<1>4. CASE i # 1
  BY <1>1, <1>2, <1>4
<1> QED BY <1>3, <1>4

Quiet == {"bound", "failed", "closed", "callback", "error", "onclose", "turn"}

\* A closing socket calls none of the listeners that it silences, and emits 'close'
\* only when the flush of _onclose is done.
LEMMA ClosingCalls ==
    ASSUME Inductive, Closing(state), Next
    PROVE  \/ stack' = stack
           \/ Len(stack') < Len(stack)
           \/ stack' # <<>> /\ Head(stack').kind \in Quiet
           \/ InFlush("closed") /\ stack' # <<>> /\ Head(stack').kind = "close"
<1>1. /\ TypeOK /\ stack \in Seq(Frame) /\ micro \in Seq(Micro) /\ <<>> \in Seq(Frame)
      /\ state \ {"CONNECTING"} = state
      /\ stack # <<>> => Tail(stack) \in Seq(Frame) /\ Len(Tail(stack)) < Len(stack)
  BY EmptySeq, HeadTailProperties DEF Inductive, TypeOK, StateBits
<1>2. h.loop # "active" /\ (h.closing \/ h.loop = "closed")
  BY DEF Inductive, Lifecycle, Closing
<1>3. ASSUME NEW kind \in Quiet, NEW fns, NEW rest \in Seq(Frame), stack' = Push(kind, fns, rest)
      PROVE  stack' # <<>> /\ Head(stack').kind \in Quiet
  BY <1>3, PushTop
<1>4. CASE UserCall
  <2>1. CASE ipcAccept
    <3>1. stack' \in Unwound(stack) \/ stack' = Push("bound", pending, stack)
      BY <2>1 DEF ipcAccept, onbind
    <3> QED BY <1>1, <1>3, <3>1, UnwoundShorter DEF Quiet
  <2>2. CASE ~ipcAccept
    <3>1. stack' = stack
      BY <1>2, <1>4, <2>2 DEF UserCall, bind, connect, disconnect, send, pause, resume, close,
         setOption, ref, unref
    <3> QED BY <3>1
  <2> QED BY <2>1, <2>2
<1>5. CASE flushNext
  <2> DEFINE fn == Head(Head(stack).fns)
             rest == Push("bound", Tail(Head(stack).fns), Tail(stack))
  <2>1. rest \in Seq(Frame) /\ Tail(stack) \in Seq(Frame)
    BY <1>1, <1>5, TopFrame DEF flushNext, InFlush
  <2>2. \/ stack' = rest \/ stack' \in Unwound(rest)
        \/ \E kind \in {"callback", "error"} : stack' = Call(kind, rest)
    BY <1>1, <1>5 DEF flushNext, resolveSend, sendResolved, callback, onsenderror,
       resolveConnect, connectResolved
  <2>3. Len(rest) = Len(stack)
    BY <1>1, <1>5, <2>1 DEF flushNext, InFlush, Push
  <2>4. CASE \E kind \in {"callback", "error"} : stack' = Call(kind, rest)
    BY <1>3, <2>1, <2>4 DEF Call, Quiet
  <2>5. CASE stack' = rest
    BY <1>3, <2>1, <2>5 DEF Quiet
  <2>6. CASE stack' \in Unwound(rest)
    BY <2>1, <2>3, <2>5, <2>6, UnwoundShorter
  <2> QED BY <2>2, <2>4, <2>5, <2>6
<1>6. CASE flushError
  <2> DEFINE fn == Head(Head(stack).fns)
             rest == Push(Head(stack).kind, Tail(Head(stack).fns), Tail(stack))
  <2>1. /\ rest \in Seq(Frame) /\ Tail(stack) \in Seq(Frame)
        /\ Head(stack).kind \in {"failed", "closed"}
    BY <1>1, <1>6, TopFrame DEF flushError, InFlush
  <2>2. stack' = rest \/ stack' = Call("callback", rest)
    BY <1>6 DEF flushError, callback
  <2> QED BY <1>3, <2>1, <2>2 DEF Call, Quiet
<1>7. CASE flushDone
  <2>1. \/ stack' = Tail(stack)
        \/ stack' = Call("error", Tail(stack))
        \/ InFlush("closed") /\ stack' = Call("close", Tail(stack))
    BY <1>7 DEF flushDone
  <2>2. stack # <<>>
    BY <1>7 DEF flushDone
  <2>3. CASE stack' = Call("error", Tail(stack))
    BY <1>1, <1>3, <2>2, <2>3 DEF Call, Quiet
  <2>4. CASE stack' = Call("close", Tail(stack)) /\ InFlush("closed")
    <3>1. stack' = Push("close", <<>>, Tail(stack))
      BY <2>4 DEF Call
    <3> QED BY <1>1, <2>2, <2>4, <3>1, PushTop
  <2> QED BY <1>1, <2>1, <2>2, <2>3, <2>4
<1>8. CASE Return \/ Throw
  <2>1. stack # <<>> /\ (stack' = Tail(stack) \/ stack' \in Unwound(Tail(stack)))
    BY <1>8 DEF Return, Throw, InUserCode
  <2>2. Len(stack) \in Nat /\ Len(Tail(stack)) \in Nat
    BY <1>1, <2>1, LenProperties
  <2>3. stack' \in Unwound(Tail(stack)) => stack' = Tail(stack) \/ Len(stack') < Len(Tail(stack))
    BY <1>1, <2>1, UnwoundShorter
  <2>4. stack' \in Seq(Frame)
    BY <1>1, <2>1, UnwoundType
  <2> QED BY <1>1, <2>1, <2>2, <2>3, <2>4, LenProperties
<1>9. CASE runMicrotask
  <2>1. Head(micro) \in Micro \ {"binderror"} /\ stack = <<>>
    BY <1>1, <1>9, HeadTailProperties DEF runMicrotask
  <2>2. \/ stack' = <<>>
        \/ Head(micro) \in Quiet /\ stack' = Call(Head(micro), <<>>)
    BY <1>9, <2>1 DEF runMicrotask, Micro, Quiet
  <2> QED BY <1>1, <1>3, <2>1, <2>2 DEF Call
<1>10. CASE runBindError \/ userTurn \/ onclose
  <2>1. \/ stack' = stack
        \/ stack' = Push("failed", pending, <<>>)
        \/ stack' = Push("turn", <<>>, <<>>)
        \/ stack' = Push("closed", pending, <<>>)
    BY <1>10 DEF runBindError, userTurn, onclose, Call
  <2> QED BY <1>1, <1>3, <2>1 DEF Quiet
<1>11. CASE \/ \E ok \in BOOLEAN : lookupBind(ok) \/ lookupConnect(ok)
            \/ \E r \in Req, ok \in BOOLEAN : lookupSend(r, ok)
            \/ \E err \in BOOLEAN : onsend(err)
            \/ onteardown
  <2>1. \/ stack' = stack
        \/ \E kind \in {"callback", "error"} : stack' = Push(kind, <<>>, <<>>)
    BY <1>1, <1>11 DEF lookupBind, lookupConnect, lookupSend, onsend, onteardown, Idle, Call,
       connectResolved, sendResolved, callback, onsenderror
  <2> QED BY <1>1, <1>3, <2>1 DEF Quiet
<1>12. CASE \E err \in BOOLEAN : onmessage(err)
  BY <1>2, <1>12 DEF onmessage, CanReceive
<1> QED BY <1>4, <1>5, <1>6, <1>7, <1>8, <1>9, <1>10, <1>11, <1>12 DEF Next

\* After close() no event of the bind, the connect or the datagrams under way is
\* emitted, from whatever queue or lookup it comes, and 'close' is emitted once.
THEOREM ClosedIsSilent == Spec => CloseSilences
<1>1. Inductive /\ [Next]_vars =>
         [/\ Closing(state) => ~ListenerCalled({"listening", "connect", "message"})
          /\ HasClosed => ~ListenerCalled({"close"})]_vars
  <2> SUFFICES ASSUME Inductive, Next, Closing(state)
               PROVE  /\ ~ListenerCalled({"listening", "connect", "message"})
                      /\ HasClosed => ~ListenerCalled({"close"})
    BY DEF HasClosed, Closing
  <2>1. \/ stack' = stack
        \/ Len(stack') < Len(stack)
        \/ stack' # <<>> /\ Head(stack').kind \in Quiet
        \/ InFlush("closed") /\ stack' # <<>> /\ Head(stack').kind = "close"
    BY ClosingCalls
  <2>2. stack \in Seq(Frame) /\ stack' \in Seq(Frame)
    BY StepKeepsInductive DEF Inductive, TypeOK
  <2>3. Len(stack) \in Nat /\ Len(stack') \in Nat
    BY <2>2, LenProperties
  <2>4. HasClosed => ~InFlush("closed")
    <3>1. stack # <<>> => 1 \in DOMAIN stack /\ Head(stack) = stack[1]
      BY <2>2
    <3> QED BY <3>1 DEF HasClosed, InFlush
  <2> QED BY <2>1, <2>3, <2>4 DEF ListenerCalled, Quiet
<1> QED BY <1>1, InductiveInvariant, PTL DEF Spec, CloseSilences

-----------------------------------------------------------------------------
(* What the socket believes of its handle is so: whether it has a descriptor, *)
(* a peer, and reads.  Relative to Inductive, Synced is inductive.            *)

-----------------------------------------------------------------------------
(* What the native calls do to these three *)

\* A bind gives the descriptor and leaves the rest.
LEMMA BindFields ==
    ASSUME NEW x \in Handle, NEW res \in bare_dgram_bind(x)
    PROVE  /\ res.h.conn = x.conn /\ res.h.reading = x.reading
           /\ x.sock = "bound" \/ ~res.err => res.h.sock = "bound"
BY DEF bare_dgram_bind, Ok, Failed, Handle

\* Only a handle without a descriptor adopts one, with a peer if it may have one.
LEMMA OpenFields ==
    ASSUME NEW x \in Handle, NEW res \in bare_dgram_open(x)
    PROVE  /\ res.h.reading = x.reading
           /\ res.err => res.h = x
           /\ ~res.err => x.sock = "none" /\ res.h.sock = "bound"
           /\ ~res.err /\ ~PeerFd => ~res.h.conn
<1>1. CASE res = Failed(x)
  BY <1>1 DEF Failed
<1>2. CASE x.sock = "none" /\ \E c \in {FALSE, PeerFd} :
             res = Ok([x EXCEPT !.sock = "bound", !.conn = c])
  <2>1. PICK c \in {FALSE, PeerFd} : res = Ok([x EXCEPT !.sock = "bound", !.conn = c])
    BY <1>2
  <2>2. ~PeerFd => ~c
    BY <2>1
  <2>3. /\ res.err = FALSE
        /\ res.h.reading = x.reading /\ res.h.sock = "bound" /\ res.h.conn = c
    BY <2>1 DEF Ok, Handle
  <2> QED BY <1>2, <2>2, <2>3
<1> QED BY <1>1, <1>2 DEF bare_dgram_open

\* A connect or a disconnect that succeeds sets the peer, and nothing else does.
LEMMA ConnectFields ==
    ASSUME NEW x \in Handle
    PROVE  /\ \A res \in bare_dgram_connect(x) \cup bare_dgram_disconnect(x) :
                 /\ res.h.sock = x.sock /\ res.h.reading = x.reading
                 /\ res.err => res.h.conn = x.conn
           /\ \A res \in bare_dgram_connect(x) : ~res.err => res.h.conn
           /\ \A res \in bare_dgram_disconnect(x) : ~res.err => ~res.h.conn
BY DEF bare_dgram_connect, bare_dgram_disconnect, Ok, Failed, Handle

\* A send does not touch them.
LEMMA SendFields ==
    ASSUME NEW x \in Handle, NEW r \in Req, NEW addressed \in BOOLEAN,
           NEW res \in bare_dgram_send(x, r, addressed)
    PROVE  res.h.sock = x.sock /\ res.h.reading = x.reading /\ res.h.conn = x.conn
BY DEF bare_dgram_send, Ok, Failed, Handle

\* Starting to read only fails by the operating system.
LEMMA ResumeFields ==
    ASSUME NEW x \in Handle, NEW res \in bare_dgram_resume(x)
    PROVE  /\ res.h.conn = x.conn
           /\ x.sock = "bound" => res.h.sock = "bound"
           /\ ~OsFaults => res.h.reading
<1>1. CASE x.reading /\ res = Ok(x)
  BY <1>1 DEF Ok
<1>2. CASE res = Ok([x EXCEPT !.reading = TRUE, !.sock = IF @ = "none" THEN "bound" ELSE @])
  BY <1>2 DEF Ok, Handle
<1>3. CASE OsFaults /\ res = Failed(x)
  BY <1>3 DEF Failed
<1> QED BY <1>1, <1>2, <1>3 DEF bare_dgram_resume

\* An option keeps a descriptor that is there.
LEMMA OptionFields ==
    ASSUME NEW x \in Handle, NEW res \in bare_dgram_set_option(x)
    PROVE  /\ res.h.conn = x.conn /\ res.h.reading = x.reading
           /\ x.sock = "bound" => res.h.sock = "bound"
BY DEF bare_dgram_set_option, Ok, Failed, Handle

-----------------------------------------------------------------------------
(* Steps that keep in step *)

SyncBits == {"BOUND", "CONNECTED", "READING", "CLOSING", "CLOSED"}

\* A step that touches neither the bits nor the handle; before the bind, the
\* program may pause and resume.
LEMMA UntouchedKeeps ==
    ASSUME Synced,
           \A bit \in SyncBits : bit \in state' <=> bit \in state,
           paused' = paused \/ ("BOUND" \notin state /\ ~paused'),
           h'.conn = h.conn, h'.reading = h.reading, h'.exiting = h.exiting,
           h.sock = "bound" => h'.sock = "bound"
    PROVE  Synced'
<1>1. Closing(state') <=> Closing(state)
  BY DEF Closing, SyncBits
<1>2. Attached'
  BY DEF Synced, Attached, SyncBits
<1>3. ConnectedSync => ConnectedSync'
  BY <1>1 DEF ConnectedSync, SyncBits
<1>4. NotReading => NotReading'
  BY <1>1 DEF NotReading, SyncBits
<1>5. ReadingSync => ReadingSync'
  BY <1>1 DEF ReadingSync, SyncBits
<1>6. PauseHeeded'
  BY <1>1 DEF Synced, PauseHeeded, SyncBits
<1> QED BY <1>2, <1>3, <1>4, <1>5, <1>6 DEF Synced

\* A step of a socket that was closed, of which only Attached says anything.
LEMMA ClosedKeeps ==
    ASSUME Closing(state'), Attached'
    PROVE  Synced'
BY DEF Synced, PauseHeeded, ConnectedSync, NotReading, ReadingSync

\* The environment exits.
LEMMA ExitedKeeps ==
    ASSUME Synced, state' = state, h'.exiting, h'.conn = h.conn
    PROVE  Synced'
BY DEF Synced, Attached, PauseHeeded, ConnectedSync, NotReading, ReadingSync

\* The end of a bind: what it sets the bits to is what the handle does.
LEMMA OnBindSyncs ==
    ASSUME TypeOK, Synced, ~Closing(state), ~h.exiting,
           NEW hh \in Handle, hh.sock = "bound", hh.reading = h.reading,
           ~PeerFd => ("CONNECTED" \in state <=> hh.conn),
           NEW st \in SUBSET Bits,
           state \subseteq st, st \subseteq state \cup {"BINDING", "CONNECTING"},
           NEW pz \in BOOLEAN, pz = paused \/ ("BOUND" \notin state /\ ~pz), paused' = pz,
           NEW pend, NEW rest, onbind(hh, st, pz, pend, rest)
    PROVE  Synced'
<1> DEFINE st1 == (st \cup {"BOUND"}) \ {"BINDING"}
<1>1. /\ \A bit \in SyncBits \ {"BOUND"} : bit \in st1 <=> bit \in state
      /\ "BOUND" \in st1
  BY DEF SyncBits
<1>2. ~OsFaults =>
         \/ /\ "READING" \in state <=> ~paused
            /\ h.reading <=> ~paused
            /\ pz = paused
         \/ "READING" \notin state /\ ~h.reading
  BY DEF Synced, NotReading, ReadingSync
<1>3. CASE OsFaults /\ state' = st1 /\ h' = hh
  <2>0. PauseHeeded'
    BY <1>1, <1>3 DEF Synced, PauseHeeded, SyncBits
  <2>1. Attached'
    BY <1>3 DEF Attached
  <2>2. ~PeerFd => ConnectedSync'
    BY <1>1, <1>3 DEF ConnectedSync, SyncBits
  <2> QED BY <1>3, <2>0, <2>1, <2>2 DEF Synced
<1>4. ASSUME NEW res \in resumed(hh, st1, pz), state' = res.state, h' = res.h
      PROVE  Synced'
  <2>1. CASE pz \/ "READING" \in st1
    <3>1. state' = st1 /\ h' = hh
      BY <1>4, <2>1 DEF resumed
    <3>2. Attached'
      BY <3>1 DEF Attached
    <3>3. ~PeerFd => ConnectedSync'
      BY <1>1, <3>1 DEF ConnectedSync, SyncBits
    <3>4. NotReading'
      BY <1>1, <3>1 DEF NotReading
    <3>5. ~OsFaults => ReadingSync'
      <4>1. ~OsFaults => ("READING" \in state' <=> ~paused') /\ (h'.reading <=> ~paused')
        BY <1>1, <1>2, <2>1, <3>1 DEF SyncBits
      <4> QED BY <4>1 DEF ReadingSync
    <3>6. PauseHeeded'
      BY <1>1, <3>1 DEF Synced, PauseHeeded, SyncBits
    <3> QED BY <3>2, <3>3, <3>4, <3>5, <3>6 DEF Synced
  <2>2. CASE ~pz /\ "READING" \notin st1
    <3>1. PICK call \in bare_dgram_resume(hh) : state' = st1 \cup {"READING"} /\ h' = call.h
      BY <1>4, <2>2 DEF resumed
    <3>2. /\ h'.conn = hh.conn /\ h'.sock = "bound"
          /\ ~OsFaults => h'.reading
      BY <3>1, ResumeFields
    <3>3. Attached'
      BY <3>2 DEF Attached
    <3>4. ~PeerFd => ConnectedSync'
      BY <1>1, <3>1, <3>2 DEF ConnectedSync, SyncBits
    <3>5. NotReading'
      BY <1>1, <3>1 DEF NotReading
    <3>6. ~OsFaults => ReadingSync'
      BY <2>2, <3>1, <3>2 DEF ReadingSync
    <3>7. PauseHeeded'
      BY <2>2, <3>1 DEF PauseHeeded
    <3> QED BY <3>3, <3>4, <3>5, <3>6, <3>7 DEF Synced
  <2> QED BY <2>1, <2>2
<1>5. ~Closing(st)
  BY DEF Closing
<1> QED BY <1>3, <1>4, <1>5 DEF onbind

\* A native bind, or the adoption of a descriptor, and what follows.
LEMMA BindWithSyncs ==
    ASSUME TypeOK, Inductive, Synced, ~Closing(state), stack # <<>> \/ (Idle /\ ~h.exiting),
           NEW results \in {bare_dgram_bind(h), bare_dgram_open(h)},
           NEW st \in SUBSET Bits,
           state \subseteq st, st \subseteq state \cup {"BINDING", "CONNECTING"},
           NEW pz \in BOOLEAN, pz = paused \/ ("BOUND" \notin state /\ ~pz), paused' = pz,
           NEW pend, NEW rest, bindWith(results, st, pz, pend, rest)
    PROVE  Synced'
<1>1. ~h.exiting /\ h \in Handle
  BY OpenIsActive DEF Inductive, TypeOK
<1>2. PICK res \in results :
        IF res.err THEN onbinderror(res.h, st, pend, rest)
                   ELSE onbind(res.h, st, pz, pend, rest)
  BY DEF bindWith
<1>3. res.h \in Handle /\ LifeOf(res.h) = LifeOf(h)
  BY <1>1, BindResult, OpenResult, CallsKeepLife DEF Result
<1>4. res.h.reading = h.reading
  BY <1>1, BindFields, OpenFields
<1>5. CASE res.err
  <2>1. state' = st /\ h' = res.h
    BY <1>2, <1>5 DEF onbinderror
  <2>2. /\ \A bit \in SyncBits : bit \in state' <=> bit \in state
        /\ h'.conn = h.conn
        /\ h.sock = "bound" => h'.sock = "bound"
        /\ h'.exiting = h.exiting
    BY <1>1, <1>3, <1>5, <2>1, BindFields, OpenFields DEF SyncBits, LifeOf
  <2> QED BY <1>4, <2>1, <2>2, UntouchedKeeps
<1>6. CASE ~res.err
  <2>1. res.h.sock = "bound"
    BY <1>1, <1>6, BindFields, OpenFields
  <2>2. ~PeerFd => ("CONNECTED" \in state <=> res.h.conn)
    <3>1. ~PeerFd => ("CONNECTED" \in state <=> h.conn)
      BY DEF Synced, ConnectedSync
    <3>2. CASE results = bare_dgram_bind(h)
      BY <1>1, <3>1, <3>2, BindFields
    <3>3. CASE results = bare_dgram_open(h)
      <4>1. h.sock = "none" /\ (~PeerFd => ~res.h.conn)
        BY <1>1, <1>6, <3>3, OpenFields
      <4>2. "CONNECTED" \notin state
        BY <1>1, <4>1 DEF Synced, Attached, Inductive, StateBits
      <4> QED BY <4>1, <4>2
    <3> QED BY <3>2, <3>3
  <2> QED BY <1>1, <1>2, <1>3, <1>4, <1>6, <2>1, <2>2, OnBindSyncs
<1> QED BY <1>5, <1>6

\* _bindMaybe on a socket that is not bound.
LEMMA BindMaybeSyncs ==
    ASSUME Inductive, Synced, stack # <<>>, ~Closing(state), NEW fn,
           NEW st \in SUBSET Bits, state \subseteq st, st \subseteq state \cup {"CONNECTING"},
           NEW pz \in BOOLEAN, pz = paused \/ ("BOUND" \notin state /\ ~pz), paused' = pz,
           bindMaybe(fn, st, pz)
    PROVE  Synced'
<1>1. CASE state' = st /\ h' = h
  <2>1. \A bit \in SyncBits : bit \in state' <=> bit \in state
    BY <1>1 DEF SyncBits
  <2> QED BY <1>1, <2>1, UntouchedKeeps
<1>2. CASE bindWith(bare_dgram_bind(h), st \cup {"BINDING"}, pz, Append(pending, fn), stack)
  <2>1. st \cup {"BINDING"} \in SUBSET Bits /\ TypeOK
    BY DEF Bits, Inductive
  <2> QED BY <1>2, <2>1, BindWithSyncs
<1> QED BY <1>1, <1>2 DEF bindMaybe

\* The answer of the lookup of connect, or none: CONNECTED and the peer are set together.
LEMMA ConnectSyncs ==
    ASSUME Inductive, Synced, "BOUND" \in state \/ Closing(state), paused' = paused,
           NEW st \in SUBSET Bits, state \subseteq st, st \subseteq state \cup {"CONNECTING"},
           NEW rest,
           resolveConnect(st, rest) \/ \E ok \in BOOLEAN : connectResolved(st, ok, rest)
    PROVE  Synced'
<1> DEFINE st1 == st \ {"CONNECTING"}
<1>1. CASE state' \in {st, st1} /\ h' = h
  <2>1. \A bit \in SyncBits : bit \in state' <=> bit \in state
    BY <1>1 DEF SyncBits
  <2> QED BY <1>1, <2>1, UntouchedKeeps
<1>2. ASSUME ~Closing(st1), NEW res \in bare_dgram_connect(h), h' = res.h,
             state' = IF res.err THEN st1 ELSE st1 \cup {"CONNECTED"}
      PROVE  Synced'
  <2>1. h \in Handle /\ "BOUND" \in state /\ ~Closing(state)
    BY <1>2 DEF Inductive, TypeOK, Closing
  <2>2. h'.sock = h.sock /\ h'.reading = h.reading /\ h'.exiting = h.exiting
    BY <1>2, <2>1, ConnectFields, ConnectKeepsSocket DEF LifeOf
  <2>3. CASE res.err
    <3>1. /\ h'.conn = h.conn
          /\ \A bit \in SyncBits : bit \in state' <=> bit \in state
      BY <1>2, <2>1, <2>3, ConnectFields DEF SyncBits
    <3> QED BY <2>2, <3>1, UntouchedKeeps
  <2>4. CASE ~res.err
    <3>1. h'.conn /\ "CONNECTED" \in state' /\ "BOUND" \in state'
          /\ ("READING" \in state' <=> "READING" \in state)
      BY <1>2, <2>1, <2>4, ConnectFields
    <3> QED BY <2>1, <2>2, <3>1
            DEF Synced, Attached, PauseHeeded, ConnectedSync, NotReading, ReadingSync
  <2> QED BY <2>3, <2>4
<1> QED BY <1>1, <1>2 DEF resolveConnect, connectResolved

\* _resume on a bound socket: READING and the handle follow what is asked for.
LEMMA ResumedSyncs ==
    ASSUME Inductive, Synced, "BOUND" \in state \/ Closing(state),
           NEW pz \in {FALSE, paused}, paused' = pz,
           NEW res \in resumed(h, state, pz), state' = res.state, h' = res.h
    PROVE  Synced'
<1>1. h \in Handle /\ paused \in BOOLEAN
  BY DEF Inductive, TypeOK
<1>2. CASE Closing(state)
  <2>1. Closing(state') /\ ("BOUND" \in state' => "BOUND" \in state)
    BY <1>2 DEF resumed, Closing
  <2>2. h'.exiting = h.exiting /\ (h.sock = "bound" => h'.sock = "bound")
    BY <1>1, ResumeFields, CallsKeepLife DEF resumed, LifeOf
  <2> QED BY <2>1, <2>2, ClosedKeeps DEF Synced, Attached
<1>3. CASE ~Closing(state) /\ (pz \/ "READING" \in state)
  <2>1. state' = state /\ h' = h /\ "BOUND" \in state
    BY <1>3 DEF resumed
  <2>2. ~OsFaults /\ ~h.exiting => paused' = paused
    BY <1>1, <1>3, <2>1 DEF Synced, ReadingSync
  <2>3. PauseHeeded'
    BY <1>3, <2>1 DEF Synced, PauseHeeded
  <2> QED BY <2>1, <2>2, <2>3 DEF Synced, Attached, ConnectedSync, NotReading, ReadingSync, Closing
<1>4. CASE ~Closing(state) /\ ~pz /\ "READING" \notin state
  <2>1. PICK call \in bare_dgram_resume(h) : state' = state \cup {"READING"} /\ h' = call.h
    BY <1>4 DEF resumed
  <2>2. /\ h'.conn = h.conn /\ h'.exiting = h.exiting
        /\ h.sock = "bound" => h'.sock = "bound"
        /\ ~OsFaults => h'.reading
    BY <1>1, <2>1, ResumeFields, CallsKeepLife DEF LifeOf
  <2>3. "BOUND" \in state' /\ ("CONNECTED" \in state' <=> "CONNECTED" \in state)
        /\ "READING" \in state' /\ ~paused'
    BY <1>4, <2>1
  <2>4. Closing(state') <=> Closing(state)
    BY <2>1 DEF Closing
  <2> QED BY <1>4, <2>2, <2>3, <2>4
          DEF Synced, Attached, PauseHeeded, ConnectedSync, NotReading, ReadingSync
<1> QED BY <1>2, <1>3, <1>4

\* Handing over and resolving a request touch no field of the three.
LEMMA ResolveSendSyncs ==
    ASSUME TypeOK, Synced, UNCHANGED <<state, paused>>, NEW r \in Req, NEW rest,
           \/ \E addressed \in BOOLEAN : handOver(r, addressed, rest)
           \/ resolveSend(r, rest)
           \/ \E ok \in BOOLEAN : sendResolved(r, ok, rest)
    PROVE  Synced'
<1>1. h \in Handle
  BY DEF TypeOK
<1>2. \/ h' = h
      \/ \E addressed \in BOOLEAN : \E res \in bare_dgram_send(h, r, addressed) : h' = res.h
  BY DEF resolveSend, sendResolved, handOver
<1>3. /\ h'.sock = h.sock /\ h'.reading = h.reading /\ h'.conn = h.conn
      /\ h'.exiting = h.exiting
  BY <1>1, <1>2, SendFields, SendKeepsSocket DEF LifeOf
<1> QED BY <1>3, UntouchedKeeps

-----------------------------------------------------------------------------
(* The calls of the program *)

\* bind(): whichever descriptor it takes, BOUND is set with it.
LEMMA BindSyncs ==
    ASSUME Inductive, Synced, stack # <<>>, bind
    PROVE  Synced'
<1> DEFINE st == state \cup {"BINDING"}
<1>1. TypeOK /\ ~Closing(state) /\ st \in SUBSET Bits /\ paused' = paused
  BY DEF Inductive, TypeOK, bind, Bits
<1>2. CASE \/ bindWith(bare_dgram_open(h), st, paused, pending, stack)
           \/ bindWith(bare_dgram_bind(h), st, paused, pending, stack)
  BY <1>1, <1>2, BindWithSyncs DEF TypeOK
<1>3. CASE state' = st /\ h' = h
  <2>1. \A bit \in SyncBits : bit \in state' <=> bit \in state
    BY <1>3 DEF SyncBits
  <2> QED BY <1>1, <1>3, <2>1, UntouchedKeeps
<1> QED BY <1>2, <1>3 DEF bind, onbinderror

\* connect(), send() and resume(), each of which may bind first.
LEMMA BindingCallsSync ==
    ASSUME Inductive, Synced, stack # <<>>,
           connect \/ (\E r \in Req : send(r)) \/ resume
    PROVE  Synced'
<1>1. TypeOK /\ state \in SUBSET Bits /\ paused \in BOOLEAN
  BY DEF Inductive, TypeOK
<1>2. CASE connect
  <2> DEFINE st == state \cup {"CONNECTING"}
  <2>1. st \in SUBSET Bits /\ ~Closing(state) /\ paused' = paused
    BY <1>1, <1>2 DEF connect, Bits
  <2>2. CASE "BOUND" \in st /\ resolveConnect(st, stack)
    <3>1. "BOUND" \in state
      BY <2>2
    <3> QED BY <2>1, <2>2, <3>1, ConnectSyncs
  <2>3. CASE bindMaybe("connect", st, paused)
    BY <1>1, <2>1, <2>3, BindMaybeSyncs
  <2> QED BY <1>2, <2>2, <2>3 DEF connect
<1>3. ASSUME NEW r \in Req, send(r)
      PROVE  Synced'
  <2>1. ~Closing(state) /\ paused' = paused
    BY <1>3 DEF send
  <2>2. CASE (handOver(r, FALSE, stack) \/ resolveSend(r, stack)) /\ state' = state
    BY <1>1, <2>1, <2>2, ResolveSendSyncs
  <2>3. CASE bindMaybe(r, state, paused)
    BY <1>1, <2>1, <2>3, BindMaybeSyncs
  <2> QED BY <1>3, <2>2, <2>3 DEF send
<1>4. CASE resume
  <2>1. paused' = FALSE
    BY <1>4 DEF resume
  <2>2. CASE Closing(state) /\ state' = state /\ h' = h
    BY <2>2, ClosedKeeps DEF Synced, Attached
  <2>3. CASE /\ "BOUND" \in state
             /\ \E res \in resumed(h, state, FALSE) : state' = res.state /\ h' = res.h
    BY <2>1, <2>3, ResumedSyncs
  <2>4. CASE ~Closing(state) /\ bindMaybe("resume", state, FALSE)
    <3>1. "BOUND" \notin state
      BY <2>4 DEF bindMaybe
    <3> QED BY <1>1, <2>1, <2>4, <3>1, BindMaybeSyncs
  <2> QED BY <1>4, <2>2, <2>3, <2>4 DEF resume
<1> QED BY <1>2, <1>3, <1>4

\* pause(): READING is cleared with the flag of the handle.
LEMMA PauseSyncs ==
    ASSUME Inductive, Synced, pause
    PROVE  Synced'
<1>1. h \in Handle /\ paused' = TRUE
  BY DEF Inductive, TypeOK, pause
<1>2. CASE Closing(state)
  <2>1. state' = state /\ h' = h
    BY <1>2 DEF pause
  <2> QED BY <1>2, <2>1, ClosedKeeps DEF Synced, Attached
<1>3. CASE "READING" \in state /\ ~Closing(state)
  <2>1. state' = state \ {"READING"} /\ h' = bare_dgram_pause(h)
    BY <1>3 DEF pause
  <2>2. /\ ~h'.reading /\ h'.conn = h.conn /\ h'.sock = h.sock
        /\ h'.exiting = h.exiting
    BY <1>1, <2>1 DEF bare_dgram_pause, Handle
  <2> QED BY <1>1, <1>3, <2>1, <2>2
          DEF Synced, Attached, PauseHeeded, ConnectedSync, NotReading, ReadingSync, Closing
<1>4. CASE "READING" \notin state /\ ~Closing(state)
  <2>1. UNCHANGED <<state, h>>
    BY <1>4 DEF pause
  <2> QED BY <1>1, <1>4, <2>1
          DEF Synced, Attached, PauseHeeded, ConnectedSync, NotReading, ReadingSync, Closing
<1> QED BY <1>2, <1>3, <1>4

\* disconnect(): CONNECTED is cleared with the peer of the handle.
LEMMA DisconnectSyncs ==
    ASSUME Inductive, Synced, disconnect
    PROVE  Synced'
<1>1. h \in Handle /\ paused' = paused
  BY DEF Inductive, TypeOK, disconnect
<1>2. PICK res \in bare_dgram_disconnect(h) :
         h' = res.h /\ state' = IF res.err THEN state ELSE state \ {"CONNECTED"}
  BY DEF disconnect
<1>3. /\ h'.sock = h.sock /\ h'.reading = h.reading /\ h'.exiting = h.exiting
      /\ res.err => h'.conn = h.conn
      /\ ~res.err => ~h'.conn
  BY <1>1, <1>2, ConnectFields, ConnectKeepsSocket DEF LifeOf
<1>4. CASE res.err
  BY <1>1, <1>2, <1>3, <1>4, UntouchedKeeps
<1>5. CASE ~res.err
  <2>1. state' = state \ {"CONNECTED"}
    BY <1>2, <1>5
  <2> QED BY <1>1, <1>3, <1>5, <2>1
          DEF Synced, Attached, PauseHeeded, ConnectedSync, NotReading, ReadingSync, Closing
<1> QED BY <1>4, <1>5

\* The other calls: close() leaves the handle for good, an adopted descriptor
\* binds the socket, and the rest touches nothing of it.
LEMMA OtherCallsSync ==
    ASSUME Inductive, Synced, stack # <<>>, close \/ setOption \/ ref \/ unref \/ ipcAccept
    PROVE  Synced'
<1>1. TypeOK /\ h \in Handle
  BY DEF Inductive, TypeOK
<1>2. CASE close
  <2>1. CASE UNCHANGED <<state, paused, h>>
    BY <2>1, UntouchedKeeps
  <2>2. CASE state' = (state \ {"BINDING", "BOUND", "CONNECTING", "CONNECTED", "READING"})
                         \cup {"CLOSING"}
    BY <2>2, ClosedKeeps DEF Closing, Attached
  <2> QED BY <1>2, <2>1, <2>2 DEF close
<1>3. CASE setOption
  <2>1. UNCHANGED <<state, paused>> /\ \E res \in bare_dgram_set_option(h) : h' = res.h
    BY <1>3 DEF setOption
  <2>2. /\ h'.conn = h.conn /\ h'.reading = h.reading /\ h'.exiting = h.exiting
        /\ h.sock = "bound" => h'.sock = "bound"
    BY <1>1, <2>1, OptionFields, CallsKeepLife DEF LifeOf
  <2> QED BY <2>1, <2>2, UntouchedKeeps
<1>4. CASE ref \/ unref
  <2>1. /\ \A bit \in SyncBits : bit \in state' <=> bit \in state
        /\ paused' = paused
    BY <1>4 DEF ref, unref, SyncBits
  <2>2. /\ h'.conn = h.conn /\ h'.reading = h.reading /\ h'.exiting = h.exiting
        /\ h'.sock = h.sock
    BY <1>1, <1>4 DEF ref, unref, bare_dgram_ref, bare_dgram_unref, Handle
  <2> QED BY <2>1, <2>2, UntouchedKeeps
<1>5. CASE ipcAccept
  <2>1. ~h.exiting /\ paused' = paused /\ state \in SUBSET Bits /\ paused \in BOOLEAN
    BY <1>1, <1>5 DEF ipcAccept, Inductive, Lifecycle, TypeOK
  <2>2. PICK res \in bare_dgram_open(h) :
           ~res.err /\ onbind(res.h, state, paused, pending, stack)
    BY <1>5 DEF ipcAccept
  <2>3. res.h \in Handle
    BY <1>1, <2>2, OpenResult DEF Result
  <2>4. /\ res.h.sock = "bound" /\ res.h.reading = h.reading
        /\ h.sock = "none"
        /\ ~PeerFd => ~res.h.conn
    BY <1>1, <2>2, OpenFields
  <2>5. "CONNECTED" \notin state
    BY <2>1, <2>4 DEF Synced, Attached, Inductive, StateBits
  <2>6. CASE ~Closing(state)
    BY <1>1, <2>1, <2>2, <2>3, <2>4, <2>5, <2>6, OnBindSyncs
  <2>7. CASE Closing(state)
    <3>1. Closing(state') /\ h'.sock = "bound"
      BY <2>2, <2>3, <2>4, <2>7, ResumeFields DEF onbind, resumed, Closing
    <3> QED BY <3>1, ClosedKeeps DEF Attached
  <2> QED BY <2>6, <2>7
<1> QED BY <1>2, <1>3, <1>4, <1>5

-----------------------------------------------------------------------------
(* flush, the microtasks and the event loop *)

\* A function of the flush of onbind finds a socket that was bound.
LEMMA FlushNextSyncs ==
    ASSUME Inductive, Synced, flushNext
    PROVE  Synced'
<1> DEFINE fn == Head(Head(stack).fns)
           rest == Push("bound", Tail(Head(stack).fns), Tail(stack))
<1>1. TypeOK /\ state \in SUBSET Bits /\ paused' = paused
  BY DEF Inductive, TypeOK, flushNext
<1>2. "BOUND" \in state \/ Closing(state)
  BY FlushOnBound
<1>3. CASE fn \in Req /\ resolveSend(fn, rest) /\ state' = state
  BY <1>1, <1>3, ResolveSendSyncs
<1>4. CASE resolveConnect(state, rest)
  BY <1>1, <1>2, <1>4, ConnectSyncs
<1>5. CASE \E res \in resumed(h, state, paused) : state' = res.state /\ h' = res.h
  BY <1>1, <1>2, <1>5, ResumedSyncs
<1> QED BY <1>3, <1>4, <1>5 DEF flushNext

\* Steps that set no bit but BINDING or CONNECTING and make no native call.
LEMMA QuietStepsSync ==
    ASSUME Synced,
           \/ flushError \/ flushDone \/ Return \/ Throw \/ userTurn
           \/ runMicrotask \/ runBindError
           \/ \E err \in BOOLEAN : onmessage(err)
    PROVE  Synced'
<1>1. UNCHANGED <<paused, h>>
  BY DEF flushError, flushDone, Return, Throw, userTurn, runMicrotask, runBindError, onmessage
<1>2. state' \in {state, state \ {"BINDING"}, state \ {"CONNECTING"}}
  BY DEF flushError, flushDone, Return, Throw, userTurn, runMicrotask, runBindError, onmessage
<1>3. \A bit \in SyncBits : bit \in state' <=> bit \in state
  BY <1>2 DEF SyncBits
<1> QED BY <1>1, <1>3, UntouchedKeeps

\* A lookup answers.
LEMMA LookupsSync ==
    ASSUME Inductive, Synced, NEW ok \in BOOLEAN,
           lookupBind(ok) \/ lookupConnect(ok) \/ \E r \in Req : lookupSend(r, ok)
    PROVE  Synced'
<1>1. TypeOK /\ state \in SUBSET Bits /\ paused \in BOOLEAN
  BY DEF Inductive, TypeOK
<1>2. paused' = paused
  BY DEF lookupBind, lookupConnect, lookupSend
<1>3. CASE lookupBind(ok)
  <2>1. CASE UNCHANGED <<state, h>>
    BY <1>2, <2>1, UntouchedKeeps
  <2>2. CASE ~Closing(state) /\ bindWith(bare_dgram_bind(h), state, paused, pending, <<>>)
    <3>1. Idle /\ ~h.exiting
      BY <1>3 DEF lookupBind
    <3> QED BY <1>1, <1>2, <2>2, <3>1, BindWithSyncs
  <2> QED BY <1>3, <2>1, <2>2 DEF lookupBind, onbinderror
<1>4. CASE lookupConnect(ok)
  <2>1. "BOUND" \in state \/ Closing(state)
    BY <1>4 DEF lookupConnect, Inductive, ConnectBound
  <2> QED BY <1>1, <1>2, <1>4, <2>1, ConnectSyncs DEF lookupConnect
<1>5. ASSUME NEW r \in Req, lookupSend(r, ok)
      PROVE  Synced'
  BY <1>1, <1>2, <1>5, ResolveSendSyncs DEF lookupSend
<1> QED BY <1>3, <1>4, <1>5

\* The handle completes a send, closes or is torn down.
LEMMA HandleCallbacksSync ==
    ASSUME Inductive, Synced, (\E err \in BOOLEAN : onsend(err)) \/ onclose \/ onteardown
    PROVE  Synced'
<1>1. h \in Handle
  BY DEF Inductive, TypeOK
<1>2. ASSUME NEW err \in BOOLEAN, onsend(err)
      PROVE  Synced'
  <2>1. UNCHANGED <<state, paused>> /\ h' = bare_dgram__on_send(h)
    BY <1>2 DEF onsend
  <2> QED BY <1>1, <2>1, UntouchedKeeps DEF bare_dgram__on_send, Handle
<1>3. CASE onclose
  <2>1. paused' = paused /\ h' = bare_dgram__on_close(h) /\ h.loop = "closing"
    BY <1>3 DEF onclose, CanClose
  <2>2. CASE state' = state
    BY <1>1, <2>1, <2>2, UntouchedKeeps DEF bare_dgram__on_close, Handle
  <2>3. CASE /\ ~h.exiting /\ h'.loop # "aborted"
             /\ state' = (state \cup {"CLOSED"}) \ {"CLOSING"}
    <3>1. h.sock = "none"
      BY <1>1, <2>1, <2>3 DEF bare_dgram__on_close, Revived, Handle
    <3>2. "BOUND" \notin state
      BY <2>3, <3>1 DEF Synced, Attached
    <3> QED BY <2>3, <3>2, ClosedKeeps DEF Closing, Attached
  <2> QED BY <1>3, <2>2, <2>3 DEF onclose
<1>4. CASE onteardown
  <2>1. state' = state /\ h' = bare_dgram__on_teardown(h)
    BY <1>4 DEF onteardown
  <2>2. h'.exiting /\ h'.conn = h.conn
    BY <1>1, <2>1 DEF bare_dgram__on_teardown, uv_close, Handle
  <2> QED BY <2>1, <2>2, ExitedKeeps
<1> QED BY <1>2, <1>3, <1>4

-----------------------------------------------------------------------------

\* A new socket has neither a peer nor reads.
LEMMA InitSynced == Init => Synced
BY DEF Init, bare_dgram_init, Synced, Attached, PauseHeeded, ConnectedSync, NotReading,
   ReadingSync

\* Every step keeps the socket and its handle in step.
LEMMA StepSyncs == Inductive /\ Synced /\ [Next]_vars => Synced'
<1> SUFFICES ASSUME Inductive, Synced, [Next]_vars PROVE Synced'
  OBVIOUS
<1>1. CASE UserCall
  BY <1>1, BindSyncs, BindingCallsSync, PauseSyncs, DisconnectSyncs, OtherCallsSync
     DEF UserCall, InUserCode
<1>2. CASE flushNext
  BY <1>2, FlushNextSyncs
<1>3. CASE \/ flushError \/ flushDone \/ Return \/ Throw \/ userTurn
           \/ runMicrotask \/ runBindError
           \/ \E err \in BOOLEAN : onmessage(err)
  BY <1>3, QuietStepsSync
<1>4. CASE \/ \E ok \in BOOLEAN : lookupBind(ok) \/ lookupConnect(ok)
           \/ \E r \in Req, ok \in BOOLEAN : lookupSend(r, ok)
  BY <1>4, LookupsSync
<1>5. CASE (\E err \in BOOLEAN : onsend(err)) \/ onclose \/ onteardown
  BY <1>5, HandleCallbacksSync
<1>6. CASE UNCHANGED vars
  BY <1>6, UntouchedKeeps DEF vars
<1> QED BY <1>1, <1>2, <1>3, <1>4, <1>5, <1>6 DEF Next

\* The socket and its handle stay in step in every reachable state.
LEMMA SyncedInvariant == Spec => []Synced
BY InitSynced, StepSyncs, InductiveInvariant, PTL DEF Spec

\* The `connected` getter of index.js tells what libuv knows of the handle, however
\* connect(), disconnect(), their lookups and the flush interleave, provided that no
\* descriptor that is adopted has a peer of its own.
THEOREM PeerKnown ==
    ASSUME PeerFd = FALSE
    PROVE  Spec => []ConnectedSync
<1>1. Synced => ConnectedSync
  BY DEF Synced
<1> QED BY <1>1, SyncedInvariant, PTL

\* A bound socket that is open reads unless it is paused, and its handle does, in
\* whatever order pause(), resume() and the end of the bind come, provided that libuv
\* does not refuse to start reading.
THEOREM ReadingKnown ==
    ASSUME OsFaults = FALSE
    PROVE  Spec => []ReadingSync
<1>1. Synced => ReadingSync
  BY DEF Synced
<1> QED BY <1>1, SyncedInvariant, PTL

\* Even if libuv refuses, a paused socket that is open does not read: index.js:460
\* never lets pause() return while the handle reads.
THEOREM PauseHolds == Spec => []PauseHeeded
<1>1. Synced => PauseHeeded
  BY DEF Synced
<1> QED BY <1>1, SyncedInvariant, PTL

=============================================================================
