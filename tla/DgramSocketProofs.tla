-------------------------- MODULE DgramSocketProofs --------------------------
(***************************************************************************)
(* Safety of DgramSocket for any set of requests and any program.          *)
(***************************************************************************)
EXTENDS DgramSocket, SequenceTheorems, TLAPS

-----------------------------------------------------------------------------
(* The native calls of Binding return handles, and leave the fields that they *)
(* do not own alone.                                                          *)

\* A new handle is a handle.
LEMMA InitHandle == bare_dgram_init \in Handle
BY BindingAssumption DEF bare_dgram_init, Handle

\* A flag and a handle make a result.
LEMMA ResultType ==
    ASSUME NEW x \in Handle
    PROVE  Ok(x) \in Result /\ Failed(x) \in Result
BY DEF Ok, Failed, Result

\* Binding returns a flag and a handle.
LEMMA BindResult ==
    ASSUME NEW x \in Handle
    PROVE  bare_dgram_bind(x) \subseteq Result
<1>1. /\ [x EXCEPT !.sock = IF @ = "none" THEN "open" ELSE @] \in Handle
      /\ [x EXCEPT !.sock = "bound"] \in Handle
  BY DEF Handle
<1> QED BY <1>1, ResultType DEF bare_dgram_bind

\* Adopting a descriptor returns a flag and a handle.
LEMMA OpenResult ==
    ASSUME NEW x \in Handle
    PROVE  bare_dgram_open(x) \subseteq Result
<1>1. ASSUME NEW c \in {FALSE, PeerFd}
      PROVE  [x EXCEPT !.sock = "bound", !.conn = c] \in Handle
  BY <1>1, BindingAssumption DEF Handle
<1> QED BY <1>1, ResultType DEF bare_dgram_open

\* Connecting and disconnecting return a flag and a handle.
LEMMA ConnectResult ==
    ASSUME NEW x \in Handle
    PROVE  bare_dgram_connect(x) \subseteq Result /\ bare_dgram_disconnect(x) \subseteq Result
<1>1. [x EXCEPT !.conn = TRUE] \in Handle /\ [x EXCEPT !.conn = FALSE] \in Handle
  BY DEF Handle
<1> QED BY <1>1, ResultType DEF bare_dgram_connect, bare_dgram_disconnect

\* Handing over a request returns a flag and a handle.
LEMMA SendResult ==
    ASSUME NEW x \in Handle, NEW r \in Req, NEW addressed \in BOOLEAN
    PROVE  bare_dgram_send(x, r, addressed) \subseteq Result
<1>1. Append(x.queue, r) \in Seq(Req)
  BY DEF Handle
<1>2. [x EXCEPT !.queue = Append(@, r)] \in Handle
  BY <1>1 DEF Handle
<1> QED BY <1>2, ResultType DEF bare_dgram_send

\* Starting to read returns a flag and a handle.
LEMMA ResumeResult ==
    ASSUME NEW x \in Handle
    PROVE  bare_dgram_resume(x) \subseteq Result
<1>1. [x EXCEPT !.reading = TRUE, !.sock = IF @ = "none" THEN "bound" ELSE @] \in Handle
  BY DEF Handle
<1> QED BY <1>1, ResultType DEF bare_dgram_resume

\* Setting an option returns a flag and a handle.
LEMMA OptionResult ==
    ASSUME NEW x \in Handle
    PROVE  bare_dgram_set_option(x) \subseteq Result
<1>1. [x EXCEPT !.sock = IF @ = "none" THEN "bound" ELSE @] \in Handle
  BY DEF Handle
<1> QED BY <1>1, ResultType DEF bare_dgram_set_option

\* The calls that cannot fail, and the callbacks of the loop, return a handle.
LEMMA HandleSteps ==
    ASSUME NEW x \in Handle
    PROVE  /\ bare_dgram_pause(x) \in Handle
           /\ bare_dgram_ref(x) \in Handle
           /\ bare_dgram_unref(x) \in Handle
           /\ bare_dgram_close(x) \in Handle
           /\ bare_dgram__on_teardown(x) \in Handle
           /\ bare_dgram__on_close(x) \in Handle
           /\ x.queue # <<>> => bare_dgram__on_send(x) \in Handle
<1>1. bare_dgram_pause(x) \in Handle /\ bare_dgram_ref(x) \in Handle /\ bare_dgram_unref(x) \in Handle
  BY DEF bare_dgram_pause, bare_dgram_ref, bare_dgram_unref, Handle
<1>2. ASSUME NEW y \in Handle PROVE uv_close(y) \in Handle
  BY <1>2 DEF uv_close, Handle
<1>3. bare_dgram_close(x) \in Handle
  <2>1. [x EXCEPT !.closing = TRUE] \in Handle BY DEF Handle
  <2> QED BY <2>1, <1>2 DEF bare_dgram_close
<1>4. bare_dgram__on_teardown(x) \in Handle
  <2>1. [x EXCEPT !.exiting = TRUE] \in Handle BY DEF Handle
  <2> QED BY <2>1, <1>2 DEF bare_dgram__on_teardown
<1>5. bare_dgram__on_close(x) \in Handle
  BY DEF bare_dgram__on_close, Handle
<1>6. ASSUME x.queue # <<>> PROVE bare_dgram__on_send(x) \in Handle
  <2>1. Tail(x.queue) \in Seq(Req) BY <1>6 DEF Handle
  <2> QED BY <2>1 DEF bare_dgram__on_send, Handle
<1> QED BY <1>1, <1>3, <1>4, <1>5, <1>6

-----------------------------------------------------------------------------
(* What the calls leave alone *)

\* Where the handle is between opening and closing.
LifeOf(x) == <<x.loop, x.closing, x.exiting>>

\* Only close, the teardown and the close callback move a handle on.
LEMMA CallsKeepLife ==
    ASSUME NEW x \in Handle,
           NEW res \in bare_dgram_bind(x) \cup bare_dgram_open(x) \cup bare_dgram_connect(x)
                  \cup bare_dgram_disconnect(x) \cup bare_dgram_resume(x)
                  \cup bare_dgram_set_option(x)
    PROVE  LifeOf(res.h) = LifeOf(x)
<1>1. CASE res \in bare_dgram_bind(x)
  <2>1. \/ res.h = x
        \/ res.h = [x EXCEPT !.sock = IF @ = "none" THEN "open" ELSE @]
        \/ res.h = [x EXCEPT !.sock = "bound"]
    BY <1>1 DEF bare_dgram_bind, Ok, Failed
  <2> QED BY <2>1 DEF Handle, LifeOf
<1>2. CASE res \in bare_dgram_open(x)
  <2>1. \/ res.h = x
        \/ \E c \in {FALSE, PeerFd} : res.h = [x EXCEPT !.sock = "bound", !.conn = c]
    BY <1>2 DEF bare_dgram_open, Ok, Failed
  <2> QED BY <2>1 DEF Handle, LifeOf
<1>3. CASE res \in bare_dgram_connect(x) \cup bare_dgram_disconnect(x)
  BY <1>3 DEF bare_dgram_connect, bare_dgram_disconnect, Ok, Failed, Handle, LifeOf
<1>4. CASE res \in bare_dgram_resume(x)
  <2>1. \/ res.h = x
        \/ res.h = [x EXCEPT !.reading = TRUE, !.sock = IF @ = "none" THEN "bound" ELSE @]
    BY <1>4 DEF bare_dgram_resume, Ok, Failed
  <2> QED BY <2>1 DEF Handle, LifeOf
<1>5. CASE res \in bare_dgram_set_option(x)
  BY <1>5 DEF bare_dgram_set_option, Ok, Failed, Handle, LifeOf
<1> QED BY <1>1, <1>2, <1>3, <1>4, <1>5

\* A connect or a disconnect never gives a handle a descriptor.
LEMMA ConnectKeepsSocket ==
    ASSUME NEW x \in Handle,
           NEW res \in bare_dgram_connect(x) \cup bare_dgram_disconnect(x)
    PROVE  LifeOf(res.h) = LifeOf(x) /\ res.h.sock = x.sock
BY DEF bare_dgram_connect, bare_dgram_disconnect, Ok, Failed, Handle, LifeOf

\* Nor does a send.
LEMMA SendKeepsSocket ==
    ASSUME NEW x \in Handle, NEW r \in Req, NEW addressed \in BOOLEAN,
           NEW res \in bare_dgram_send(x, r, addressed)
    PROVE  LifeOf(res.h) = LifeOf(x) /\ res.h.sock = x.sock
BY DEF bare_dgram_send, Ok, Failed, Handle, LifeOf

\* Nor does a call that cannot fail; a pause keeps the descriptor.
LEMMA StepsKeepSocket ==
    ASSUME NEW x \in Handle
    PROVE  /\ LifeOf(bare_dgram_pause(x)) = LifeOf(x) /\ bare_dgram_pause(x).sock = x.sock
           /\ LifeOf(bare_dgram_ref(x)) = LifeOf(x) /\ bare_dgram_ref(x).sock = x.sock
           /\ LifeOf(bare_dgram_unref(x)) = LifeOf(x) /\ bare_dgram_unref(x).sock = x.sock
           /\ LifeOf(bare_dgram__on_send(x)) = LifeOf(x) /\ bare_dgram__on_send(x).sock = x.sock
BY DEF bare_dgram_pause, bare_dgram_ref, bare_dgram_unref, bare_dgram__on_send, Handle, LifeOf

-----------------------------------------------------------------------------
(* The call stack *)

\* Pushing a frame on a stack gives a stack with that frame on top.
LEMMA PushType ==
    ASSUME NEW kind \in UserKinds \cup FlushKinds, NEW fns \in Seq(Fn),
           NEW rest \in Seq(Frame)
    PROVE  Push(kind, fns, rest) \in Seq(Frame)
<1>1. <<[kind |-> kind, fns |-> fns]>> \in Seq(Frame)
  BY DEF Frame
<1> QED BY <1>1, ConcatProperties DEF Push

\* So does a call of user code.
LEMMA CallType ==
    ASSUME NEW kind \in UserKinds, NEW rest \in Seq(Frame)
    PROVE  Call(kind, rest) \in Seq(Frame)
BY PushType, EmptySeq DEF Call

\* What an exception leaves of a stack is a stack.
LEMMA UnwoundType ==
    ASSUME NEW s \in Seq(Frame), NEW t \in Unwound(s)
    PROVE  t \in Seq(Frame)
<1>1. PICK i \in 1..(Len(s) + 1) : t = SubSeq(s, i, Len(s))
  BY DEF Unwound
<1>2. Len(s) \in Nat /\ \A j \in i..Len(s) : s[j] \in Frame
  BY LenProperties, ElementOfSeq
<1> QED BY <1>1, <1>2, SubSeqProperties

-----------------------------------------------------------------------------
(* Types: one lemma per operator that sets variables *)

\* Reporting a request sets `settled` and the stack to values of their kinds.
LEMMA SettleType ==
    ASSUME TypeOK, NEW r \in Req, NEW rest \in Seq(Frame),
           callback(r, rest) \/ onsenderror(r, rest)
    PROVE  settled' \subseteq Req /\ stack' \in Seq(Frame)
BY CallType DEF TypeOK, callback, onsenderror, UserKinds

\* _send keeps the handle, _sends and the stack well typed.
LEMMA HandOverType ==
    ASSUME TypeOK, NEW r \in Req, NEW addressed \in BOOLEAN, NEW rest \in Seq(Frame),
           handOver(r, addressed, rest)
    PROVE  /\ h' \in Handle
           /\ sends' \subseteq Req
           /\ settled' \subseteq Req
           /\ stack' \in Seq(Frame)
<1>1. PICK res \in bare_dgram_send(h, r, addressed) :
        /\ h' = res.h
        /\ IF res.err
           THEN sends' = sends /\ onsenderror(r, rest)
           ELSE sends' = sends \cup {r} /\ settled' = settled /\ stack' = rest
  BY DEF handOver
<1>2. res \in Result
  BY SendResult DEF TypeOK
<1>3. h' \in Handle
  BY <1>1, <1>2 DEF Result
<1>4. CASE res.err
  BY <1>1, <1>3, <1>4, SettleType DEF TypeOK
<1>5. CASE ~res.err
  BY <1>1, <1>3, <1>5 DEF TypeOK
<1> QED BY <1>4, <1>5

\* So does what send makes of an address or a host.
LEMMA ResolveSendType ==
    ASSUME TypeOK, NEW r \in Req, NEW rest \in Seq(Frame),
           \/ resolveSend(r, rest)
           \/ (\E ok \in BOOLEAN : sendResolved(r, ok, rest)) /\ lookups' \subseteq lookups
    PROVE  /\ h' \in Handle
           /\ sends' \subseteq Req
           /\ settled' \subseteq Req
           /\ stack' \in Seq(Frame)
           /\ lookups' \subseteq {"bind", "connect"} \cup Req
<1>1. ASSUME NEW ok \in BOOLEAN, sendResolved(r, ok, rest)
      PROVE  /\ h' \in Handle
             /\ sends' \subseteq Req
             /\ settled' \subseteq Req
             /\ stack' \in Seq(Frame)
  BY <1>1, SettleType, HandOverType DEF sendResolved, TypeOK
<1> QED BY <1>1, UnwoundType DEF resolveSend, TypeOK

\* What connect makes of them keeps the state and the microtasks well typed, too.
LEMMA ResolveConnectType ==
    ASSUME TypeOK, NEW st \in SUBSET Bits, NEW rest \in Seq(Frame),
           \/ resolveConnect(st, rest)
           \/ (\E ok \in BOOLEAN : connectResolved(st, ok, rest)) /\ lookups' \subseteq lookups
    PROVE  /\ state' \subseteq Bits
           /\ h' \in Handle
           /\ micro' \in Seq(Micro)
           /\ stack' \in Seq(Frame)
           /\ lookups' \subseteq {"bind", "connect"} \cup Req
<1>1. ASSUME NEW ok \in BOOLEAN, connectResolved(st, ok, rest)
      PROVE  /\ state' \subseteq Bits
             /\ h' \in Handle
             /\ micro' \in Seq(Micro)
             /\ stack' \in Seq(Frame)
  <2> DEFINE st1 == st \ {"CONNECTING"}
  <2>1. st1 \subseteq Bits /\ st1 \cup {"CONNECTED"} \subseteq Bits
    BY DEF Bits
  <2>2. Append(micro, "error") \in Seq(Micro) /\ Append(micro, "connect") \in Seq(Micro)
    BY DEF TypeOK, Micro
  <2>3. stack' \in Seq(Frame)
    BY <1>1 DEF connectResolved
  <2>4. CASE state' = st1 /\ h' = h /\ (micro' = micro \/ micro' = Append(micro, "error"))
    BY <2>1, <2>2, <2>3, <2>4 DEF TypeOK
  <2>5. CASE \E res \in bare_dgram_connect(h) :
                /\ h' = res.h
                /\ state' = IF res.err THEN st1 ELSE st1 \cup {"CONNECTED"}
                /\ micro' = Append(micro, IF res.err THEN "error" ELSE "connect")
    BY <2>1, <2>2, <2>3, <2>5, ConnectResult DEF TypeOK, Result
  <2> QED BY <1>1, <2>4, <2>5 DEF connectResolved
<1> QED BY <1>1, UnwoundType DEF resolveConnect, TypeOK

\* _resume yields a handle and a set of bits.
LEMMA ResumedType ==
    ASSUME NEW hh \in Handle, NEW st \in SUBSET Bits, NEW pz \in BOOLEAN,
           NEW res \in resumed(hh, st, pz)
    PROVE  res.h \in Handle /\ res.state \subseteq Bits /\ res.err \in BOOLEAN
<1>1. st \cup {"READING"} \subseteq Bits
  BY DEF Bits
<1>2. CASE pz \/ "READING" \in st
  <2>1. res = [err |-> FALSE, h |-> hh, state |-> st]
    BY <1>2 DEF resumed
  <2> QED BY <2>1
<1>3. CASE ~(pz \/ "READING" \in st)
  <2>1. PICK call \in bare_dgram_resume(hh) :
           res = [err |-> call.err, h |-> call.h, state |-> st \cup {"READING"}]
    BY <1>3 DEF resumed
  <2>2. call.h \in Handle /\ call.err \in BOOLEAN
    BY ResumeResult DEF Result
  <2> QED BY <1>1, <2>1, <2>2
<1> QED BY <1>2, <1>3

\* The end of a bind, good or bad, leaves every variable it sets well typed.
LEMMA OnBindType ==
    ASSUME TypeOK, NEW hh \in Handle, NEW st \in SUBSET Bits, NEW pz \in BOOLEAN,
           NEW pend \in Seq(Fn), NEW rest \in Seq(Frame),
           onbind(hh, st, pz, pend, rest) \/ onbinderror(hh, st, pend, rest)
    PROVE  /\ state' \subseteq Bits
           /\ h' \in Handle
           /\ pending' \in Seq(Fn)
           /\ micro' \in Seq(Micro)
           /\ stack' \in Seq(Frame)
<1>1. CASE onbinderror(hh, st, pend, rest)
  BY <1>1 DEF onbinderror, TypeOK, Micro
<1>2. CASE onbind(hh, st, pz, pend, rest)
  <2> DEFINE st1 == (st \cup {"BOUND"}) \ {"BINDING"}
  <2>1. st1 \in SUBSET Bits /\ micro' \in Seq(Micro)
    BY <1>2 DEF onbind, TypeOK, Bits
  <2>2. CASE state' = st1 /\ h' = hh /\ pending' = pend /\ stack' \in Unwound(rest)
    BY <2>1, <2>2, UnwoundType
  <2>3. CASE \E res \in resumed(hh, st1, pz) :
               /\ state' = res.state /\ h' = res.h
               /\ IF res.err
                  THEN pending' = pend /\ stack' \in Unwound(rest)
                  ELSE pending' = <<>> /\ stack' = Push("bound", pend, rest)
    <3>1. PICK res \in resumed(hh, st1, pz) :
               /\ state' = res.state /\ h' = res.h
               /\ IF res.err
                  THEN pending' = pend /\ stack' \in Unwound(rest)
                  ELSE pending' = <<>> /\ stack' = Push("bound", pend, rest)
      BY <2>3
    <3>2. res.h \in Handle /\ res.state \subseteq Bits
      BY <2>1, ResumedType
    <3>3. Push("bound", pend, rest) \in Seq(Frame) /\ <<>> \in Seq(Fn)
      BY PushType, EmptySeq DEF FlushKinds
    <3> QED BY <2>1, <3>1, <3>2, <3>3, UnwoundType
  <2> QED BY <1>2, <2>2, <2>3 DEF onbind
<1> QED BY <1>1, <1>2

\* So does a native bind followed by either end.
LEMMA BindWithType ==
    ASSUME TypeOK, NEW results \in SUBSET Result, NEW st \in SUBSET Bits,
           NEW pz \in BOOLEAN, NEW pend \in Seq(Fn), NEW rest \in Seq(Frame),
           bindWith(results, st, pz, pend, rest)
    PROVE  /\ state' \subseteq Bits
           /\ h' \in Handle
           /\ pending' \in Seq(Fn)
           /\ micro' \in Seq(Micro)
           /\ stack' \in Seq(Frame)
<1>1. PICK res \in results :
        IF res.err THEN onbinderror(res.h, st, pend, rest)
                   ELSE onbind(res.h, st, pz, pend, rest)
  BY DEF bindWith
<1>2. res.h \in Handle
  BY DEF Result
<1> QED BY <1>1, <1>2, OnBindType

\* _bindMaybe queues a function of the program and may bind.
LEMMA BindMaybeType ==
    ASSUME TypeOK, NEW fn \in Fn, NEW st \in SUBSET Bits, NEW pz \in BOOLEAN,
           bindMaybe(fn, st, pz)
    PROVE  /\ state' \subseteq Bits
           /\ h' \in Handle
           /\ pending' \in Seq(Fn)
           /\ micro' \in Seq(Micro)
           /\ stack' \in Seq(Frame)
           /\ UNCHANGED <<sends, settled, lookups>>
<1> DEFINE pend == Append(pending, fn)
<1>1. pend \in Seq(Fn)
  BY DEF TypeOK
<1>2. CASE state' = st /\ pending' = pend /\ UNCHANGED <<h, micro, stack>>
  BY <1>1, <1>2 DEF TypeOK, bindMaybe
<1>3. CASE bindWith(bare_dgram_bind(h), st \cup {"BINDING"}, pz, pend, stack)
  <2>1. bare_dgram_bind(h) \in SUBSET Result
    BY BindResult DEF TypeOK
  <2>2. st \cup {"BINDING"} \in SUBSET Bits /\ stack \in Seq(Frame)
    BY DEF Bits, TypeOK
  <2> QED BY <1>1, <1>3, <2>1, <2>2, BindWithType DEF bindMaybe
<1> QED BY <1>2, <1>3 DEF bindMaybe

-----------------------------------------------------------------------------
(* Types: the calls of the program *)

\* bind() keeps every variable well typed.
LEMMA BindKeepsType ==
    ASSUME TypeOK, bind
    PROVE  TypeOK'
<1> DEFINE st == state \cup {"BINDING"}
<1>1. st \in SUBSET Bits /\ stack \in Seq(Frame) /\ pending \in Seq(Fn) /\ paused \in BOOLEAN
  BY DEF TypeOK, Bits
<1>2. bare_dgram_open(h) \in SUBSET Result /\ bare_dgram_bind(h) \in SUBSET Result
  BY OpenResult, BindResult DEF TypeOK
<1>3. UNCHANGED <<paused, sends, issued, settled>>
  BY DEF bind
<1>4. CASE \/ bindWith(bare_dgram_open(h), st, paused, pending, stack) /\ lookups' = lookups
           \/ bindWith(bare_dgram_bind(h), st, paused, pending, stack) /\ lookups' = lookups
  <2>1. /\ state' \subseteq Bits
        /\ h' \in Handle
        /\ pending' \in Seq(Fn)
        /\ micro' \in Seq(Micro)
        /\ stack' \in Seq(Frame)
    BY <1>1, <1>2, <1>4, BindWithType
  <2> QED BY <1>3, <1>4, <2>1 DEF TypeOK
<1>5. CASE onbinderror(h, st, pending, stack) /\ lookups' = lookups
  <2>1. /\ state' \subseteq Bits
        /\ h' \in Handle
        /\ pending' \in Seq(Fn)
        /\ micro' \in Seq(Micro)
        /\ stack' \in Seq(Frame)
    BY <1>1, <1>5, OnBindType DEF TypeOK
  <2> QED BY <1>3, <1>5, <2>1 DEF TypeOK
<1>6. CASE lookups' \in {lookups, lookups \cup {"bind"}} /\ state' = st
           /\ UNCHANGED <<h, pending, micro, stack>>
  BY <1>1, <1>3, <1>6 DEF TypeOK
<1> QED BY <1>4, <1>5, <1>6 DEF bind

\* connect() keeps every variable well typed.
LEMMA ConnectKeepsType ==
    ASSUME TypeOK, "connect" \in Calls, connect
    PROVE  TypeOK'
<1> DEFINE st == state \cup {"CONNECTING"}
<1>1. st \in SUBSET Bits /\ stack \in Seq(Frame) /\ paused \in BOOLEAN /\ "connect" \in Fn
  BY DEF TypeOK, Bits, Fn
<1>2. UNCHANGED <<paused, issued>>
  BY DEF connect
<1>3. CASE resolveConnect(st, stack) /\ UNCHANGED <<pending, sends, settled>>
  <2>1. /\ state' \subseteq Bits
        /\ h' \in Handle
        /\ micro' \in Seq(Micro)
        /\ stack' \in Seq(Frame)
        /\ lookups' \subseteq {"bind", "connect"} \cup Req
    BY <1>1, <1>3, ResolveConnectType
  <2> QED BY <1>2, <1>3, <2>1 DEF TypeOK
<1>4. CASE bindMaybe("connect", st, paused)
  <2>1. /\ state' \subseteq Bits
        /\ h' \in Handle
        /\ pending' \in Seq(Fn)
        /\ micro' \in Seq(Micro)
        /\ stack' \in Seq(Frame)
        /\ UNCHANGED <<sends, settled, lookups>>
    BY <1>1, <1>4, BindMaybeType
  <2> QED BY <1>2, <2>1 DEF TypeOK
<1> QED BY <1>3, <1>4 DEF connect

\* send() keeps every variable well typed.
LEMMA SendKeepsType ==
    ASSUME TypeOK, NEW r \in Req, send(r)
    PROVE  TypeOK'
<1>1. /\ stack \in Seq(Frame) /\ paused \in BOOLEAN /\ r \in Fn /\ state \in SUBSET Bits
      /\ issued' \subseteq Req /\ paused' = paused
  BY DEF TypeOK, Fn, send
<1>2. CASE handOver(r, FALSE, stack) /\ UNCHANGED <<state, pending, lookups, micro>>
  BY <1>1, <1>2, HandOverType DEF TypeOK
<1>3. CASE resolveSend(r, stack) /\ UNCHANGED <<state, pending, micro>>
  BY <1>1, <1>3, ResolveSendType DEF TypeOK
<1>4. CASE bindMaybe(r, state, paused)
  <2>1. /\ state' \subseteq Bits
        /\ h' \in Handle
        /\ pending' \in Seq(Fn)
        /\ micro' \in Seq(Micro)
        /\ stack' \in Seq(Frame)
        /\ UNCHANGED <<sends, settled, lookups>>
    BY <1>1, <1>4, BindMaybeType
  <2> QED BY <1>1, <2>1 DEF TypeOK
<1> QED BY <1>2, <1>3, <1>4 DEF send

\* resume() keeps every variable well typed.
LEMMA ResumeKeepsType ==
    ASSUME TypeOK, "resume" \in Calls, resume
    PROVE  TypeOK'
<1>1. stack \in Seq(Frame) /\ "resume" \in Fn /\ state \in SUBSET Bits /\ h \in Handle
  BY DEF TypeOK, Fn
<1>2. paused' \in BOOLEAN /\ issued' = issued
  BY DEF resume
<1>3. CASE UNCHANGED <<state, pending, sends, h, lookups, micro, stack, settled>>
  BY <1>2, <1>3 DEF TypeOK
<1>4. CASE /\ \E res \in resumed(h, state, FALSE) : state' = res.state /\ h' = res.h
           /\ UNCHANGED <<pending, sends, lookups, micro, stack, settled>>
  BY <1>1, <1>2, <1>4, ResumedType DEF TypeOK
<1>5. CASE bindMaybe("resume", state, FALSE)
  <2>1. /\ state' \subseteq Bits
        /\ h' \in Handle
        /\ pending' \in Seq(Fn)
        /\ micro' \in Seq(Micro)
        /\ stack' \in Seq(Frame)
        /\ UNCHANGED <<sends, settled, lookups>>
    BY <1>1, <1>5, BindMaybeType
  <2> QED BY <1>2, <2>1 DEF TypeOK
<1> QED BY <1>3, <1>4, <1>5 DEF resume

\* The other calls keep every variable well typed.
LEMMA OtherCallsKeepType ==
    ASSUME TypeOK,
           disconnect \/ pause \/ close \/ setOption \/ ref \/ unref \/ ipcAccept
    PROVE  TypeOK'
<1>1. CASE disconnect
  BY <1>1, ConnectResult DEF disconnect, TypeOK, Result
<1>2. CASE pause
  BY <1>2, HandleSteps DEF pause, TypeOK
<1>3. CASE close
  <2>1. /\ micro' \in Seq(Micro)
        /\ state' \subseteq Bits
        /\ h' \in Handle
    <3>1. Append(micro, "onclose") \in Seq(Micro)
      BY DEF TypeOK, Micro
    <3>2. bare_dgram_close(h) \in Handle
      BY HandleSteps DEF TypeOK
    <3> QED BY <1>3, <3>1, <3>2 DEF close, TypeOK, Bits
  <2>2. UNCHANGED <<paused, pending, sends, lookups, stack, issued, settled>>
    BY <1>3 DEF close
  <2> QED BY <2>1, <2>2 DEF TypeOK
<1>4. CASE setOption
  BY <1>4, OptionResult DEF setOption, TypeOK, Result
<1>5. CASE ref \/ unref
  BY <1>5, HandleSteps DEF ref, unref, TypeOK, Bits
<1>6. CASE ipcAccept
  <2>1. PICK res \in bare_dgram_open(h) : onbind(res.h, state, paused, pending, stack)
    BY <1>6 DEF ipcAccept
  <2>2. res.h \in Handle
    BY OpenResult DEF Result, TypeOK
  <2>3. /\ state' \subseteq Bits
        /\ h' \in Handle
        /\ pending' \in Seq(Fn)
        /\ micro' \in Seq(Micro)
        /\ stack' \in Seq(Frame)
    BY <2>1, <2>2, OnBindType DEF TypeOK
  <2> QED BY <1>6, <2>3 DEF TypeOK, ipcAccept
<1> QED BY <1>1, <1>2, <1>3, <1>4, <1>5, <1>6

-----------------------------------------------------------------------------
(* Types: flush, the microtasks and the event loop *)

\* The innermost call in progress is a frame, above a stack.
LEMMA TopFrame ==
    ASSUME TypeOK, stack # <<>>
    PROVE  /\ Head(stack) \in Frame
           /\ Head(stack).kind \in UserKinds \cup FlushKinds
           /\ Head(stack).fns \in Seq(Fn)
           /\ Tail(stack) \in Seq(Frame)
           /\ Head(stack).fns # <<>> =>
                 /\ Head(Head(stack).fns) \in Fn
                 /\ Push(Head(stack).kind, Tail(Head(stack).fns), Tail(stack)) \in Seq(Frame)
<1>1. Head(stack) \in Frame /\ Tail(stack) \in Seq(Frame)
  BY HeadTailProperties DEF TypeOK
<1>2. Head(stack).kind \in UserKinds \cup FlushKinds /\ Head(stack).fns \in Seq(Fn)
  BY <1>1 DEF Frame
<1>3. ASSUME Head(stack).fns # <<>>
      PROVE  /\ Head(Head(stack).fns) \in Fn
             /\ Push(Head(stack).kind, Tail(Head(stack).fns), Tail(stack)) \in Seq(Frame)
  BY <1>1, <1>2, <1>3, HeadTailProperties, PushType
<1> QED BY <1>1, <1>2, <1>3

\* flush calling a function of a bound socket keeps the types.
LEMMA FlushNextKeepsType ==
    ASSUME TypeOK, flushNext
    PROVE  TypeOK'
<1> DEFINE fn == Head(Head(stack).fns)
           rest == Push("bound", Tail(Head(stack).fns), Tail(stack))
<1>1. fn \in Fn /\ rest \in Seq(Frame)
  BY TopFrame DEF flushNext, InFlush
<1>2. UNCHANGED <<paused, pending, issued>>
  BY DEF flushNext
<1>3. CASE fn \in Req /\ resolveSend(fn, rest) /\ UNCHANGED <<state, micro>>
  BY <1>1, <1>2, <1>3, ResolveSendType DEF TypeOK
<1>4. CASE resolveConnect(state, rest) /\ UNCHANGED <<sends, settled>>
  <2>1. /\ state' \subseteq Bits
        /\ h' \in Handle
        /\ micro' \in Seq(Micro)
        /\ stack' \in Seq(Frame)
        /\ lookups' \subseteq {"bind", "connect"} \cup Req
    BY <1>1, <1>4, ResolveConnectType DEF TypeOK
  <2> QED BY <1>2, <1>4, <2>1 DEF TypeOK
<1>5. CASE /\ \E res \in resumed(h, state, paused) :
                 /\ state' = res.state /\ h' = res.h
                 /\ IF res.err THEN stack' \in Unwound(rest) ELSE stack' = rest
           /\ UNCHANGED <<sends, lookups, micro, settled>>
  <2>1. PICK res \in resumed(h, state, paused) :
                 /\ state' = res.state /\ h' = res.h
                 /\ IF res.err THEN stack' \in Unwound(rest) ELSE stack' = rest
    BY <1>5
  <2>2. state' \subseteq Bits /\ h' \in Handle
    BY <2>1, ResumedType DEF TypeOK
  <2>3. stack' \in Seq(Frame)
    BY <1>1, <2>1, UnwoundType
  <2> QED BY <1>2, <1>5, <2>2, <2>3 DEF TypeOK
<1> QED BY <1>3, <1>4, <1>5 DEF flushNext

\* flush calling a function with an error keeps the types.
LEMMA FlushErrorKeepsType ==
    ASSUME TypeOK, flushError
    PROVE  TypeOK'
<1> DEFINE fn == Head(Head(stack).fns)
           rest == Push(Head(stack).kind, Tail(Head(stack).fns), Tail(stack))
<1>1. fn \in Fn /\ rest \in Seq(Frame)
  BY TopFrame DEF flushError, InFlush
<1>2. state' \subseteq Bits /\ UNCHANGED <<paused, pending, sends, h, lookups, micro, issued>>
  BY DEF flushError, TypeOK
<1>3. settled' \subseteq Req /\ stack' \in Seq(Frame)
  <2>1. CASE fn \in Req
    BY <1>1, <2>1, SettleType DEF flushError
  <2>2. CASE fn \notin Req
    BY <1>1, <2>2 DEF flushError, TypeOK
  <2> QED BY <2>1, <2>2
<1> QED BY <1>2, <1>3 DEF TypeOK

\* What onbind, onbinderror and onclose do after their flush keeps the types.
LEMMA FlushDoneKeepsType ==
    ASSUME TypeOK, flushDone
    PROVE  TypeOK'
<1>1. Tail(stack) \in Seq(Frame)
  BY TopFrame DEF flushDone
<1>2. Call("error", Tail(stack)) \in Seq(Frame) /\ Call("close", Tail(stack)) \in Seq(Frame)
  BY <1>1, CallType DEF UserKinds
<1>3. Append(micro, "listening") \in Seq(Micro)
  BY DEF TypeOK, Micro
<1>4. stack' \in Seq(Frame) /\ micro' \in Seq(Micro)
  BY <1>1, <1>2, <1>3 DEF flushDone, TypeOK
<1>5. UNCHANGED <<state, paused, pending, sends, h, lookups, issued, settled>>
  BY DEF flushDone
<1> QED BY <1>4, <1>5 DEF TypeOK

\* The steps that only enter or leave user code keep the types.
LEMMA ReturnsKeepType ==
    ASSUME TypeOK, Return \/ Throw \/ userTurn \/ \E err \in BOOLEAN : onmessage(err)
    PROVE  TypeOK'
<1>1. stack' \in Seq(Frame)
  <2>1. CASE Return \/ Throw
    <3>1. Tail(stack) \in Seq(Frame)
      BY <2>1, TopFrame DEF Return, Throw, InUserCode
    <3> QED BY <2>1, <3>1, UnwoundType DEF Return, Throw
  <2>2. CASE userTurn
    BY <2>2, CallType, EmptySeq DEF userTurn, UserKinds
  <2>3. CASE \E err \in BOOLEAN : onmessage(err)
    BY <2>3, CallType, EmptySeq DEF onmessage, UserKinds
  <2> QED BY <2>1, <2>2, <2>3
<1>2. UNCHANGED <<state, paused, pending, sends, h, lookups, micro, issued, settled>>
  BY DEF Return, Throw, userTurn, onmessage
<1> QED BY <1>1, <1>2 DEF TypeOK

\* The microtasks keep the types.
LEMMA MicrotasksKeepType ==
    ASSUME TypeOK, runMicrotask \/ runBindError
    PROVE  TypeOK'
<1>1. micro # <<>> /\ Head(micro) \in Micro /\ Tail(micro) \in Seq(Micro)
  BY HeadTailProperties DEF TypeOK, runMicrotask, runBindError
<1>2. CASE runMicrotask
  <2>1. Head(micro) \in UserKinds
    BY <1>1, <1>2 DEF runMicrotask, Micro, UserKinds
  <2>2. Call(Head(micro), <<>>) \in Seq(Frame) /\ <<>> \in Seq(Frame)
    BY <2>1, CallType, EmptySeq
  <2> QED BY <1>1, <1>2, <2>2 DEF runMicrotask, TypeOK
<1>3. CASE runBindError
  <2>1. Push("failed", pending, <<>>) \in Seq(Frame) /\ <<>> \in Seq(Fn)
    BY PushType, EmptySeq DEF TypeOK, FlushKinds
  <2> QED BY <1>1, <1>3, <2>1 DEF runBindError, TypeOK
<1> QED BY <1>2, <1>3

\* The answers of the lookups keep the types.
LEMMA LookupsKeepType ==
    ASSUME TypeOK, NEW ok \in BOOLEAN,
           lookupBind(ok) \/ lookupConnect(ok) \/ \E r \in Req : lookupSend(r, ok)
    PROVE  TypeOK'
<1>1. <<>> \in Seq(Frame) /\ state \in SUBSET Bits /\ h \in Handle /\ pending \in Seq(Fn)
      /\ paused \in BOOLEAN
  BY EmptySeq DEF TypeOK
<1>2. CASE lookupBind(ok)
  <2>1. lookups' \subseteq {"bind", "connect"} \cup Req /\ UNCHANGED <<paused, sends, issued, settled>>
    BY <1>2 DEF lookupBind, TypeOK
  <2>2. CASE UNCHANGED <<state, pending, h, micro, stack>>
    BY <2>1, <2>2 DEF TypeOK
  <2>3. CASE onbinderror(h, state, pending, <<>>)
    <3>1. /\ state' \subseteq Bits
          /\ h' \in Handle
          /\ pending' \in Seq(Fn)
          /\ micro' \in Seq(Micro)
          /\ stack' \in Seq(Frame)
      BY <1>1, <2>3, OnBindType
    <3> QED BY <2>1, <3>1 DEF TypeOK
  <2>4. CASE bindWith(bare_dgram_bind(h), state, paused, pending, <<>>)
    <3>1. bare_dgram_bind(h) \in SUBSET Result
      BY <1>1, BindResult
    <3>2. /\ state' \subseteq Bits
          /\ h' \in Handle
          /\ pending' \in Seq(Fn)
          /\ micro' \in Seq(Micro)
          /\ stack' \in Seq(Frame)
      BY <1>1, <2>4, <3>1, BindWithType
    <3> QED BY <2>1, <3>2 DEF TypeOK
  <2> QED BY <1>2, <2>2, <2>3, <2>4 DEF lookupBind
<1>3. CASE lookupConnect(ok)
  <2>1. connectResolved(state, ok, <<>>) /\ lookups' \subseteq lookups
    BY <1>3 DEF lookupConnect
  <2>2. /\ state' \subseteq Bits
        /\ h' \in Handle
        /\ micro' \in Seq(Micro)
        /\ stack' \in Seq(Frame)
        /\ lookups' \subseteq {"bind", "connect"} \cup Req
    BY <1>1, <2>1, ResolveConnectType
  <2> QED BY <1>3, <2>2 DEF TypeOK, lookupConnect
<1>4. ASSUME NEW r \in Req, lookupSend(r, ok)
      PROVE  TypeOK'
  <2>1. sendResolved(r, ok, <<>>) /\ lookups' \subseteq lookups
    BY <1>4 DEF lookupSend
  <2>2. /\ h' \in Handle
        /\ sends' \subseteq Req
        /\ settled' \subseteq Req
        /\ stack' \in Seq(Frame)
        /\ lookups' \subseteq {"bind", "connect"} \cup Req
    BY <1>1, <2>1, ResolveSendType
  <2> QED BY <1>4, <2>2 DEF TypeOK, lookupSend
<1> QED BY <1>2, <1>3, <1>4

\* The callbacks of the native handle keep the types.
LEMMA HandleCallbacksKeepType ==
    ASSUME TypeOK, (\E err \in BOOLEAN : onsend(err)) \/ onclose \/ onteardown
    PROVE  TypeOK'
<1>1. <<>> \in Seq(Frame) /\ <<>> \in Seq(Fn) /\ h \in Handle
  BY EmptySeq DEF TypeOK
<1>2. ASSUME NEW err \in BOOLEAN, onsend(err)
      PROVE  TypeOK'
  <2> DEFINE r == Head(h.queue)
  <2>1. h' \in Handle
    BY <1>1, <1>2, HandleSteps DEF onsend, CanCompleteSend
  <2>2. /\ Call("callback", <<>>) \in Seq(Frame)
        /\ Call("error", <<>>) \in Seq(Frame)
    BY <1>1, CallType DEF UserKinds
  <2>3. UNCHANGED <<state, paused, pending, lookups, micro, issued>>
    BY <1>2 DEF onsend
  <2>4. CASE UNCHANGED <<sends, settled, stack>>
    BY <2>1, <2>3, <2>4 DEF TypeOK
  <2>5. CASE /\ r \in sends
             /\ sends' = sends \ {r}
             /\ settled' = settled \cup {r}
             /\ stack' = IF r \in WithCb THEN Call("callback", <<>>)
                         ELSE IF err /\ ~Closing(state) THEN Call("error", <<>>)
                         ELSE <<>>
    <3>1. stack' \in Seq(Frame)
      BY <1>1, <2>2, <2>5
    <3>2. sends' \subseteq Req /\ settled' \subseteq Req
      BY <2>5 DEF TypeOK
    <3> QED BY <2>1, <2>3, <3>1, <3>2 DEF TypeOK
  <2> QED BY <1>2, <2>4, <2>5 DEF onsend
<1>3. CASE onclose
  <2>1. h' \in Handle
    BY <1>1, <1>3, HandleSteps DEF onclose
  <2>2. Push("closed", pending, <<>>) \in Seq(Frame)
    BY <1>1, PushType DEF TypeOK, FlushKinds
  <2>3. UNCHANGED <<paused, lookups, micro, issued, settled>>
    BY <1>3 DEF onclose
  <2>4. /\ state' \subseteq Bits /\ pending' \in Seq(Fn)
        /\ sends' \subseteq Req /\ stack' \in Seq(Frame)
    BY <1>1, <1>3, <2>2 DEF onclose, TypeOK, Bits
  <2> QED BY <2>1, <2>3, <2>4 DEF TypeOK
<1>4. CASE onteardown
  BY <1>1, <1>4, HandleSteps DEF onteardown, TypeOK
<1> QED BY <1>2, <1>3, <1>4

\* Whatever the program does, and whenever the event loop answers, the socket
\* and its handle hold values of their kinds.
THEOREM TypeCorrect == Spec => []TypeOK
<1>1. Init => TypeOK
  BY InitHandle, EmptySeq DEF Init, TypeOK
<1>2. TypeOK /\ [Next]_vars => TypeOK'
  <2> SUFFICES ASSUME TypeOK, [Next]_vars PROVE TypeOK'
    OBVIOUS
  <2>1. CASE UserCall
    BY <2>1, BindKeepsType, ConnectKeepsType, SendKeepsType, ResumeKeepsType,
       OtherCallsKeepType DEF UserCall
  <2>2. CASE flushNext \/ flushError \/ flushDone
    BY <2>2, FlushNextKeepsType, FlushErrorKeepsType, FlushDoneKeepsType
  <2>3. CASE Return \/ Throw \/ userTurn \/ \E err \in BOOLEAN : onmessage(err)
    BY <2>3, ReturnsKeepType
  <2>4. CASE runMicrotask \/ runBindError
    BY <2>4, MicrotasksKeepType
  <2>5. CASE \/ \E ok \in BOOLEAN : lookupBind(ok) \/ lookupConnect(ok)
             \/ \E r \in Req, ok \in BOOLEAN : lookupSend(r, ok)
    BY <2>5, LookupsKeepType
  <2>6. CASE (\E err \in BOOLEAN : onsend(err)) \/ onclose \/ onteardown
    BY <2>6, HandleCallbacksKeepType
  <2>7. CASE UNCHANGED vars
    BY <2>7 DEF vars, TypeOK
  <2> QED BY <2>1, <2>2, <2>3, <2>4, <2>5, <2>6, <2>7 DEF Next
<1> QED BY <1>1, <1>2, PTL DEF Spec

=============================================================================
