----------------------------- MODULE DgramSocket -----------------------------
(***************************************************************************)
(* The Socket class of index.js over the native handle of Binding.         *)
(*                                                                         *)
(* One JavaScript thread runs everything, so what interleaves is not       *)
(* threads but callbacks: user code re-enters the socket from a send       *)
(* callback in the middle of a flush, microtasks run between the turns of  *)
(* the event loop, and a host lookup answers turns after it was asked for. *)
(* The model keeps the call stack, the microtask queue and the lookups in  *)
(* flight, and lets user code make any call wherever it holds control.     *)
(*                                                                         *)
(* Payloads, addresses and event listeners are left out.  A call that      *)
(* throws on its own guards changes nothing and is not a step.  A method   *)
(* that calls user code last is a single step that pushes a frame for it;  *)
(* only flush calls user code and goes on, and it has frames of its own.   *)
(***************************************************************************)
EXTENDS Binding, Naturals, FiniteSets

CONSTANTS
    WithCb,       \* the requests sent with a callback
    Calls,        \* the calls the program makes
    Throws,       \* TRUE: user code may throw, as does an 'error' without listener
    LookupThrows, \* TRUE: the lookup, a function of the program, may throw
    LateAccept,   \* TRUE: a pipe may accept onto a socket that was closed, too
    MaxPending,   \* bound: the program does not connect or resume beyond it
    MaxMicro      \* bound: the program does not queue microtasks beyond it

ASSUME DgramSocketAssumption ==
    /\ WithCb \subseteq Req
    /\ Throws \in BOOLEAN
    /\ LookupThrows \in BOOLEAN
    /\ LateAccept \in BOOLEAN
    /\ MaxPending \in Nat
    /\ MaxMicro \in Nat
    /\ Req \cap {"bind", "connect", "resume"} = {}

VARIABLES
    state,    \* _state, the set of its bits
    paused,   \* _paused
    pending,  \* _pending, the functions queued until the socket is bound
    sends,    \* _sends, the requests handed to the native handle
    h,        \* _handle
    lookups,  \* the host lookups in flight: of bind, of connect, of a request
    micro,    \* the microtask queue
    stack,    \* the calls in progress, the innermost first
    issued,   \* history: the requests that send accepted
    settled   \* history: the requests whose outcome was reported or dropped

vars == <<state, paused, pending, sends, h, lookups, micro, stack, issued, settled>>

Bits == {"CONNECTING", "CONNECTED", "BINDING", "BOUND", "READING",
         "CLOSING", "CLOSED", "UNREFED"}

\* A queued function: that of connect or resume, if the program calls them, or
\* of the send of a request.
Fn == ({"connect", "resume"} \cap Calls) \cup Req

Micro == {"listening", "connect", "error", "binderror", "onclose"}

(***************************************************************************)
(* User code runs as a turn of the program, the callback of a send or a    *)
(* listener.  flush runs from onbind, onbinderror and onclose, which each  *)
(* go on differently when it is done.                                      *)
(***************************************************************************)
UserKinds == {"turn", "callback", "listening", "connect", "message", "error",
              "close", "onclose"}
FlushKinds == {"bound", "failed", "closed"}
Frame == [kind : UserKinds \cup FlushKinds, fns : Seq(Fn)]

Push(kind, fns, rest) == <<[kind |-> kind, fns |-> fns]>> \o rest
Call(kind, rest) == Push(kind, <<>>, rest)

InUserCode == stack # <<>> /\ Head(stack).kind \in UserKinds
InFlush(kind) == stack # <<>> /\ Head(stack).kind = kind

\* The calls left when an exception reaches the nearest user code, which may
\* catch it; there is exactly one such stack.
Unwound(s) ==
    {SubSeq(s, i, Len(s)) :
        i \in {j \in 1..(Len(s) + 1) :
                  /\ j \in DOMAIN s => s[j].kind \in UserKinds
                  /\ \A k \in 1..(j - 1) : s[k].kind \notin UserKinds}}

Closing(st) == st \cap {"CLOSING", "CLOSED"} # {}

\* The event loop takes its next callback when no JavaScript is left to run.
Idle == stack = <<>> /\ micro = <<>> /\ h.loop # "aborted"

Init ==
    /\ state = {}
    /\ paused = FALSE
    /\ pending = <<>>
    /\ sends = {}
    /\ h = bare_dgram_init
    /\ lookups = {}
    /\ micro = <<>>
    /\ stack = <<>>
    /\ issued = {}
    /\ settled = {}

-----------------------------------------------------------------------------
(* Sending *)

\* cb && cb(...)
callback(r, rest) ==
    /\ settled' = settled \cup {r}
    /\ stack' = IF r \in WithCb THEN Call("callback", rest) ELSE rest

onsenderror(r, rest) ==
    /\ settled' = settled \cup {r}
    /\ stack' = Call(IF r \in WithCb THEN "callback" ELSE "error", rest)

\* Mutant: a request that the handle refused stays in _sends.
handOverKept(r, addressed, rest) ==
    \E res \in bare_dgram_send(h, r, addressed) :
        /\ h' = res.h
        /\ sends' = sends \cup {r}
        /\ IF res.err THEN onsenderror(r, rest)
                      ELSE settled' = settled /\ stack' = rest

\* _send
handOver(r, addressed, rest) ==
    \E res \in bare_dgram_send(h, r, addressed) :
        /\ h' = res.h
        /\ IF res.err
           THEN sends' = sends /\ onsenderror(r, rest)
           ELSE sends' = sends \cup {r} /\ settled' = settled /\ stack' = rest

\* Mutant: send does not look whether the socket was closed during the lookup.
sendResolvedLate(r, ok, rest) ==
    IF ok THEN handOver(r, TRUE, rest)
          ELSE onsenderror(r, rest) /\ UNCHANGED <<h, sends>>

\* What send does with the answer of the lookup.
sendResolved(r, ok, rest) ==
    \/ /\ ~ok
       /\ onsenderror(r, rest)
       /\ UNCHANGED <<h, sends>>
    \/ /\ ok /\ Closing(state)
       /\ callback(r, rest)
       /\ UNCHANGED <<h, sends>>
    \/ /\ ok /\ ~Closing(state)
       /\ handOver(r, TRUE, rest)

\* An address is resolved at once, a host by a lookup, which may answer at once
\* or throw.
resolveSend(r, rest) ==
    \/ \E ok \in BOOLEAN : sendResolved(r, ok, rest) /\ lookups' = lookups
    \/ /\ lookups' = lookups \cup {r}
       /\ stack' = rest
       /\ UNCHANGED <<h, sends, settled>>
    \/ /\ LookupThrows
       /\ stack' \in Unwound(rest)
       /\ UNCHANGED <<h, sends, settled, lookups>>

-----------------------------------------------------------------------------
(* Connecting *)

\* Mutant: nor does connect.
connectResolvedLate(st, ok, rest) ==
    \E res \in IF ok THEN bare_dgram_connect(h) ELSE {Failed(h)} :
        /\ h' = res.h
        /\ state' = IF res.err THEN st \ {"CONNECTING"}
                    ELSE (st \ {"CONNECTING"}) \cup {"CONNECTED"}
        /\ micro' = Append(micro, IF res.err THEN "error" ELSE "connect")
        /\ stack' = rest

\* What connect does with the answer of the lookup; st is the state so far.
connectResolved(st, ok, rest) ==
    LET st1 == st \ {"CONNECTING"} IN
    /\ stack' = rest
    /\ \/ /\ Closing(st1)
          /\ state' = st1
          /\ UNCHANGED <<h, micro>>
       \/ /\ ~Closing(st1) /\ ~ok
          /\ state' = st1
          /\ micro' = Append(micro, "error")
          /\ h' = h
       \/ /\ ~Closing(st1) /\ ok
          /\ \E res \in bare_dgram_connect(h) :
                /\ h' = res.h
                /\ state' = IF res.err THEN st1 ELSE st1 \cup {"CONNECTED"}
                /\ micro' = Append(micro, IF res.err THEN "error" ELSE "connect")

resolveConnect(st, rest) ==
    \/ \E ok \in BOOLEAN : connectResolved(st, ok, rest) /\ lookups' = lookups
    \/ /\ lookups' = lookups \cup {"connect"}
       /\ state' = st
       /\ stack' = rest
       /\ UNCHANGED <<h, micro>>
    \/ /\ LookupThrows
       /\ state' = st
       /\ stack' \in Unwound(rest)
       /\ UNCHANGED <<h, micro, lookups>>

-----------------------------------------------------------------------------
(* Binding: the operators take the values the step has reached, as one      *)
(* step may set the state, queue a function and bind.                       *)

\* Mutant: the end of a bind starts to read whether or not the socket is paused.
resumedAnyway(hh, st, pz) ==
    IF "READING" \in st THEN {[err |-> FALSE, h |-> hh, state |-> st]}
    ELSE {[err |-> res.err, h |-> res.h, state |-> st \cup {"READING"}] :
             res \in bare_dgram_resume(hh)}

\* _resume; the bit is set before the native call, which may throw.
resumed(hh, st, pz) ==
    IF pz \/ "READING" \in st THEN {[err |-> FALSE, h |-> hh, state |-> st]}
    ELSE {[err |-> res.err, h |-> res.h, state |-> st \cup {"READING"}] :
             res \in bare_dgram_resume(hh)}

\* The queue is taken and run once the socket reads; the name of the socket or
\* its buffer sizes may be refused, and are if it was closed, for the sizes are
\* options.  What throws here leaves the queue alone.
onbind(hh, st, pz, pend, rest) ==
    LET st1 == (st \cup {"BOUND"}) \ {"BINDING"} IN
    /\ micro' = micro
    /\ \/ /\ OsFaults \/ Closing(st)
          /\ state' = st1 /\ h' = hh /\ pending' = pend
          /\ stack' \in Unwound(rest)
       \/ \E res \in resumed(hh, st1, pz) :
             /\ state' = res.state /\ h' = res.h
             /\ IF res.err
                THEN pending' = pend /\ stack' \in Unwound(rest)
                ELSE pending' = <<>> /\ stack' = Push("bound", pend, rest)

\* Mutant: the socket stops binding at once, not when the failure is reported.
onbinderrorEarly(hh, st, pend, rest) ==
    /\ state' = st \ {"BINDING"}
    /\ h' = hh
    /\ pending' = pend
    /\ micro' = Append(micro, "binderror")
    /\ stack' = rest

onbinderror(hh, st, pend, rest) ==
    /\ state' = st
    /\ h' = hh
    /\ pending' = pend
    /\ micro' = Append(micro, "binderror")
    /\ stack' = rest

bindWith(results, st, pz, pend, rest) ==
    \E res \in results :
        IF res.err THEN onbinderror(res.h, st, pend, rest)
                   ELSE onbind(res.h, st, pz, pend, rest)

\* The half of _bindMaybe for a socket that is not bound: the function is queued,
\* and the socket is bound to the wildcard address unless it is binding.
bindMaybe(fn, st, pz) ==
    LET pend == Append(pending, fn) IN
    /\ "BOUND" \notin st
    /\ \/ /\ "BINDING" \in st
          /\ state' = st /\ pending' = pend
          /\ UNCHANGED <<h, micro, stack>>
       \/ /\ "BINDING" \notin st
          /\ bindWith(bare_dgram_bind(h), st \cup {"BINDING"}, pz, pend, stack)
    /\ UNCHANGED <<sends, settled, lookups>>

-----------------------------------------------------------------------------
(* The calls of the program *)

bind ==
    LET st == state \cup {"BINDING"} IN
    /\ state \cap {"BINDING", "BOUND"} = {} /\ ~Closing(state)
    /\ Len(micro) < MaxMicro
    /\ \/ /\ bindWith(bare_dgram_open(h), st, paused, pending, stack)
          /\ lookups' = lookups
       \/ /\ bindWith(bare_dgram_bind(h), st, paused, pending, stack)
          /\ lookups' = lookups
       \/ /\ onbinderror(h, st, pending, stack)
          /\ lookups' = lookups
       \/ /\ lookups' = lookups \cup {"bind"}
          /\ state' = st
          /\ UNCHANGED <<h, pending, micro, stack>>
       \/ /\ LookupThrows
          /\ state' = st
          /\ UNCHANGED <<h, pending, micro, stack, lookups>>
    /\ UNCHANGED <<paused, sends, issued, settled>>

connect ==
    LET st == state \cup {"CONNECTING"} IN
    /\ state \cap {"CONNECTING", "CONNECTED"} = {} /\ ~Closing(state)
    /\ Len(pending) < MaxPending /\ Len(micro) < MaxMicro
    /\ \/ /\ "BOUND" \in st
          /\ resolveConnect(st, stack)
          /\ UNCHANGED <<pending, sends, settled>>
       \/ bindMaybe("connect", st, paused)
    /\ UNCHANGED <<paused, issued>>

\* Mutant: the bit is cleared before the native call, which may throw.
disconnectFirst ==
    /\ "CONNECTED" \in state
    /\ \E res \in bare_dgram_disconnect(h) : h' = res.h
    /\ state' = state \ {"CONNECTED"}
    /\ UNCHANGED <<paused, pending, sends, lookups, micro, stack, issued, settled>>

disconnect ==
    /\ "CONNECTED" \in state
    /\ \E res \in bare_dgram_disconnect(h) :
          /\ h' = res.h
          /\ state' = IF res.err THEN state ELSE state \ {"CONNECTED"}
    /\ UNCHANGED <<paused, pending, sends, lookups, micro, stack, issued, settled>>

\* A connected socket is bound (StateBits), so a request that has to wait for
\* the bind always has an address to resolve.
send(r) ==
    /\ r \notin issued /\ ~Closing(state)
    /\ issued' = issued \cup {r}
    /\ \/ /\ "CONNECTED" \in state
          /\ handOver(r, FALSE, stack)
          /\ UNCHANGED <<state, pending, lookups, micro>>
       \/ /\ "CONNECTED" \notin state /\ "BOUND" \in state
          /\ resolveSend(r, stack)
          /\ UNCHANGED <<state, pending, micro>>
       \/ /\ "CONNECTED" \notin state
          /\ bindMaybe(r, state, paused)
    /\ paused' = paused

pause ==
    /\ paused' = TRUE
    /\ IF "READING" \in state /\ ~Closing(state)
       THEN state' = state \ {"READING"} /\ h' = bare_dgram_pause(h)
       ELSE UNCHANGED <<state, h>>
    /\ UNCHANGED <<pending, sends, lookups, micro, stack, issued, settled>>

resume ==
    /\ paused' = FALSE
    /\ \/ /\ Closing(state)
          /\ UNCHANGED <<state, pending, sends, h, lookups, micro, stack, settled>>
       \/ /\ ~Closing(state) /\ "BOUND" \in state
          /\ \E res \in resumed(h, state, FALSE) : state' = res.state /\ h' = res.h
          /\ UNCHANGED <<pending, sends, lookups, micro, stack, settled>>
       \/ /\ ~Closing(state) /\ Len(pending) < MaxPending /\ Len(micro) < MaxMicro
          /\ bindMaybe("resume", state, FALSE)
    /\ issued' = issued

\* Closing twice changes nothing; closing a closed socket calls back.
close ==
    \/ /\ "CLOSED" \in state /\ Len(micro) < MaxMicro
       /\ micro' = Append(micro, "onclose")
       /\ UNCHANGED <<state, paused, pending, sends, h, lookups, stack, issued, settled>>
    \/ /\ ~Closing(state)
       /\ state' = (state \ {"BINDING", "BOUND", "CONNECTING", "CONNECTED", "READING"})
                      \cup {"CLOSING"}
       /\ h' = bare_dgram_close(h)
       /\ UNCHANGED <<paused, pending, sends, lookups, micro, stack, issued, settled>>

\* Mutant: an option is set without a look at the state.
setOptionUnchecked ==
    /\ \E res \in bare_dgram_set_option(h) : h' = res.h
    /\ UNCHANGED <<state, paused, pending, sends, lookups, micro, stack, issued, settled>>

\* Every option of the socket, multicast memberships and buffer sizes included.
setOption ==
    /\ ~Closing(state) /\ "BOUND" \in state
    /\ \E res \in bare_dgram_set_option(h) : h' = res.h
    /\ UNCHANGED <<state, paused, pending, sends, lookups, micro, stack, issued, settled>>

ref ==
    /\ state' = state \ {"UNREFED"}
    /\ h' = IF Closing(state) THEN h ELSE bare_dgram_ref(h)
    /\ UNCHANGED <<paused, pending, sends, lookups, micro, stack, issued, settled>>

unref ==
    /\ state' = state \cup {"UNREFED"}
    /\ h' = IF Closing(state) THEN h ELSE bare_dgram_unref(h)
    /\ UNCHANGED <<paused, pending, sends, lookups, micro, stack, issued, settled>>

\* A pipe accepts a descriptor onto the handle, then tells the socket.  Neither the
\* socket nor libuv looks whether it was closed; LateAccept says if the pipe does.
ipcAccept ==
    /\ LateAccept \/ ~Closing(state)
    /\ \E res \in bare_dgram_open(h) :
          ~res.err /\ onbind(res.h, state, paused, pending, stack)
    /\ UNCHANGED <<paused, sends, lookups, issued, settled>>

UserCall ==
    /\ InUserCode
    /\ \/ "bind" \in Calls /\ bind
       \/ "connect" \in Calls /\ connect
       \/ "disconnect" \in Calls /\ disconnect
       \/ "send" \in Calls /\ \E r \in Req : send(r)
       \/ "pause" \in Calls /\ pause
       \/ "resume" \in Calls /\ resume
       \/ "close" \in Calls /\ close
       \/ "setOption" \in Calls /\ setOption
       \/ "ref" \in Calls /\ ref
       \/ "ref" \in Calls /\ unref
       \/ "ipcAccept" \in Calls /\ ipcAccept

Return ==
    /\ InUserCode
    /\ stack' = Tail(stack)
    /\ UNCHANGED <<state, paused, pending, sends, h, lookups, micro, issued, settled>>

\* An exception ends the user code that throws and the flushes it ran in.
Throw ==
    /\ Throws /\ InUserCode
    /\ stack' \in Unwound(Tail(stack))
    /\ UNCHANGED <<state, paused, pending, sends, h, lookups, micro, issued, settled>>

-----------------------------------------------------------------------------
(* flush, one function at a time: each may run user code before the next *)

\* The functions are called without an error once the socket is bound, even if
\* one of them closes it.
flushNext ==
    /\ InFlush("bound") /\ Head(stack).fns # <<>>
    /\ LET fn == Head(Head(stack).fns)
           rest == Push("bound", Tail(Head(stack).fns), Tail(stack))
       IN \/ /\ fn \in Req
             /\ resolveSend(fn, rest)
             /\ UNCHANGED <<state, micro>>
          \/ /\ fn = "connect"
             /\ resolveConnect(state, rest)
             /\ UNCHANGED <<sends, settled>>
          \/ /\ fn = "resume"
             /\ \E res \in resumed(h, state, paused) :
                   /\ state' = res.state /\ h' = res.h
                   /\ IF res.err THEN stack' \in Unwound(rest) ELSE stack' = rest
             /\ UNCHANGED <<sends, lookups, micro, settled>>
    /\ UNCHANGED <<paused, pending, issued>>

\* Mutant: connect does not give up when the bind it waited for fails.
flushErrorConnecting ==
    /\ InFlush("failed") \/ InFlush("closed")
    /\ Head(stack).fns # <<>>
    /\ LET fn == Head(Head(stack).fns)
           rest == Push(Head(stack).kind, Tail(Head(stack).fns), Tail(stack))
       IN IF fn \in Req THEN callback(fn, rest)
                        ELSE stack' = rest /\ settled' = settled
    /\ UNCHANGED <<state, paused, pending, sends, h, lookups, micro, issued>>

\* With an error a send calls back, connect gives up and resume does nothing.
flushError ==
    /\ InFlush("failed") \/ InFlush("closed")
    /\ Head(stack).fns # <<>>
    /\ LET fn == Head(Head(stack).fns)
           rest == Push(Head(stack).kind, Tail(Head(stack).fns), Tail(stack))
       IN /\ IF fn \in Req THEN callback(fn, rest)
                           ELSE stack' = rest /\ settled' = settled
          /\ state' = IF fn = "connect" THEN state \ {"CONNECTING"} ELSE state
    /\ UNCHANGED <<paused, pending, sends, h, lookups, micro, issued>>

flushDone ==
    /\ stack # <<>> /\ Head(stack).fns = <<>>
    /\ \/ /\ InFlush("bound")
          /\ micro' = Append(micro, "listening")
          /\ stack' = Tail(stack)
       \/ /\ InFlush("failed")
          /\ stack' = IF "CLOSED" \in state THEN Tail(stack) ELSE Call("error", Tail(stack))
          /\ micro' = micro
       \/ /\ InFlush("closed")
          /\ stack' = Call("close", Tail(stack))
          /\ micro' = micro
    /\ UNCHANGED <<state, paused, pending, sends, h, lookups, issued, settled>>

-----------------------------------------------------------------------------
(* Microtasks *)

\* Mutant: 'listening' and 'connect' are emitted though the socket was closed.
runMicrotaskUnchecked ==
    /\ stack = <<>> /\ micro # <<>> /\ Head(micro) # "binderror"
    /\ micro' = Tail(micro)
    /\ stack' = Call(Head(micro), <<>>)
    /\ UNCHANGED <<state, paused, pending, sends, h, lookups, issued, settled>>

\* Mutant: the microtask of a failed bind only emits an event, like the others.
runMicrotaskAlike ==
    /\ stack = <<>> /\ micro # <<>>
    /\ micro' = Tail(micro)
    /\ stack' = IF Head(micro) \in {"listening", "connect"} /\ Closing(state)
                THEN <<>> ELSE Call(Head(micro), <<>>)
    /\ UNCHANGED <<state, paused, pending, sends, h, lookups, issued, settled>>

\* A microtask that emits an event, or the callback of a close.
runMicrotask ==
    /\ stack = <<>> /\ micro # <<>> /\ Head(micro) # "binderror"
    /\ micro' = Tail(micro)
    /\ stack' = IF Head(micro) \in {"listening", "connect"} /\ Closing(state)
                THEN <<>> ELSE Call(Head(micro), <<>>)
    /\ UNCHANGED <<state, paused, pending, sends, h, lookups, issued, settled>>

\* The microtask of onbinderror.
runBindError ==
    /\ stack = <<>> /\ micro # <<>> /\ Head(micro) = "binderror"
    /\ micro' = Tail(micro)
    /\ state' = state \ {"BINDING"}
    /\ pending' = <<>>
    /\ stack' = Push("failed", pending, <<>>)
    /\ UNCHANGED <<paused, sends, h, lookups, issued, settled>>

-----------------------------------------------------------------------------
(* Callbacks of the event loop *)

\* The program gets a turn of its own, from a timer or another module.
userTurn ==
    /\ Idle /\ ~h.exiting
    /\ stack' = Call("turn", <<>>)
    /\ UNCHANGED <<state, paused, pending, sends, h, lookups, micro, issued, settled>>

\* Mutant: bind drops the error of its lookup.
lookupBindSilent(ok) ==
    /\ Idle /\ ~h.exiting /\ "bind" \in lookups
    /\ lookups' = lookups \ {"bind"}
    /\ IF ok /\ ~Closing(state)
       THEN bindWith(bare_dgram_bind(h), state, paused, pending, <<>>)
       ELSE UNCHANGED <<state, pending, h, micro, stack>>
    /\ UNCHANGED <<paused, sends, issued, settled>>

\* Mutant: bind does not look whether the socket was closed during the lookup.
lookupBindLate(ok) ==
    /\ Idle /\ ~h.exiting /\ "bind" \in lookups
    /\ lookups' = lookups \ {"bind"}
    /\ IF ok THEN bindWith(bare_dgram_bind(h), state, paused, pending, <<>>)
             ELSE onbinderror(h, state, pending, <<>>)
    /\ UNCHANGED <<paused, sends, issued, settled>>

lookupBind(ok) ==
    /\ Idle /\ ~h.exiting /\ "bind" \in lookups
    /\ lookups' = lookups \ {"bind"}
    /\ \/ /\ Closing(state)
          /\ UNCHANGED <<state, pending, h, micro, stack>>
       \/ /\ ~Closing(state) /\ ~ok
          /\ onbinderror(h, state, pending, <<>>)
       \/ /\ ~Closing(state) /\ ok
          /\ bindWith(bare_dgram_bind(h), state, paused, pending, <<>>)
    /\ UNCHANGED <<paused, sends, issued, settled>>

lookupConnect(ok) ==
    /\ Idle /\ ~h.exiting /\ "connect" \in lookups
    /\ lookups' = lookups \ {"connect"}
    /\ connectResolved(state, ok, <<>>)
    /\ UNCHANGED <<paused, pending, sends, issued, settled>>

lookupSend(r, ok) ==
    /\ Idle /\ ~h.exiting /\ r \in lookups
    /\ lookups' = lookups \ {r}
    /\ sendResolved(r, ok, <<>>)
    /\ UNCHANGED <<state, paused, pending, micro, issued>>

onmessage(err) ==
    /\ Idle /\ CanReceive(h)
    /\ stack' = Call(IF err THEN "error" ELSE "message", <<>>)
    /\ UNCHANGED <<state, paused, pending, sends, h, lookups, micro, issued, settled>>

\* Mutant: a request that completed stays in _sends.
onsendKept(err) ==
    LET r == Head(h.queue) IN
    /\ Idle /\ CanCompleteSend(h)
    /\ h' = bare_dgram__on_send(h)
    /\ settled' = IF h.exiting THEN settled ELSE settled \cup {r}
    /\ stack' = IF r \in WithCb /\ ~h.exiting THEN Call("callback", <<>>) ELSE <<>>
    /\ UNCHANGED <<state, paused, pending, sends, lookups, micro, issued>>

\* Once the environment exits the handle still completes its requests, but no
\* longer calls JavaScript.
onsend(err) ==
    LET r == Head(h.queue) IN
    /\ Idle /\ CanCompleteSend(h)
    /\ h' = bare_dgram__on_send(h)
    /\ \/ /\ h.exiting \/ r \notin sends
          /\ UNCHANGED <<sends, settled, stack>>
       \/ /\ ~h.exiting /\ r \in sends
          /\ sends' = sends \ {r}
          /\ settled' = settled \cup {r}
          /\ stack' = IF r \in WithCb THEN Call("callback", <<>>)
                      ELSE IF err /\ ~Closing(state) THEN Call("error", <<>>)
                      ELSE <<>>
    /\ UNCHANGED <<state, paused, pending, lookups, micro, issued>>

\* Mutant: the functions still queued are dropped when the socket has closed.
oncloseUnflushed ==
    /\ Idle /\ CanClose(h)
    /\ h' = bare_dgram__on_close(h)
    /\ IF h.exiting \/ h'.loop = "aborted"
       THEN UNCHANGED <<state, pending, sends, stack>>
       ELSE /\ state' = (state \cup {"CLOSED"}) \ {"CLOSING"}
            /\ sends' = {}
            /\ pending' = <<>>
            /\ stack' = Call("close", <<>>)
    /\ UNCHANGED <<paused, lookups, micro, issued, settled>>

onclose ==
    /\ Idle /\ CanClose(h)
    /\ h' = bare_dgram__on_close(h)
    /\ IF h.exiting \/ h'.loop = "aborted"
       THEN UNCHANGED <<state, pending, sends, stack>>
       ELSE /\ state' = (state \cup {"CLOSED"}) \ {"CLOSING"}
            /\ sends' = {}
            /\ pending' = <<>>
            /\ stack' = Push("closed", pending, <<>>)
    /\ UNCHANGED <<paused, lookups, micro, issued, settled>>

onteardown ==
    /\ "teardown" \in Calls
    /\ Idle /\ ~h.exiting /\ h.loop # "closed"
    /\ h' = bare_dgram__on_teardown(h)
    /\ UNCHANGED <<state, paused, pending, sends, lookups, micro, stack, issued, settled>>

-----------------------------------------------------------------------------
Next ==
    \/ UserCall \/ Return \/ Throw
    \/ flushNext \/ flushError \/ flushDone
    \/ runMicrotask \/ runBindError
    \/ userTurn
    \/ \E ok \in BOOLEAN : lookupBind(ok) \/ lookupConnect(ok)
    \/ \E r \in Req, ok \in BOOLEAN : lookupSend(r, ok)
    \/ \E err \in BOOLEAN : onmessage(err) \/ onsend(err)
    \/ onclose
    \/ onteardown

Spec == Init /\ [][Next]_vars

(***************************************************************************)
(* Fairness.  LoopTurns says that user code lets the event loop turn: it   *)
(* neither runs forever nor feeds the microtask queue forever.  The loop   *)
(* then delivers what is due, the close callback, the completion of a      *)
(* send, the answer of a lookup; fairness is strong, for the program may   *)
(* take any number of turns in between.                                    *)
(***************************************************************************)
LoopTurns == []<>(stack = <<>> /\ micro = <<>>)

Fairness ==
    /\ SF_vars(\E ok \in BOOLEAN : lookupBind(ok))
    /\ SF_vars(\E ok \in BOOLEAN : lookupConnect(ok))
    /\ \A r \in Req : SF_vars(\E ok \in BOOLEAN : lookupSend(r, ok))
    /\ SF_vars(\E err \in BOOLEAN : onsend(err))
    /\ SF_vars(onclose)

FairSpec == Spec /\ Fairness /\ LoopTurns

-----------------------------------------------------------------------------
(* Properties *)

\* The fields of the socket and its handle hold values of their kinds.
TypeOK ==
    /\ state \subseteq Bits
    /\ paused \in BOOLEAN
    /\ pending \in Seq(Fn)
    /\ sends \subseteq Req
    /\ h \in Handle
    /\ lookups \subseteq {"bind", "connect"} \cup Req
    /\ micro \in Seq(Micro)
    /\ stack \in Seq(Frame)
    /\ issued \subseteq Req
    /\ settled \subseteq Req

\* The bits of _state never contradict each other, whatever callbacks run in
\* between the calls that set them: a connected socket is bound, a bound one no
\* longer binding, and a socket that closes has left all of that behind, also
\* when a lookup of bind or connect answers late.  It only is bound again if a
\* pipe accepts onto it.  (READING is not in the list: see NoRevival.)
StateBits ==
    /\ "CONNECTED" \in state => "BOUND" \in state
    /\ ~({"BINDING", "BOUND"} \subseteq state)
    /\ ~({"CLOSING", "CLOSED"} \subseteq state)
    /\ Closing(state) => state \cap {"BINDING", "CONNECTING", "CONNECTED"} = {}
    /\ Closing(state) /\ ~LateAccept => "BOUND" \notin state

\* The microtask that reports a failed bind is queued in m.
ReportsBind(m) == \E i \in DOMAIN m : m[i] = "binderror"

\* A socket is only ever binding while something is due that will end it: a
\* lookup in flight, or the microtask that reports the failure.  (A lookup that
\* throws is neither.)
BindingHasOwner ==
    "BINDING" \in state => "bind" \in lookups \/ ReportsBind(micro)

\* A function is only ever queued while a flush is due: at the end of the bind
\* in progress, or when the socket has closed.  Otherwise it would wait forever.
PendingHasFlusher ==
    pending # <<>> => "BINDING" \in state \/ "CLOSING" \in state

\* A socket is only ever connecting while the function of connect is queued,
\* about to be called, or waits for its lookup.
ConnectingHasOwner ==
    "CONNECTING" \in state =>
        \/ "connect" \in lookups
        \/ \E i \in DOMAIN pending : pending[i] = "connect"
        \/ \E k \in DOMAIN stack : \E i \in DOMAIN stack[k].fns : stack[k].fns[i] = "connect"

\* Where a request is: each element is one chance to report its outcome, or
\* the outcome reported.
Places(r) ==
    {<<"pending", 0, i>> : i \in {j \in DOMAIN pending : pending[j] = r}}
    \cup (UNION {{<<"flush", k, i>> : i \in {j \in DOMAIN stack[k].fns : stack[k].fns[j] = r}} :
                    k \in DOMAIN stack})
    \cup (IF r \in lookups THEN {<<"lookup", 0, 0>>} ELSE {})
    \cup (IF r \in sends THEN {<<"sends", 0, 0>>} ELSE {})
    \cup (IF r \in settled THEN {<<"settled", 0, 0>>} ELSE {})

\* No request can be reported twice: it is never both reported and still queued,
\* being flushed, resolved or in flight, nor in two of these at once.
SettledOnce == \A r \in Req : Cardinality(Places(r)) <= 1

\* No request gets lost on the way from send through the queue, the flush, the
\* lookup and the handle: what was accepted is somewhere or was reported.
NoRequestLost == \A r \in issued : Places(r) # {}

\* _sends holds exactly the requests that the handle has yet to complete, so
\* every completion finds its request and the close callback clears none.
SendsMatchQueue ==
    ~h.exiting =>
        /\ sends = {h.queue[i] : i \in DOMAIN h.queue}
        /\ Cardinality(sends) = Len(h.queue)

\* No datagram is handed to the handle of a socket that was closed, even if it
\* was accepted before and its bind or lookup ended after.
NoSendAfterClose ==
    [][Len(h'.queue) > Len(h.queue) => ~h.closing /\ h.loop = "active"]_vars

\* A closing handle never gets a descriptor again, which libuv aborts on.
NoRevival == ~Revived(h) /\ h.loop # "aborted"

\* While the socket is open, `connected` tells what libuv thinks of the handle.
ConnectedSync == ~Closing(state) => ("CONNECTED" \in state <=> h.conn)

\* A bound socket that is open reads unless it is paused, as the handle does, in
\* whatever order pause, resume and the end of the bind come.
ReadingSync ==
    "BOUND" \in state /\ ~Closing(state) /\ ~h.exiting =>
        /\ "READING" \in state <=> ~paused
        /\ h.reading <=> ~paused

\* The half of it that is left if the handle refuses to read, which READING, set
\* before, does not tell: the handle of a paused socket never reads, and pause()
\* can always see from READING that there is something to stop.
PauseHeeded ==
    ~Closing(state) /\ ~h.exiting /\ h.reading => "READING" \in state /\ ~paused

\* The requests whose outcome is open.
Unsettled == issued \ settled

\* The socket has closed, and told the functions queued on it.
HasClosed ==
    "CLOSED" \in state /\ \A k \in DOMAIN stack : stack[k].kind # "closed"

\* When 'close' is emitted the outcome of every send was reported, but for those
\* that still wait for a lookup, and the native handle is gone.
CloseSettles ==
    HasClosed => Unsettled \subseteq lookups /\ h.loop = "closed"

\* What the README says of close: every pending send is settled before.
CloseSettlesAll == HasClosed => Unsettled = {}

\* A step that calls a listener of one of these events.
ListenerCalled(kinds) ==
    /\ stack' # stack /\ Len(stack') >= Len(stack)
    /\ stack' # <<>> /\ Head(stack').kind \in kinds

\* After close() the program hears no more of the bind, the connect or the
\* datagrams that were under way, in whatever queue they were; and 'close' is
\* the last word, emitted once.
CloseSilences ==
    [][/\ Closing(state) => ~ListenerCalled({"listening", "connect", "message"})
       /\ HasClosed => ~ListenerCalled({"close"})]_vars

\* Every send that was accepted is reported in the end.
SendSettles == \A r \in Req : r \in issued ~> r \in settled

\* Closing comes to an end, with the functions queued on the socket told.
CloseCompletes == "CLOSING" \in state ~> HasClosed

\* So do binding and connecting, if only because the socket closes.
BindCompletes == "BINDING" \in state ~> "BINDING" \notin state
ConnectCompletes == "CONNECTING" \in state ~> "CONNECTING" \notin state

=============================================================================
