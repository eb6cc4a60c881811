# A TLA+ model of bare-dgram

bare-dgram gives the Bare JavaScript runtime UDP sockets: a class `Socket`
(`src/index.js`) over a native handle (`src/binding.c`) over libuv. This
directory holds a model of it, the TLC configurations that check the model on
small instances, and theorems about it that TLAPS proves for every instance.

## The system

| part | state | operations | talks to |
|------|-------|------------|----------|
| `Socket`, `index.js` | `_state` (eight bits), `_paused`, `_pending` (functions waiting for the bind), `_sends` (requests handed to the handle) | `bind`, `connect`, `disconnect`, `send`, `pause`, `resume`, `close`, `ref`, `unref`, the options, `[ipcAccept]` | calls the binding; calls user code from callbacks and listeners |
| native handle, `binding.c` | `bare_dgram_t`: the libuv handle, `closing`, `exiting` | one function per call of the socket; `on_message`, `on_send`, `on_close`, `on_teardown` | calls libuv; is called by the event loop |
| `lookup` (`bare-dns` or the program's) | lookups in flight | answers at once or turns later | calls back into `bind`, `connect`, `send` |
| event loop and microtask queue | callbacks and microtasks due | the turns of the loop; microtasks drained after each | calls both halves |
| reception, `on_alloc`, `on_message`, `_onmessage` | `_buffer`, one for all datagrams | one call per datagram libuv reads, several per turn of the loop | copies the datagram, calls listeners |
| numbering of sends | `_sendId`, `_sends`; `bare_dgram_send_t.id` | `_send`, `_onsend`, `_onclose` | the id goes to the handle and comes back with the completion |
| arguments and addresses | `_family` | `sliceBuffer`, `validate…`, `_resolve`, `_wildcard`, `_loopback`; `get_address`, `to_sockaddr` | decide what reaches the lookup and the handle |
| `lib/ip.js` | none | `isIPv4`, `isIPv6`, `isIP` | |
| `lib/constants.js`, `lib/errors.js` | none | bits, error codes | |
| types, tests, build files | none | | |

Everything runs on one thread, so no two instructions race. What is hard is
that the socket is entered again and again at points at which it is halfway
through something:

* **Re-entrancy.** `_flush` calls the queued functions in a loop. Each may call
  the callback of a send, which may call any method of the socket, close it
  included, before the loop goes on.
* **Late answers.** A lookup answers turns after `bind`, `connect` or `send`
  asked for it; the socket may have been closed or connected since. Each of
  the three checks again, and not in the same order.
* **Microtasks.** `'listening'`, `'connect'` and the failure of a bind are
  reported in a microtask, so that listeners can still be added. In between
  runs whatever the program does in the same turn; a failed bind therefore
  keeps `BINDING` until it is reported.
* **Two lives.** The `Socket` is closing, then closed; the handle is closing in
  libuv, completes or cancels its sends, then is gone; the environment may be
  torn down around both. libuv aborts if a closing handle gets a descriptor
  again or is closed twice.
* **Partial failure.** Native calls throw after bits have been set; user code
  throws in the middle of a flush, and so may the lookup, in the middle of a
  call.
* **One buffer.** libuv reads several datagrams per turn into the one buffer of
  the socket, and a listener may pause or close the socket between two of them.
* **Numbers at their limit.** Ids of sends wrap; offsets and lengths are reduced
  to 32 bits; an address may fill the native buffer to its last byte.
* **Arguments by position.** `send` has five optional arguments, told apart by
  what is truthy, and by whether the socket is connected.

What makes each part correct:

* socket: its bits never contradict each other; whatever waits is waited for
  (a bind, a connect, a queued function); a send is reported once and before
  `'close'`; nothing is sent and nothing announced after `close()`;
* handle: closed once, no descriptor once it is closing, and in step with what
  the socket believes about it (bound, connected, reading, sends in flight);
* lookup: its answer changes nothing on a socket that was closed meanwhile, and
  is an address of its own family before it reaches the handle;
* reception: each datagram read gives one event, in order, with bytes that stay;
  none comes after `pause()` or `close()`, and all come after `resume()`;
* numbering: a completion finds its own request;
* arguments: what a call means is what is sent, and inside the message;
* addresses: the default is of the family of the socket; what goes to the handle
  fits its buffer; an address is never taken for a name, nor the reverse.

`PROJECT.json` lists under "hazards" each place in the code where one of these
could go wrong, with the properties that would show it.

## The modules

| module | what it is |
|--------|------------|
| `Binding` | the native handle as a record, and every native call as an operator from a handle to the set of its possible results |
| `DgramSocket` | the socket: variables, one action per method, callback and microtask, the specification, the properties |
| `SendContract`, `SocketLifecycle` | abstract specifications: what a program may rely on between `send`, `close` and their callbacks; the lives of `bound`, `connected`, `closing`, `closed` |
| `DgramSocketRefinement` | the mappings under which `DgramSocket` implements both |
| `DgramSocketInv` | the inductive invariants `Inductive`, `Synced`, `Traced`, `ConnectOwned` |
| `MCDgramSocket` | the sets of calls that the runs let the program make |
| `Reception`, `MCReception` | datagrams from the operating system to the listener, over the read buffer; the lengths for its run |
| `SendIds`, `MCSendIds` | the ids of sends, which `DgramSocket` leaves out: why a completion may name its request there; the numbers for its run |
| `IPAddress` | operators: the patterns of `lib/ip.js`, and RFC 4291 to compare them with |
| `SendArguments`, `MCSendArguments` | how `send` reads its arguments, and which hosts it takes for addresses; the numbers and texts for its runs |
| `Addressing`, `MCAddressing` | which address and family reach the handle; the texts for its run |
| `DgramSocketProofs` | lemmas about the native calls; type correctness |
| `DgramSocketSafety` | `Inductive` and what follows from it; `Synced`: what the socket knows of its handle |
| `DgramSocketRequests` | `Traced` and `ConnectOwned`: where the requests are, and the function of `connect` |
| `DgramSocketRefinementProofs` | that `DgramSocket` implements `SocketLifecycle` and `SendContract` |
| `ReceptionProofs`, `SendIdsProofs`, `AddressingProofs` | theorems of these modules |
| `SendArgumentsProofs` | theorems of `SendArguments`, and of `IPAddress` through it |

`DgramSocket` composes the socket, the handle, the lookups and the loop, and is
where calls interleave. The others each take one concern that it leaves out and
give it the state it needs: `Reception` and `SendIds` refine what happens
between the handle and the socket, `SendArguments` and `Addressing`, over
`IPAddress`, what happens before a call reaches either.

### How the state corresponds to the code

| variable | code |
|----------|------|
| `state`, `paused`, `pending`, `sends` | `_state`, `_paused`, `_pending`, `_sends`. A queued function is named after its caller: `"connect"`, `"resume"`, or the request of a send |
| `h` | `bare_dgram_t` and its libuv handle: phase of the loop, descriptor, connected and reading flags, queue of sends, `closing`, `exiting`, `ref` |
| `lookups` | the calls of `_lookup` that have not called back |
| `micro` | the microtasks queued by `_onbind`, `_onbinderror`, `connect`, `close` |
| `stack` | the JavaScript frames that matter: user code by the event or callback that runs it, and flushes with the functions left to call |
| `issued`, `settled` | history, not in the code: the sends accepted, and those whose outcome was reported or, without a callback, dropped |

A method that calls user code last is one step that pushes a frame for it: the
program then makes calls until it returns. `_flush` is the only place that
calls user code and goes on, so it has a frame of its own (`bound` in
`_onbind`, `failed` in `_onbinderror`, `closed` in `_onclose`) and takes a step
per function. The calls `_bindMaybe`, `bind`, `_onbind` and `_resume` nested in
one method are operators composed within its step, as no user code runs in
between. A native call that may fail yields a set of results; a step takes one.

Microtasks run when the stack is empty, and the event loop calls back when both
are: `Idle`. An exception (`Throws`) drops the frames up to the next user code,
which may catch it, with whatever those flushes had left.

A call that throws on its own checks (an option on an unbound socket, `bind` on
a bound one) changes nothing, and is not a step.

In `Reception` the bytes of a datagram are the number of its arrival: a message
that was copied keeps that number, a view of the buffer (`Shared`) shows the
number of whatever was read last. libuv's loop over `recvmsg` is `poll`: how
many datagrams it may still read before it lets the loop go on.

In `SendIds` a request is the number of its `_send`, and an entry of `inflight`
is `bare_dgram_send_t`: the id that came back from 32 bits, next to the request.

In `SendArguments` a value of JavaScript is its type and a number, enough to
tell falsy from truthy, and the messages are their bytes `1..Size`. `Init` picks
a call by what it means (`Meaning`) and lays out its arguments; `send` reads them
back without knowing. It picks every documented form with one host, and one plain
call for every text a host may be. `reading` is the overload that was called,
`checks` what `send` checks in its order: the first that fails is thrown, and if
none does, `request` is sent.

In `IPAddress` a text is dotted, segments that are sequences of digits; or it has
colons, between which a field is empty, a group or a dotted address; or it is a
name. The patterns become sets of sequences, which is what a regular expression
without `*` is.

In `Addressing` a text is one of these with its length in characters and in
bytes. `given` holds what the last step handed to the handle; the properties
are about that. `domain` is the family of the descriptor under the handle, which
a failed bind may leave behind. A handle without one may be given it by `bind`, by
`bind({ fd })`, or by a pipe (`ipcAccept`) at any time: before a bind, while it is
looked up, and while its failure waits to be reported. A task is `early` if `connect`
picked its default address while the socket had no family.

What libuv does is not in the repository. `Binding` models it from the way
`binding.c` uses it and from what the tests say of it: it opens a descriptor
lazily for `type: null`, and anew, on a closing handle, for a read or an option
(`src/test.js:1591`); it completes sends in order, and cancels the rest before
it calls `on_close`; it rejects an address on a connected handle and a missing
one on an unconnected handle.

## What is checked

The runs `reentry`, `faults` and `progress` are of `MCDgramSocket`. Its
constants: `Req` the requests, `WithCb` those with a callback, `Calls` the
methods the program uses, `Deferred` whether the socket was created with
`type: null`, `PeerFd` whether adopted descriptors may be connected, `OsFaults`
whether the system calls at the end of a bind may fail, `Throws` whether user
code may throw, `LookupThrows` whether the lookup may, in the call that asks it, and
`LateAccept` whether a pipe may accept a descriptor onto a socket that was closed.

`LateAccept` is an assumption about the program and its pipe. Neither `[ipcAccept]`
nor `_onbind` (`src/index.js:527`, `630`) looks at `CLOSING` or `CLOSED`, and libuv
opens a handle that is closing if asked to, so nothing in this repository keeps a
pipe from accepting onto a socket that was closed. `reentry` has it true: its
properties hold all the same, where `StateBits` then lets `BOUND` come back. `faults`
has it false, for `NoRevival` and `LifecycleSpec`, which are refuted with it (see
below); so have `progress` and the runs that expect a violation, whose questions are
others. On a socket that is open a pipe may accept at any time in all of them.

| run | configuration | shows |
|-----|---------------|-------|
| `reentry` | 3 requests, 2 with callbacks, every call | the properties of the socket hold under every interleaving of calls, callbacks, microtasks, lookups and teardown, also where a pipe accepts onto a closed socket, and it implements `SendContract` |
| `faults` | 2 requests, every call but `resume`, exceptions of user code and lookup, failing system calls, connected descriptors, no accepting onto a closed socket | what still holds when anything may fail; libuv never aborts, and the socket implements `SocketLifecycle` |
| `progress` | 2 requests, fairness, the calls whose effects last | everything that was started ends |
| `reception` | 4 datagrams, empty, fitting or too long, or read errors; bursts of 2 | messages are in order and whole, pausing is immediate, resuming delivers |
| `send_ids` | 12 sends, ids modulo 4, up to 4 in flight | completions find their requests |
| `send_arguments` | every documented form, messages of 3 bytes, numbers around each limit; hosts of up to 5 segments, or 10 fields between colons | `send` does what the call means, or throws; a host is looked up exactly if RFC 4291 does not make it an address |
| `addressing` | every family, six texts, any answers | what reaches the handle |

The properties, with what they say (the modules say it at more length):

* `StateBits`: no contradiction among the bits; `close()` clears them and
  no late callback brings one back, except that a pipe may bring back `BOUND`.
* `BindingHasOwner`, `PendingHasFlusher`, `ConnectingHasOwner`: what is binding,
  queued or connecting has something due that ends it.
* `SettledOnce`, `NoRequestLost`: a request is in exactly one place (queue,
  flush, lookup, `_sends`, or reported).
* `SendsMatchQueue`, `ConnectedSync`, `ReadingSync`: what the socket believes
  of the handle. `PauseHeeded` is the half of `ReadingSync` that survives a handle
  that refuses to read: a paused one does not.
* `CloseSettles`: at `'close'`, only sends that wait for a lookup are
  unsettled, and the handle is gone.
* `NoSendAfterClose`, `CloseSilences`: action properties of `close()`.
* `NoRevival`: no descriptor on a closing handle, no double close.
* `SendSettles`, `CloseCompletes`, `BindCompletes`, `ConnectCompletes`: liveness.
* `ContractSpec`, `LifecycleSpec`: refinement.
* `NothingLost`, `SilentWhenPaused`, `Delivered`: one true event per datagram, in
  order; none while paused or closed; all of them in the end.
* `OwnRequest`, `AllTold`: ids and requests in flight are one to one; no outcome
  is lost.
* `AsMeant`, `Inside`, `PortChecked`, `DestinationRefused`: `send` reads a call as
  it is meant, never reads outside of the message, and refuses what the
  documentation says it refuses.
* `DecimalSegments`, `AnswersLikeRFC`: what `send` does with a host, against the
  definition of an address in place of the patterns of `isIP`.
* `Fits`, `ParsedAsItIs`, `DefaultFollowsSocket`, `AskedForFamily`: the handle gets
  addresses that leave room for their end in its buffer, of the family they are, and
  of the family it has; a default is of another family only where a `connect` picked
  IPv4 before the socket had a family, and was then given IPv6.

### Bounds

`MaxPending` (2) keeps the program from calling `connect` and `resume` while
that many functions are queued, and `MaxMicro` (2) from queueing microtasks
while that many are; each request is sent once. Sends are not held back by
`MaxPending`, so the queue may hold two functions and all the requests. A
hazard here needs a function that runs user code, one behind it that runs under
what that code did, and one that shows the damage: two requests with callbacks
and one without, next to `connect` and `resume`, give all the orders of these.
`progress` has both bounds at 1 to keep the temporal check small; the queue
still holds `connect` and two requests.

`send_ids` wraps its four ids three times. With `Span` equal to `Modulus` it is
at the limit: one send more in flight and an id would be given out twice. The
code has no such check; it relies on fewer than 2^32 sends being made while one
is in flight, which is the assumption of the model (`MaySend`).

`reception` needs a datagram that alters the buffer after one that was kept, a
pause between two of a burst, and a resume: four arrivals and bursts of two.
Lengths 0, `ReadBufferSize` and one more are the cases the code distinguishes.

`send_arguments` has offsets and lengths from -2 to one beyond the message and
next to the wrap of a word of 4 bits, and beyond it. A segment has up to four
digits, one more than any number up to 255, and the longest IPv6 text has nine
fields, so ten give every text that an alternative could wrongly accept by one
group. `addressing` has addresses of `MaxLength` bytes and of one more, which is the
size of the buffer, and names, of which one fits in characters and not in bytes.

`Deferred` is true where a run needs the descriptor to be adopted (`bind({ fd })`
and `ipcAccept` need a handle without one): a handle that has its descriptor at
once only loses the steps that adopt one, or open one late. The runs of
`MCDgramSocket` that expect a violation set it to false, to show that adopting plays no part in them.

`reentry` and `faults` say `CHECK_DEADLOCK FALSE`: once the environment has
exited and the handle is gone, or libuv has aborted, nothing more happens. So do
`send_arguments` and `falsy_port`, which are of one step, and `send_ids`, which
ends with its socket. The other runs check deadlock.

### Fairness

`FairSpec` assumes that user code lets the loop turn (`LoopTurns`: it neither
runs forever nor feeds the microtask queue forever), that every lookup answers,
and that libuv delivers completions and the close callback that are due. All but
the first are strong fairness, not weak: the program may take any number of turns
in between, during which these callbacks are not enabled. The calls of the program itself are
not fair, nor is the arrival of datagrams. Without a lookup that answers no
send is bound to settle, which is the code's own premise.

`Reception` is fair in the same way: user code returns, the loop goes on with a
poll it began, and polls a readable handle again and again (strongly, as the
program may take turns and pause in between). Nothing need arrive, and nothing
is required of the program.

## Where the code and its documentation part

Five are runs that TLC refutes; `PROJECT.json` quotes both sides.

1. `resume_close`: the function that `resume()` queues does not look whether the
   socket was closed before it runs. With `bind` waiting for a lookup, a send
   whose callback closes the socket and then `resume()`, it starts to read on
   the closing handle.
2. `close_settles_all`: a send that waits for a lookup outlives `'close'`. If that
   lookup fails, and the send has no callback, the closed socket emits `'error'`.
3. `bind_fault`: if the socket's name or a requested buffer size is refused,
   `bind` throws, or the lookup does, instead of emitting `'error'`, and what
   was queued waits until the socket is closed.
4. `throw`: an exception from one queued function drops the ones behind it.
5. `falsy_port`: on a socket that is not connected, `send(msg, 1, 0, 0)` is a send
   of the whole message to port 1, not a refusal. (`GivenPortChecked` is
   `PortChecked` for the calls that have a port.)

Seven more show when a constant, a bound or a property is changed, and have no run of
their own:

* with `PeerFd = TRUE` `reentry` refutes `ConnectedSync`: a socket that adopted a
  connected descriptor is not `connected`, whatever `src/README.md:80` says;
* with `LookupThrows = TRUE` it refutes `BindingHasOwner`: a lookup that throws
  leaves the socket binding until it is closed;
* with `OsFaults = TRUE` it refutes `ReadingSync`: `_resume` sets `READING` before
  the native call (`src/index.js:604-606`), and if that throws every later `resume()`
  returns at `READING`;
* with `LateAccept = TRUE` `faults` refutes `NoRevival` and `LifecycleSpec`: a pipe
  that accepts onto a socket which is closing gives the handle a descriptor, on which
  libuv aborts, and onto one which is closing or closed makes it `bound` again;
* without its last line `DefaultFollowsSocket` is refuted by `addressing`:
  `connect(port)` on a socket of `type: null` that is not bound yet picks `127.0.0.1`
  (`src/index.js:216`), and if the lookup of its bind or a pipe then makes it an IPv6
  socket, that is what its handle is given;
* with `FalsyPorts = TRUE` `send_arguments` refutes `DestinationRefused`: on a
  connected socket `send(msg, 0, host, cb)` is sent to the peer, and its callback
  is not called;
* an offset of 2^32 is taken for 0 (`ToUint32`), so a range outside of the message
  is not always refused; `AsMeant` only speaks of ranges inside of it.

The properties that fail there hold without the cause: `NoRevival` without
`resume` and late accepting (`faults`, and `NoAbort` below), and there
`LifecycleSpec`; `ConnectedSync`, `ReadingSync`, `BindingHasOwner`,
`PendingHasFlusher` and `NoRequestLost` in `reentry`, `CloseSettles` in place of
`CloseSettlesAll`; `PortChecked` and `DestinationRefused` in `send_arguments`, where a 0 in the
place of the port, or none, is left out; and `Inside` there for every range.

## What is proved

For every `Req`, `WithCb`, `Calls`, `LateAccept` and bound, from the assumptions of
`Binding` and `DgramSocket` alone (flags are Boolean, names are distinct):

| theorem | states | provided that |
|---------|--------|---------------|
| `TypeCorrect` | `[]TypeOK` | |
| `InductiveInvariant` | `[]Inductive` | |
| `StateBitsHold` | `[]StateBits` | |
| `BindingEnds` | `[]BindingHasOwner` | `LookupThrows = FALSE` |
| `PendingFlushed` | `[]PendingHasFlusher` | `OsFaults = FALSE` |
| `NoAbort` | `[]NoRevival` | `"resume" \notin Calls` and `LateAccept = FALSE` |
| `ClosedIsSilent` | `CloseSilences` | |
| `PeerKnown` | `[]ConnectedSync` | `PeerFd = FALSE` |
| `ReadingKnown` | `[]ReadingSync` | `OsFaults = FALSE` |
| `PauseHolds` | `[]PauseHeeded` | |
| `ReportedOnce` | `[]SettledOnce` | |
| `SendsKnown` | `[]SendsMatchQueue` | |
| `ClosedSendsNothing` | `NoSendAfterClose` | |
| `NeverLost` | `[]NoRequestLost` | `Throws`, `LookupThrows` and `OsFaults` are `FALSE` |
| `ClosedTold` | `[]CloseSettles` | the same |
| `ConnectingEnds` | `[]ConnectingHasOwner` | the same |
| `LifecycleRefined` | `LifecycleSpec` | `LateAccept = FALSE` |
| `ContractKept` | `ContractSpec` | `Throws`, `LookupThrows` and `OsFaults` are `FALSE` |

So each property of `reentry` and `faults` is proved, the refinements included. The
provisos are those under which TLC finds it to hold. `PendingFlushed` needs no
assumption on `Throws`: an exception drops what is being flushed, never what is
queued. `NoAbort` needs none on faults. What it assumes is what the code does not
guard: of all that may reach a closing handle, only the queued `resume` and
`[ipcAccept]` do not look whether the socket was closed.

From the assumptions of their modules alone:

| theorem | states |
|---------|--------|
| `MessagesKept` | `[]NothingLost` of `Reception`, for any sizes, bursts and number of datagrams |
| `PauseSilences` | `SilentWhenPaused` |
| `IdsTyped`, `IdsFindRequests`, `OutcomesTold` | `[]TypeOK`, `[]OwnRequest`, `[]AllTold` of `SendIds`, for ids of any width |
| `AddressesInductive` | the inductive invariant of `Addressing` |
| `AddressesFit`, `AddressesParsed` | `[]Fits`, `[]ParsedAsItIs`, for any texts and any size of the buffer |
| `DefaultsFollow`, `LookupsAsked` | `[]DefaultFollowsSocket`, `[]AskedForFamily` |
| `ReadAsMeant` | `[]AsMeant` of `SendArguments`, for any message, numbers and hosts, the falsy ports included |
| `ReadsInside` | `[]Inside`, likewise, for ranges that wrap as well |
| `PortsChecked`, `DestinationsRefused` | `[]PortChecked`, `[]DestinationRefused`, provided that `FalsyPorts = FALSE` |
| `SegmentsAreDecimal`, `IPv6LikeRFC` | `[]DecimalSegments`, `[]AnswersLikeRFC`, for texts of any length |

The assumptions on constants are few. A message is shorter than the word that
offsets are reduced to, as buffers are shorter than 2^32 bytes here. `BufferSize`, the
native buffer of an address, is more than 1, so that the socket's own addresses fit
with their end. `FalsyPorts` only says whether the calls of finding 5 are made.

### The argument

None of the properties of `StateBits` to `NoRevival` is inductive alone: a callback
of the handle changes the bits according to flags that only the handle has, and a
flush sets bits according to what was true when it began. `Inductive` adds

* `Lifecycle`: `CLOSING` is set exactly while libuv closes the handle and
  `CLOSED` once it has, unless the environment exits, and no JavaScript runs
  after that. So `onclose` finds `CLOSING`, close never closes twice, and user
  code on an open socket has an active handle.
* `ConnectBound`: a pending lookup of `connect`, and a flush of `_onbind`, only
  exist on a socket that is bound or was closed. So whatever sets `CONNECTED`
  finds `BOUND`.

The steps fall into two kinds, each a lemma: those that bind or fail to
(`BindStepKeeps`), and those that leave the bits of binding and closing and the
life of the handle alone (`QuietStepKeeps`). Closing, its callback, the
teardown and the report of a failed bind are done by hand. `TypeCorrect` comes
first, with one lemma per operator that sets variables and one per action. The
two action properties of `close()` follow from `Lifecycle`: the steps that call a
listener or hand a datagram over look at `CLOSING`, or are steps of user code,
the microtasks and the loop of a handle that is still active.

The other three are inductive relative to `Inductive`, which their steps assume:

* `Synced`: `ConnectedSync`, `ReadingSync` and `PauseHeeded`, with `Attached` (a bound socket
  has its descriptor, so only a fresh handle adopts one, and with it a peer or
  none) and `NotReading` (nothing reads before the bind, so `_onbind` finds
  what `_resume` sets).
* `Traced`: `Placed` says that a request is in at most one of the queue, the
  flushes, the lookups, `_sends` and the reported ones. It does not count, as
  `SettledOnce` does, and takes the places as arguments (`PlacedIn`), because
  within one step a request leaves one place before it is in the next; a lemma
  per place says what taking it from there and putting it here does
  (`DgramSocketRequests`). `Matched` ties `_sends` to the queue of libuv.
  `TidyFrame` says that only flushes hold functions, so a frame of user code
  that returns loses none. `LastFlush` says that a closed socket has nothing
  left but the flush of `_onclose`. If nothing throws, `Placed` also says that
  each request is somewhere. `SettledOnce`, which counts places, follows by
  lemmas on cardinality.
* `ConnectOwned`: the function of `connect` is followed like a request, until
  what it ends in clears `CONNECTING`.

`LifecycleRefined` maps each step to a step of `SocketLifecycle` or to a stutter;
it needs `Inductive` for what the bits of a bind or a close were before the step.
`ContractKept` does the same for `SendContract`: `Placed` gives a request the one
status of its place, each step moves at most one request, and the step that ends the
flush of `_onclose` is the `Closed` of the contract, as `LastFlush` leaves no request
queued or sent. It has the provisos of `NeverLost`, for a request that was dropped
would still be queued when the socket has closed.

For `Reception`, `Copied` says of each event which datagram's bytes it has, never
the buffer's, and `PolledSync` that a poll only goes on while libuv reads, which it
does not while the socket is paused. For `SendIds`, `IdsApart` says that the next id
is as far from that of a request in flight, around the end of the ids, as sends were
made since; these are fewer than there are ids, so it is not the id of that request.

For `Addressing`, none of the four properties is inductive: the steps that hand an
address over are turns after those that checked or picked it. The parts that carry
the checks across are `PendingChecked` (what waits for the bind was checked when it
was called), `DefaultsPicked` (a default that waits is of a family that was known, or
early and IPv4), `FamilyKnown` (a family, once known, is that of the handle),
`LookupsFollow` (at most one bind is looked up, before the socket is bound or after a
pipe has bound it; any other lookup was asked on a bound socket, for its family) and
`PendingWaits`. `GivenProper` then states what the four need of every native call.
`onbind` flushes what waits within the step, so one lemma (`OnBindKeeps`) serves the
direct bind, the descriptor, the pipe and the answer of the lookup.

For `SendArguments` one step decides everything, and the work is in the cases.
`Places` says which value stands at each of the five places, for each choice of what
was left out; from it follow what each overload reads (`UnconnectedRead`,
`ConnectedRead`), and which of the five checks hold. `ParseChecks` splits on whether
one fails. `Offsets` says that whatever stands in the two places of the range becomes
a number of the word, so that what passes `inBounds` is inside of the message, and
`Uint32` that a number of the word stays what it is.

For `IPAddress` the eight alternatives of `IPv6Pattern` are brought to one form, as
is the reference. Either side is a whole text of eight groups, or of six and an IPv4
address, or is `WithGap`: groups, an empty field, and groups again, seven in all at most, of
which an IPv4 address counts as two. `PatternHasGap` goes through the alternatives; `CompressedHasGap` leaves runs
out of the whole text. `SegmentsDecimal` shows that the strings of the segment's
pattern are the decimals of 0 to 255.

### Only model-checked

* Liveness, fairness and `ENABLED`: out of the prover's reach.
  `SendSettles`, `CloseCompletes`, `BindCompletes` and `ConnectCompletes` of the
  socket and `Delivered` of `Reception` are the only properties of passing runs
  that no theorem states. What they rest on is proved: that something due exists
  (`BindingEnds`, `PendingFlushed`, `ConnectingEnds`) and that what was read is
  not lost (`MessagesKept`).
* No property is about what a recursive definition computes for every input, which
  could not be proved either: it needs induction with an operator as parameter.

## What is not modelled

* The event listeners themselves (`once` registrations): an event runs user
  code, whoever listens. An `'error'` without listener is an exception of that
  user code.
* Option values, `address()`, `remoteAddress()`, the send queue counters:
  they read, or write what nothing else reads.
* The forms of the arguments of `bind` and `connect`, the ranges of integers and
  descriptors, `lib/errors.js`: a check per argument, with no state.
* The letters of an address: groups and zones are right or wrong as a whole.
* The conversion of addresses in `binding.c`, its handle scopes and references:
  the platform's and the engine's concern.
* Declarations, tests, build files.

## Plan

Done, in this order: `Binding`, `DgramSocket` and `SendContract` with their runs;
`SendIds`; `Reception`; `SendArguments`, `IPAddress` and `Addressing`;
`SocketLifecycle`; the proofs of all invariants and action properties of
`DgramSocket`, `Reception` and `SendIds`, and of both refinements; those of
`Addressing`, `SendArguments` and `IPAddress`.

Left:

1. the forms of `bind` and `connect`, next to those of `send`;
2. listeners registered with `once`, if a property needs them.

## Running

    tlc -config MCReentry.cfg MCDgramSocket.tla
    tlapm DgramSocketRefinementProofs.tla
