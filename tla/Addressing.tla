----------------------------- MODULE Addressing -----------------------------
(***************************************************************************)
(* Which address reaches the native handle.  It comes from the program,    *)
(* from a lookup, or from the socket, where the program left it out, and   *)
(* the socket only knows its family for sure once it is bound.             *)
(*                                                                         *)
(* A text comes with its length in characters and in bytes; what isIP says *)
(* of it is kept in place of it, with who it comes from.  What this module *)
(* leaves out of the calls is in DgramSocket: exceptions, the ends of      *)
(* sends, closing.                                                         *)
(***************************************************************************)
EXTENDS IPAddress

CONSTANTS
    BufferSize,  \* the bytes of the buffer that the handle copies an address to
    Texts        \* the texts that programs pass and lookups answer with

ASSUME AddressingAssumption ==
    /\ BufferSize \in Nat /\ BufferSize > 1  \* The addresses of the socket itself fit.
    /\ \A x \in Texts :
          /\ x.text.kind \in {"dotted", "colons", "name"}
          /\ x.chars \in Nat /\ x.bytes \in Nat
          \* The patterns of isIP only have letters of one byte.
          /\ isIP(x.text) # 0 => x.bytes = x.chars

\* MAX_LENGTH: an address has its end in the buffer too.
MaxLength == BufferSize - 1

VARIABLES
    family,   \* _family: 4, 6 or 0
    domain,   \* of the socket of the native handle: 4, 6, or 0 without one
    state,    \* of the binding: "failing" until the failure is reported
    peer,     \* "none", "connecting" or "connected"
    pending,  \* the tasks that wait for the bind
    lookups,  \* the tasks in the lookup, with the family that it was asked for
    given     \* what the last step called the native handle with

vars == <<family, domain, state, peer, pending, lookups, given>>

From(source, x) == [ip |-> isIP(x.text), chars |-> x.chars, bytes |-> x.bytes, from |-> source]

\* An address of the socket's own.
Own(text) == From("socket", [text |-> text, chars |-> 1, bytes |-> 1])

Dotted(a, b, c, d) == [kind |-> "dotted", segments |-> <<a, b, c, d>>]
Colons(fields) == [kind |-> "colons", fields |-> fields, zone |-> "none"]

\* What the program passes for an address, if anything.
Passed == {From("program", x) : x \in Texts}
Omitted == [ip |-> 0, chars |-> 0, bytes |-> 0, from |-> "program"]

_wildcard(fam) ==
    Own(IF fam = 6 THEN Colons(<<Empty, Empty, Empty>>) ELSE Dotted(<<0>>, <<0>>, <<0>>, <<0>>))

_loopback(fam) ==
    Own(IF fam = 6 THEN Colons(<<Empty, Empty, Group>>)
        ELSE Dotted(<<1, 2, 7>>, <<0>>, <<0>>, <<1>>))

Init ==
    /\ family \in {0, 4, 6}
    /\ domain = family
    /\ state = "unbound"
    /\ peer = "none"
    /\ pending = {}
    /\ lookups = {}
    /\ given = {}

-----------------------------------------------------------------------------
(* The checks *)

\* Mutant: the length is that of the string.
validLengthChars(x) == x.chars <= MaxLength

validLength(x) == x.bytes <= MaxLength

\* A name may be longer than an address: only its lookup sees it.
validHost(x) == x.ip # 0 => validLength(x)

resolvedHost(x) == x.ip # 0 /\ validLength(x)

-----------------------------------------------------------------------------
(* Tasks: what connect and send do once the socket is bound.  A task is early *)
(* if it had to pick its address while the socket had no family.              *)

Task(op, x, early) == [op |-> op, address |-> x, early |-> early, asked |-> 0]

\* A call of the native handle, for a task and with the family of an address.
Calling(t, x, fam) == [op |-> t.op, address |-> x, family |-> fam, early |-> t.early]

\* Mutant: send falls back on the address of a socket without a family.
destinationPlain(t, fam) == IF t.address = Omitted THEN _loopback(0) ELSE t.address

\* A connect has its default already; a send takes it now.
destination(t, fam) == IF t.address = Omitted THEN _loopback(fam) ELSE t.address

\* _resolve, for tasks of a bound socket of a family: an address is handed over
\* as it is, a name goes to the lookup.
Direct(tasks, fam) == {t \in tasks : destination(t, fam).ip # 0}

Calls(tasks, fam) ==
    {LET x == destination(t, fam) IN Calling(t, x, x.ip) : t \in Direct(tasks, fam)}

Asking(tasks, fam) ==
    {[t EXCEPT !.asked = fam] : t \in tasks \ Direct(tasks, fam)}

\* libuv may connect a handle or refuse to.
PeerAfter(calls, p) ==
    IF \E c \in calls : c.op = "connect" THEN {"none", "connected"} ELSE {p}

-----------------------------------------------------------------------------
(* Binding *)

\* Mutant: _onbind learns the family after it has run what waits.
familyWhileFlushingLate(dom) == family

\* _onbind: a socket that had no family takes that of its address.
familyWhileFlushing(dom) == IF family = 0 THEN dom ELSE family

\* The tasks that wait run as soon as the socket is bound.
onbind(calls, dom, tasks, asked, p) ==
    LET fam == familyWhileFlushing(dom) IN
    /\ state' = "bound"
    /\ domain' = dom
    /\ family' = IF family = 0 THEN dom ELSE family
    /\ pending' = {}
    /\ given' = calls \cup Calls(tasks, fam)
    /\ lookups' = asked \cup Asking(tasks, fam)
    /\ peer' \in PeerAfter(given', p)

\* The failure waits for its microtask, which finds nothing to flush on a socket
\* that a pipe has bound in the meantime.
onbinderror(calls, dom, tasks, asked, p) ==
    /\ state' = IF state = "bound" THEN "bound" ELSE "failing"
    /\ domain' = dom
    /\ pending' = tasks
    /\ given' = calls
    /\ lookups' = asked
    /\ peer' = p
    /\ family' = family

\* binding.bind: a handle without a socket gets one of the family of the
\* address, even if the address is then refused; one with a socket only takes
\* addresses of its family.
bindNative(x, fam, tasks, asked, p) ==
    LET call == Calling(Task("bind", x, FALSE), x, fam) IN
    \/ /\ domain \in {0, x.ip}
       /\ onbind({call}, x.ip, tasks, asked, p)
    \/ \E dom \in IF domain = 0 THEN {0, x.ip} ELSE {domain} :
          onbinderror({call}, dom, tasks, asked, p)

bind(x) ==
    LET host == IF x = Omitted THEN _wildcard(family) ELSE x IN
    /\ state = "unbound" /\ validHost(host)
    /\ \/ /\ host.ip # 0
          /\ bindNative(host, host.ip, pending, lookups, peer)
       \/ /\ host.ip = 0
          /\ state' = "binding"
          /\ lookups' = lookups \cup {[Task("bind", host, FALSE) EXCEPT !.asked = family]}
          /\ given' = {}
          /\ UNCHANGED <<family, domain, peer, pending>>

\* A descriptor that the socket adopts decides its family; a handle that has a
\* socket refuses it.
bindFd(dom) ==
    LET call == Calling(Task("open", _wildcard(dom), FALSE), _wildcard(dom), dom) IN
    /\ state = "unbound"
    /\ \/ domain = 0 /\ onbind({call}, dom, pending, lookups, peer)
       \/ onbinderror({call}, domain, pending, lookups, peer)

\* A pipe accepts a descriptor onto the handle, whatever the socket waits for.
ipcAccept(dom) ==
    /\ domain = 0
    /\ onbind({}, dom, pending, lookups, peer)

\* The microtask of _onbinderror: connect gives up, and so does send.
runBindError ==
    /\ state = "failing"
    /\ state' = "unbound"
    /\ pending' = {}
    /\ peer' = IF \E t \in pending : t.op = "connect" THEN "none" ELSE peer
    /\ given' = {}
    /\ UNCHANGED <<family, domain, lookups>>

\* _bindMaybe, which binds to the wildcard address.
bindMaybe(t, p) ==
    \/ /\ state = "bound"
       /\ given' = Calls({t}, family)
       /\ lookups' = lookups \cup Asking({t}, family)
       /\ peer' \in PeerAfter(given', p)
       /\ UNCHANGED <<family, domain, state, pending>>
    \/ /\ state \in {"binding", "failing"}
       /\ pending' = pending \cup {t}
       /\ peer' = p
       /\ given' = {}
       /\ UNCHANGED <<family, domain, state, lookups>>
    \/ /\ state = "unbound"
       /\ LET x == _wildcard(family) IN bindNative(x, x.ip, pending \cup {t}, lookups, p)

connect(x) ==
    LET host == IF x = Omitted THEN _loopback(family) ELSE x IN
    /\ peer = "none" /\ validHost(host)
    /\ bindMaybe(Task("connect", host, family = 0), "connecting")

send(x) ==
    /\ peer # "connected" /\ validHost(x)
    /\ bindMaybe(Task("send", x, FALSE), peer)

disconnect ==
    /\ peer = "connected"
    /\ peer' = "none"
    /\ given' = {}
    /\ UNCHANGED <<family, domain, state, pending, lookups>>

\* The groups, sources and interfaces of multicast go to the handle as they are.
setAddress(x) ==
    /\ state = "bound" /\ validLength(x)
    /\ given' = {Calling(Task("option", x, FALSE), x, x.ip)}
    /\ UNCHANGED <<family, domain, state, peer, pending, lookups>>

-----------------------------------------------------------------------------
(* The lookup, of the program's choice, answers with a text and a family that *)
(* may be right, wrong or missing.                                            *)

\* Mutant: the family is the one the lookup says.
resolvedFamilySaid(x, said) == said

\* _resolve looks at the address instead.
resolvedFamily(x, said) == x.ip

\* The lookup fails, or what it answers with is refused.
lookupFailed(t) ==
    /\ t \in lookups
    /\ IF t.op = "bind"
       THEN onbinderror({}, domain, pending, lookups \ {t}, peer)
       ELSE /\ lookups' = lookups \ {t}
            /\ peer' = IF t.op = "connect" THEN "none" ELSE peer
            /\ given' = {}
            /\ UNCHANGED <<family, domain, state, pending>>

lookupAnswered(t, x, said) ==
    /\ t \in lookups /\ resolvedHost(x)
    /\ LET fam == resolvedFamily(x, said) IN
       IF t.op = "bind"
       THEN bindNative(x, fam, pending, lookups \ {t}, peer)
       ELSE /\ lookups' = lookups \ {t}
            /\ given' = {Calling(t, x, fam)}
            /\ peer' \in PeerAfter(given', peer)
            /\ UNCHANGED <<family, domain, state, pending>>

Next ==
    \/ \E x \in Passed \cup {Omitted} : bind(x) \/ connect(x) \/ send(x)
    \/ \E x \in Passed : setAddress(x)
    \/ \E dom \in {4, 6} : bindFd(dom) \/ ipcAccept(dom)
    \/ runBindError \/ disconnect
    \/ \E t \in lookups : lookupFailed(t)
    \/ \E t \in lookups, x \in {From("lookup", y) : y \in Texts}, said \in {0, 4, 6} :
          lookupAnswered(t, x, said)

Spec == Init /\ [][Next]_vars

-----------------------------------------------------------------------------
(* Properties *)

\* The handle copies an address into a buffer and refuses one that fills it;
\* whatever way an address came, it is shorter.
Fits == \A c \in given : c.address.bytes < BufferSize

\* What the handle binds, connects or sends to is an address, parsed as one of
\* its own family, whatever a lookup answered and said of it.
ParsedAsItIs ==
    \A c \in given : c.op # "option" =>
        c.address.ip # 0 /\ c.family = c.address.ip

\* A default address is one of the family of the socket it is used on, however
\* the socket got its family and whatever the call waited for.  There is one
\* exception: a connect made while the family was not known picked IPv4, which an
\* IPv6 socket may then be given.
DefaultFollowsSocket ==
    \A c \in given :
        c.op \in {"connect", "send"} /\ c.address.from = "socket" =>
            \/ c.address.ip = domain
            \/ c.early /\ c.address.ip = 4 /\ domain = 6

\* Nor does a lookup answer with addresses that the socket cannot use because it
\* was asked for another family: connect and send ask once the family is known.
AskedForFamily ==
    \A t \in lookups : t.op # "bind" => t.asked = domain

=============================================================================
