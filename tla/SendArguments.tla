---------------------------- MODULE SendArguments ----------------------------
(***************************************************************************)
(* How send() reads its arguments.  Any of offset and length, port,        *)
(* address and callback may be left out, so what stands at a place depends *)
(* on what was left out before it and on whether the socket is connected.  *)
(*                                                                         *)
(* Init picks a call of one of the documented forms by what it means, and  *)
(* lays out its arguments; send reads them back.  A value is a record of   *)
(* its type and, in place of its contents, a number; that of a host has    *)
(* its text as well.                                                       *)
(***************************************************************************)
EXTENDS Integers, IPAddress

CONSTANTS
    Word,         \* 2^32: what a number is reduced by when made an offset
    MaxPort,      \* the largest port
    Size,         \* the bytes of the message
    Indices,      \* the offsets and lengths that are tried
    Ports,        \* the ports that are tried
    Hosts,        \* the texts that are tried for a host
    FalsyPorts    \* TRUE: also where a port of 0, or none, is misread

ASSUME SendArgumentsAssumption ==
    /\ Word \in Nat \ {0}
    /\ MaxPort \in Nat
    /\ Size \in Nat /\ Size < Word
    /\ Indices \subseteq Int
    /\ Ports \subseteq Nat
    /\ FalsyPorts \in BOOLEAN

VARIABLES
    call,   \* the call: what the program means
    result  \* what send makes of it, once it has run

vars == <<call, result>>

-----------------------------------------------------------------------------
(* JavaScript values *)

Undefined == [type |-> "undefined", value |-> 0]
Null == [type |-> "null", value |-> 0]
Number(n) == [type |-> "number", value |-> n]
EmptyString == [type |-> "string", value |-> 0]
Host(t) == [type |-> "string", value |-> 1, text |-> t]
Callback == [type |-> "function", value |-> 1]

IsFunction(v) == v.type = "function"
Truthy(v) == v.type \notin {"undefined", "null"} /\ v.value # 0

\* v >>> 0; only a number has digits.
ToUint32(v) == IF v.type = "number" THEN v.value % Word ELSE 0

-----------------------------------------------------------------------------
(* The calls: src/README.md and src/index.d.ts list the forms.  An argument *)
(* is left out as <<>>; one that is not the last may be undefined instead.  *)

Ranges == {<<>>} \cup {<<Number(o), Number(n)>> : o, n \in Indices}
AnyHost == Host([kind |-> "name"])

Forms ==
    {c \in [connected : BOOLEAN,
            message : {"bytes", "list", "badlist", "other"},
            range : Ranges,
            port : {<<>>, <<Undefined>>} \cup {<<Number(p)>> : p \in Ports},
            address : {<<>>, <<Undefined>>, <<EmptyString>>, <<AnyHost>>},
            cb : {<<>>, <<Callback>>}] :
        /\ c.port = <<>> => c.address = <<>>
        /\ c.port = <<Undefined>> =>
              c.range # <<>> /\ c.address = <<Undefined>> /\ c.cb # <<>>
        /\ c.address = <<Undefined>> => c.cb # <<>>}

\* A plain call for each text of a host.
ToHosts ==
    {[connected |-> FALSE, message |-> "bytes", range |-> <<>>, port |-> <<Number(1)>>,
      address |-> <<Host(t)>>, cb |-> <<>>] : t \in Hosts}

Call == Forms \cup ToHosts

HasHost(c) == c.address \notin {<<>>, <<Undefined>>, <<EmptyString>>}
HasPort(c) == c.port \notin {<<>>, <<Undefined>>}

\* Calls whose place of the port holds 0, or nothing, next to other arguments.
Misread(c) ==
    IF c.connected THEN c.port = <<Number(0)>>
    ELSE c.range # <<>> /\ c.port \in {<<>>, <<Undefined>>, <<Number(0)>>}

Args(c) == c.range \o c.port \o c.address \o c.cb
Arg(c, i) == IF i <= Len(Args(c)) THEN Args(c)[i] ELSE Undefined

-----------------------------------------------------------------------------
(* send *)

\* What stands where; an overload without offset and length is not sliced.
Reading(sliced, port, address, cb) ==
    [sliced |-> sliced, port |-> port, address |-> address, cb |-> cb]

readConnected(offset, length, port, address, cb) ==
    IF length.type = "number"
    THEN Reading(TRUE, IF IsFunction(port) THEN Null ELSE port, address,
                       IF IsFunction(port) THEN port ELSE cb)
    ELSE IF offset = Undefined \/ IsFunction(offset)
    THEN Reading(FALSE, port, address, offset)
    ELSE Reading(FALSE, offset, address, cb)

\* Mutant: a callback in the place of the port is taken for a port.
readUnconnectedEagerly(offset, length, port, address, cb) ==
    IF Truthy(address) \/ Truthy(port)
    THEN Reading(TRUE, port, address, cb)
    ELSE Reading(FALSE, offset, length, port)

readUnconnected(offset, length, port, address, cb) ==
    IF Truthy(address) \/ (Truthy(port) /\ ~IsFunction(port))
    THEN Reading(TRUE, port, address, cb)
    ELSE Reading(FALSE, offset, length, port)

\* Mutant: the sum is reduced to 32 bits as well.
inBoundsReduced(offset, length) ==
    offset <= Size /\ (offset + length) % Word <= Size

\* sliceBuffer: the offset and the end have to be inside the message.
inBounds(offset, length) == offset <= Size /\ offset + length <= Size

\* Mutant: the port may be 0, as it may for bind.
validPortZero(port) == port.type = "number" /\ port.value \in 0..MaxPort

validPort(port) == port.type = "number" /\ port.value \in 1..MaxPort

\* Mutant: a connected socket takes a destination.
destinationIgnored(read) == FALSE

hasDestination(read) == Truthy(read.port) \/ Truthy(read.address)

\* The overload that was called.
reading(c) ==
    IF c.connected
    THEN readConnected(Arg(c, 1), Arg(c, 2), Arg(c, 3), Arg(c, 4), Arg(c, 5))
    ELSE readUnconnected(Arg(c, 1), Arg(c, 2), Arg(c, 3), Arg(c, 4), Arg(c, 5))

\* The checks of send, in its order, and what is thrown if they fail.
checks(c, read) ==
    <<[holds |-> read.sliced =>
                    c.message = "bytes" /\ inBounds(ToUint32(Arg(c, 1)), ToUint32(Arg(c, 2))),
       code |-> "INVALID_ARGUMENT"],
      [holds |-> c.connected => ~hasDestination(read), code |-> "SOCKET_ALREADY_CONNECTED"],
      [holds |-> c.message \in {"bytes", "list"}, code |-> "INVALID_ARGUMENT"],
      [holds |-> ~c.connected => validPort(read.port), code |-> "INVALID_PORT"],
      [holds |-> Truthy(read.address) => read.address.type \in {"string", "function"},
       code |-> "INVALID_HOST"]>>

\* Those that fail: the first of them is thrown.
Failures(c, read) == {i \in 1..5 : ~checks(c, read)[i].holds}

\* _resolve: what is no address goes to the lookup.
destination(t) == IF isIP(t) # 0 THEN "address" ELSE "name"

Rejected(code) == [error |-> code]

\* The bytes first..last are sent, to the peer or to a port of a host.
Accepted(first, last, port, host, cb) ==
    [error |-> "none", bytes |-> first..last, port |-> port, host |-> host, cb |-> cb]

\* What is sent, once the checks hold.
request(c, read) ==
    LET offset == IF read.sliced THEN ToUint32(Arg(c, 1)) ELSE 0
        length == IF read.sliced THEN ToUint32(Arg(c, 2)) ELSE Size
    IN Accepted(offset + 1, offset + length,
                IF c.connected THEN 0 ELSE read.port.value,
                IF c.connected THEN "peer"
                ELSE IF Truthy(read.address) /\ ~IsFunction(read.address)
                THEN destination(read.address.text)
                ELSE "loopback",
                IsFunction(read.address) \/ IsFunction(read.cb))

parse(c) ==
    LET read == reading(c)
        failed == Failures(c, read)
        first == CHOOSE i \in failed : \A j \in failed : i <= j
    IN IF failed = {} THEN request(c, read) ELSE Rejected(checks(c, read)[first].code)

NotRun == [error |-> "not run"]

Init ==
    /\ call \in {c \in Call : FalsyPorts \/ ~Misread(c)}
    /\ result = NotRun

send ==
    /\ result = NotRun
    /\ result' = parse(call)
    /\ call' = call

Next == send

Spec == Init /\ [][Next]_vars

-----------------------------------------------------------------------------
(* Properties *)

HasRun == result # NotRun

OutOfBounds(c) ==
    /\ c.range # <<>>
    /\ LET o == c.range[1].value
           n == c.range[2].value
       IN o < 0 \/ n < 0 \/ o + n > Size

BadPort(c) == ~c.connected /\ ~(HasPort(c) /\ c.port[1].value \in 1..MaxPort)

BadMessage(c) ==
    c.message \notin {"bytes", "list"} \/ (c.message = "list" /\ c.range # <<>>)

BadDestination(c) == c.connected /\ HasPort(c)

\* What a call says, if nothing is wrong with it.
Meaning(c) ==
    Accepted(IF c.range = <<>> THEN 1 ELSE c.range[1].value + 1,
             IF c.range = <<>> THEN Size ELSE c.range[1].value + c.range[2].value,
             IF c.connected THEN 0 ELSE c.port[1].value,
             IF c.connected THEN "peer"
             ELSE IF HasHost(c) THEN destination(c.address[1].text) ELSE "loopback",
             c.cb # <<>>)

\* Every form of the call is read as it is meant: the bytes of the range, the
\* port, the host or the loopback address, and the callback wherever it stands.
AsMeant ==
    HasRun /\ ~OutOfBounds(call) /\ ~BadPort(call) /\ ~BadMessage(call) /\ ~BadDestination(call)
        => result = Meaning(call)

\* No argument makes send read outside of the message.
Inside == HasRun /\ result.error = "none" => result.bytes \subseteq 1..Size

\* The text of the host, where the call of a socket that is not connected has one.
HostIs(kind) ==
    HasRun /\ result.error = "none" /\ ~call.connected /\ HasHost(call)
        /\ call.address[1].text.kind = kind

\* A dotted text goes to the handle without a lookup exactly if it has four numbers
\* up to 255 in decimal, without zeros before them, which other parsers take for
\* octal.
DecimalSegments ==
    HostIs("dotted") => (result.host = "address" <=> IsDotted(call.address[1].text.segments))

\* A text with colons does exactly if it is an IPv6 address: the eight alternatives
\* of the pattern are the forms with eight groups and those with one "::" for at
\* least one; none is missing, none has a group too many, and a zone is not empty.
AnswersLikeRFC ==
    HostIs("colons") =>
        (result.host = "address" <=>
            IsColons(call.address[1].text.fields, call.address[1].text.zone))

\* What README.md says of the port: on a socket that is not connected it is
\* between 1 and 65535, or send throws.
PortChecked == HasRun /\ BadPort(call) => result.error # "none"

\* The same of a port that the call has: one that is out of range, 0 included, is
\* refused.  FalsyPorts lets TLC refute this.
GivenPortChecked == HasRun /\ BadPort(call) /\ HasPort(call) => result.error # "none"

\* What it says of a connected socket: port and address must be omitted.
DestinationRefused == HasRun /\ BadDestination(call) => result.error # "none"

=============================================================================
