-------------------------- MODULE AddressingProofs --------------------------
(***************************************************************************)
(* Theorems of Addressing: whatever texts there are, and however short the *)
(* buffer of the handle, what reaches the handle fits, is of the family    *)
(* that it is parsed as, and of that of the socket where it is one of the  *)
(* socket's own, but for the IPv4 that a connect had to pick early.        *)
(***************************************************************************)
EXTENDS Addressing, SequenceTheorems, TLAPS

-----------------------------------------------------------------------------
(* The inductive invariant *)

Families == {4, 6}

Address ==
    [ip : {0} \cup Families, chars : Nat, bytes : Nat, from : {"program", "lookup", "socket"}]

\* The tasks that wait for the bind, those in the lookup, and the native calls.
Waiting ==
    [op : {"connect", "send"}, address : Address, early : BOOLEAN, asked : {0}]

Looked ==
    [op : {"bind", "connect", "send"}, address : Address, early : BOOLEAN,
     asked : {0} \cup Families]

NativeCall ==
    [op : {"bind", "open", "connect", "send", "option"}, address : Address,
     family : {0} \cup Families, early : BOOLEAN]

TypeOK ==
    /\ family \in {0} \cup Families
    /\ domain \in {0} \cup Families
    /\ state \in {"unbound", "binding", "failing", "bound"}
    /\ peer \in {"none", "connecting", "connected"}
    /\ pending \subseteq Waiting
    /\ lookups \subseteq Looked
    /\ given \subseteq NativeCall

\* A family, once known, is that of the handle's socket, and a bound socket has one.
FamilyKnown ==
    /\ family # 0 => domain = family
    /\ state = "bound" => family # 0

\* Only a bind to come is waited for.
PendingWaits == pending # {} => state \in {"binding", "failing"}

\* A bind is looked up once at a time, until the socket is bound by its answer or,
\* before that, by a pipe; the other lookups are made on a bound socket.
LookupsFollow ==
    \A t \in lookups :
        /\ t.op = "bind" =>
              /\ state \in {"binding", "bound"}
              /\ \A u \in lookups : u.op = "bind" => u = t
        /\ t.op # "bind" => state = "bound" /\ t.asked = family

\* What waits was checked when it was called.
PendingChecked == \A t \in pending : validHost(t.address)

\* A default that waits is of a known family, or an early one, of IPv4.
DefaultsPicked ==
    \A t \in pending :
        t.address.from = "socket" =>
            IF t.early THEN t.address.ip = 4 ELSE family # 0 /\ t.address.ip = family

\* What holds of a native call, on a socket of a domain.
Proper(c, dom) ==
    /\ c \in NativeCall
    /\ c.address.bytes <= MaxLength
    /\ c.op # "option" => c.address.ip # 0 /\ c.family = c.address.ip
    /\ c.op \in {"connect", "send"} /\ c.address.from = "socket" =>
          \/ c.address.ip = dom
          \/ c.early /\ c.address.ip = 4 /\ dom = 6

GivenProper == \A c \in given : Proper(c, domain)

Inductive ==
    /\ TypeOK /\ FamilyKnown /\ PendingWaits /\ LookupsFollow
    /\ PendingChecked /\ DefaultsPicked /\ GivenProper

-----------------------------------------------------------------------------
(* Addresses *)

\* What validLength lets through leaves room for the end of an address.
LEMMA LengthFits ==
    /\ 1 <= MaxLength
    /\ \A n \in Nat : n <= MaxLength => n < BufferSize
BY AddressingAssumption DEF MaxLength

\* isIP tells one of two families, or none.
LEMMA IsIPType ==
    ASSUME NEW t
    PROVE  isIP(t) \in {0} \cup Families
BY DEF isIP, Families

\* Texts make addresses, whoever they come from.
LEMMA FromType ==
    ASSUME NEW x \in Texts, NEW source \in {"program", "lookup"}
    PROVE  From(source, x) \in Address
BY IsIPType, AddressingAssumption DEF From, Address

\* What may be passed, or left out, is an address, and what is left out is no IP.
LEMMA PassedType ==
    ASSUME NEW x \in Passed \cup {Omitted}
    PROVE  x \in Address /\ x.from = "program"
<1>1. CASE x = Omitted
  BY <1>1 DEF Omitted, Address
<1>2. CASE x \in Passed
  <2>1. PICK y \in Texts : x = From("program", y)
    BY <1>2 DEF Passed
  <2>2. x.from = "program"
    BY <2>1 DEF From
  <2> QED BY <2>1, <2>2, FromType
<1> QED BY <1>1, <1>2

\* The four numbers of the wildcard and the loopback address are an IPv4 address.
LEMMA DottedIsIPv4 ==
    /\ isIP(Dotted(<<0>>, <<0>>, <<0>>, <<0>>)) = 4
    /\ isIP(Dotted(<<1, 2, 7>>, <<0>>, <<0>>, <<1>>)) = 4
<1>1. <<0>> \in IPv4Segment /\ <<1>> \in IPv4Segment
  BY DEF IPv4Segment, Digits
<1>2. <<1, 2, 7>> \in {<<1, d, e>> : d, e \in Digits}
  BY DEF Digits
<1>3. <<1, 2, 7>> \in IPv4Segment
  BY <1>2 DEF IPv4Segment
<1>4. /\ isIPv4(Dotted(<<0>>, <<0>>, <<0>>, <<0>>))
      /\ isIPv4(Dotted(<<1, 2, 7>>, <<0>>, <<0>>, <<1>>))
  BY <1>1, <1>3 DEF isIPv4, v4Str, Dotted
<1>5. ASSUME NEW t, isIPv4(t)
      PROVE  isIP(t) = 4
  <2>1. ~isIPv6(t)
    BY <1>5 DEF isIPv4, isIPv6
  <2> QED BY <1>5, <2>1 DEF isIP
<1> QED BY <1>4, <1>5

\* Elements put before others.
LEMMA ConsOne ==
    ASSUME NEW a, NEW b
    PROVE  <<a>> \o <<b>> = <<a, b>>
<1>1. /\ <<a>> \in Seq({a, b}) /\ Len(<<a>>) = 1 /\ <<a>>[1] = a
      /\ <<b>> \in Seq({a, b}) /\ Len(<<b>>) = 1 /\ <<b>>[1] = b
      /\ <<a, b>> \in Seq({a, b}) /\ Len(<<a, b>>) = 2
      /\ <<a, b>>[1] = a /\ <<a, b>>[2] = b
  OBVIOUS
<1>2. PICK t : t = <<a>> \o <<b>>
  OBVIOUS
<1>3. t \in Seq({a, b}) /\ Len(t) = 2 /\ t[1] = a /\ t[2] = b
  BY <1>1, <1>2, ConcatProperties
<1>4. \A i \in 1..2 : t[i] = <<a, b>>[i]
  BY <1>1, <1>3
<1> QED BY <1>1, <1>2, <1>3, <1>4, SeqEqual

LEMMA ConsPair ==
    ASSUME NEW a, NEW b, NEW c
    PROVE  <<a>> \o <<b, c>> = <<a, b, c>>
<1>1. /\ <<a>> \in Seq({a, b, c}) /\ Len(<<a>>) = 1 /\ <<a>>[1] = a
      /\ <<b, c>> \in Seq({a, b, c}) /\ Len(<<b, c>>) = 2
      /\ <<b, c>>[1] = b /\ <<b, c>>[2] = c
      /\ <<a, b, c>> \in Seq({a, b, c}) /\ Len(<<a, b, c>>) = 3
      /\ <<a, b, c>>[1] = a /\ <<a, b, c>>[2] = b /\ <<a, b, c>>[3] = c
  OBVIOUS
<1>2. PICK t : t = <<a>> \o <<b, c>>
  OBVIOUS
<1>3. t \in Seq({a, b, c}) /\ Len(t) = 3 /\ t[1] = a /\ t[2] = b /\ t[3] = c
  BY <1>1, <1>2, ConcatProperties
<1>4. \A i \in 1..3 : t[i] = <<a, b, c>>[i]
  BY <1>1, <1>3
<1> QED BY <1>1, <1>2, <1>3, <1>4, SeqEqual

\* "::" and "::1" are IPv6 addresses.
LEMMA ColonsIsIPv6 ==
    /\ isIP(Colons(<<Empty, Empty, Empty>>)) = 6
    /\ isIP(Colons(<<Empty, Empty, Group>>)) = 6
<1>1. <<Empty, Empty>> \in After(0)
  BY DEF After
<1>2. <<Empty>> \o Groups(1) \in After(0)
  BY DEF After
<1>3. <<Empty>> \o <<Empty, Empty>> = <<Empty, Empty, Empty>>
  BY ConsPair
<1>4. <<Empty>> \o (<<Empty>> \o Groups(1)) = <<Empty, Empty, Group>>
  <2>1. Groups(1) = <<Group>>
    BY DEF Groups
  <2>2. <<Empty>> \o Groups(1) = <<Empty, Group>>
    BY <2>1, ConsOne
  <2> QED BY <2>2, ConsPair
<1>5. /\ <<Empty, Empty, Empty>> \in {<<Empty>> \o rest : rest \in After(0)}
      /\ <<Empty, Empty, Group>> \in {<<Empty>> \o rest : rest \in After(0)}
  BY <1>1, <1>2, <1>3, <1>4
<1>6. /\ <<Empty, Empty, Empty>> \in IPv6Pattern
      /\ <<Empty, Empty, Group>> \in IPv6Pattern
  BY <1>5 DEF IPv6Pattern
<1>7. ASSUME NEW fields \in IPv6Pattern
      PROVE  isIP(Colons(fields)) = 6
  BY DEF isIP, isIPv4, isIPv6, Colons
<1> QED BY <1>6, <1>7

\* An address of the socket's own is one of its family, IPv4 if it has none.
LEMMA OwnAddress ==
    ASSUME NEW fam \in {0} \cup Families,
           NEW x \in {_wildcard(fam), _loopback(fam)}
    PROVE  /\ x \in Address /\ x.bytes <= MaxLength /\ x.from = "socket" /\ x # Omitted
           /\ x.ip = IF fam = 6 THEN 6 ELSE 4
<1>1. x = [ip |-> IF fam = 6 THEN 6 ELSE 4, chars |-> 1, bytes |-> 1, from |-> "socket"]
  <2>1. _wildcard(fam) = [ip |-> IF fam = 6 THEN 6 ELSE 4, chars |-> 1, bytes |-> 1, from |-> "socket"]
    BY DottedIsIPv4, ColonsIsIPv6 DEF _wildcard, Own, From
  <2>2. _loopback(fam) = [ip |-> IF fam = 6 THEN 6 ELSE 4, chars |-> 1, bytes |-> 1, from |-> "socket"]
    BY DottedIsIPv4, ColonsIsIPv6 DEF _loopback, Own, From
  <2> QED BY <2>1, <2>2
<1>2. x \in Address
  BY <1>1 DEF Address, Families
<1>3. x.ip # 0
  BY <1>1
<1> QED BY <1>1, <1>2, <1>3, LengthFits DEF Omitted

-----------------------------------------------------------------------------
(* Tasks and native calls *)

\* A task that may run on a bound socket of a family.
Ready(t, fam) ==
    /\ t \in Waiting /\ validHost(t.address)
    /\ t.address.from = "socket" =>
          IF t.early THEN t.address.ip = 4 ELSE t.address.ip = fam

\* The destination of a task is an address, of the family if it is a default.
LEMMA DestinationType ==
    ASSUME NEW fam \in Families, NEW t, Ready(t, fam),
           NEW x, x = destination(t, fam)
    PROVE  /\ x \in Address /\ validHost(x)
           /\ x.from = "socket" => x.ip = fam \/ (t.early /\ x.ip = 4 /\ fam = 6)
<1>1. CASE t.address = Omitted
  <2>1. x = _loopback(fam)
    BY <1>1 DEF destination
  <2>2. x \in Address /\ x.bytes <= MaxLength /\ x.ip = IF fam = 6 THEN 6 ELSE 4
    BY <2>1, OwnAddress
  <2> QED BY <2>2 DEF validHost, validLength, Families
<1>2. CASE t.address # Omitted
  <2>1. x = t.address
    BY <1>2 DEF destination
  <2> QED BY <2>1 DEF Ready, Waiting, Families
<1> QED BY <1>1, <1>2

\* What is handed over at once is proper.
LEMMA CallsProper ==
    ASSUME NEW fam \in Families, NEW tasks, \A t \in tasks : Ready(t, fam),
           NEW c \in Calls(tasks, fam)
    PROVE  Proper(c, fam)
<1>1. PICK t \in Direct(tasks, fam) :
         c = (LET x == destination(t, fam) IN Calling(t, x, x.ip))
  BY DEF Calls
<1>2. PICK x : x = destination(t, fam)
  OBVIOUS
<1>3. c = [op |-> t.op, address |-> x, family |-> x.ip, early |-> t.early]
  BY <1>1, <1>2 DEF Calling
<1>4. t \in tasks /\ x.ip # 0
  BY <1>1, <1>2 DEF Direct
<1>5. /\ x \in Address /\ validHost(x)
      /\ x.from = "socket" => x.ip = fam \/ (t.early /\ x.ip = 4 /\ fam = 6)
  BY <1>2, <1>4, DestinationType
<1>6. t.op \in {"connect", "send"} /\ t.early \in BOOLEAN
  BY <1>4 DEF Ready, Waiting
<1>7. x.ip \in {0} \cup Families
  BY <1>5 DEF Address
<1>8. c \in NativeCall
  BY <1>3, <1>5, <1>6, <1>7 DEF NativeCall
<1> QED BY <1>3, <1>4, <1>5, <1>8 DEF Proper, validHost, validLength

\* What is not goes to the lookup, for the family of the socket.
LEMMA AskingLooked ==
    ASSUME NEW fam \in Families, NEW tasks, \A t \in tasks : Ready(t, fam),
           NEW u \in Asking(tasks, fam)
    PROVE  u \in Looked /\ u.op # "bind" /\ u.asked = fam
<1>1. PICK t \in tasks : u = [t EXCEPT !.asked = fam]
  BY DEF Asking
<1>2. t \in Waiting
  BY DEF Ready
<1> QED BY <1>1, <1>2 DEF Waiting, Looked, Families

\* A connect leaves a peer, or none.
LEMMA PeerAfterType ==
    ASSUME NEW calls, NEW p \in {"none", "connecting", "connected"},
           NEW q \in PeerAfter(calls, p)
    PROVE  q \in {"none", "connecting", "connected"}
BY DEF PeerAfter

-----------------------------------------------------------------------------
(* The ends of a bind *)

\* A bind that succeeds leaves only proper calls and lookups of the socket's family.
LEMMA OnBindKeeps ==
    ASSUME Inductive,
           NEW dom \in Families, family # 0 => dom = family,
           NEW tasks, \A t \in tasks : Ready(t, dom),
           NEW calls, \A c \in calls : Proper(c, dom),
           NEW asked, asked \subseteq lookups,
           NEW p \in {"none", "connecting", "connected"},
           onbind(calls, dom, tasks, asked, p)
    PROVE  Inductive'
<1>1. familyWhileFlushing(dom) = dom
  BY DEF familyWhileFlushing
<1>2. /\ state' = "bound" /\ domain' = dom /\ family' = dom /\ pending' = {}
      /\ given' = calls \cup Calls(tasks, dom)
      /\ lookups' = asked \cup Asking(tasks, dom)
      /\ peer' \in PeerAfter(given', p)
  BY <1>1 DEF onbind
<1>3. \A c \in given' : Proper(c, dom)
  BY <1>2, CallsProper
<1>4. GivenProper'
  BY <1>2, <1>3 DEF GivenProper, Proper
<1>5. \A u \in Asking(tasks, dom) : u \in Looked /\ u.op # "bind" /\ u.asked = dom
  BY AskingLooked
<1>6. \A u \in asked : u \in Looked /\ (u.op # "bind" => u.asked = dom)
  BY DEF Inductive, TypeOK, FamilyKnown, LookupsFollow
<1>7. TypeOK'
  <2>1. given' \subseteq NativeCall
    BY <1>3 DEF Proper
  <2>2. peer' \in {"none", "connecting", "connected"}
    BY <1>2, PeerAfterType
  <2>3. lookups' \subseteq Looked
    BY <1>2, <1>5, <1>6
  <2> QED BY <1>2, <2>1, <2>2, <2>3 DEF TypeOK
<1>8. LookupsFollow'
  <2>1. \A t, u \in lookups' : t.op = "bind" /\ u.op = "bind" => u = t
    BY <1>2, <1>5 DEF Inductive, LookupsFollow
  <2>2. \A t \in lookups' : t.op # "bind" => t.asked = dom
    BY <1>2, <1>5, <1>6
  <2> QED BY <1>2, <2>1, <2>2 DEF LookupsFollow
<1>9. FamilyKnown' /\ PendingWaits' /\ PendingChecked' /\ DefaultsPicked'
  BY <1>2 DEF FamilyKnown, PendingWaits, PendingChecked, DefaultsPicked, Families
<1> QED BY <1>4, <1>7, <1>8, <1>9 DEF Inductive

\* A task that waits for a bind to come may run once a family is known.
Queued(t) ==
    /\ t \in Waiting /\ validHost(t.address)
    /\ t.address.from = "socket" =>
          IF t.early THEN t.address.ip = 4 ELSE family # 0 /\ t.address.ip = family

LEMMA PendingQueued ==
    ASSUME Inductive
    PROVE  \A t \in pending : Queued(t)
BY DEF Inductive, TypeOK, PendingChecked, DefaultsPicked, Queued

LEMMA QueuedIsReady ==
    ASSUME Inductive, NEW t, Queued(t), NEW dom, domain \in {0, dom}
    PROVE  Ready(t, dom)
<1>1. family # 0 => dom = family
  BY DEF Inductive, FamilyKnown
<1> QED BY <1>1 DEF Queued, Ready

\* One that fails leaves the tasks to the microtask that reports it.
LEMMA OnBindErrorKeeps ==
    ASSUME Inductive,
           NEW dom \in {0} \cup Families, family # 0 => dom = family,
           NEW tasks, \A t \in tasks : Queued(t), state = "bound" => tasks = {},
           NEW calls, \A c \in calls : Proper(c, dom),
           NEW asked, asked \subseteq lookups, state # "bound" => asked = {},
           NEW p \in {"none", "connecting", "connected"},
           onbinderror(calls, dom, tasks, asked, p)
    PROVE  Inductive'
<1>1. /\ state' = IF state = "bound" THEN "bound" ELSE "failing"
      /\ domain' = dom /\ pending' = tasks /\ given' = calls
      /\ lookups' = asked /\ peer' = p /\ family' = family
  BY DEF onbinderror
<1>2. GivenProper'
  BY <1>1 DEF GivenProper, Proper
<1>3. PendingChecked' /\ DefaultsPicked'
  BY <1>1 DEF PendingChecked, DefaultsPicked, Queued, validHost, validLength
<1>4. TypeOK'
  BY <1>1 DEF Inductive, TypeOK, Proper, Queued
<1>5. FamilyKnown' /\ PendingWaits'
  BY <1>1 DEF Inductive, FamilyKnown, PendingWaits
<1>6. LookupsFollow'
  BY <1>1 DEF Inductive, LookupsFollow
<1> QED BY <1>2, <1>3, <1>4, <1>5, <1>6 DEF Inductive

\* A bind to an address does one or the other.
LEMMA BindNativeKeeps ==
    ASSUME Inductive, NEW x \in Address, x.ip # 0, x.bytes <= MaxLength,
           NEW tasks, \A t \in tasks : Queued(t), state = "bound" => tasks = {},
           NEW asked, asked \subseteq lookups, state # "bound" => asked = {},
           NEW p \in {"none", "connecting", "connected"},
           bindNative(x, x.ip, tasks, asked, p)
    PROVE  Inductive'
<1>1. PICK call : call = Calling(Task("bind", x, FALSE), x, x.ip)
  OBVIOUS
<1>2. x.ip \in Families
  BY DEF Address
<1>3. call = [op |-> "bind", address |-> x, family |-> x.ip, early |-> FALSE]
  BY <1>1 DEF Calling, Task
<1>4. call \in NativeCall
  BY <1>2, <1>3 DEF NativeCall
<1>5. \A dom : \A c \in {call} : Proper(c, dom)
  <2>1. \A dom : Proper(call, dom)
    BY <1>3, <1>4 DEF Proper
  <2> QED BY <2>1
<1>6. /\ domain \in {0} \cup Families
      /\ family # 0 => domain = family
  BY DEF Inductive, TypeOK, FamilyKnown
<1>7. CASE domain \in {0, x.ip} /\ onbind({call}, x.ip, tasks, asked, p)
  <2>1. family # 0 => x.ip = family
    BY <1>6, <1>7
  <2>2. \A t \in tasks : Ready(t, x.ip)
    BY <1>7, QueuedIsReady
  <2> QED BY <1>2, <1>5, <1>7, <2>1, <2>2, OnBindKeeps
<1>8. CASE \E dom \in IF domain = 0 THEN {0, x.ip} ELSE {domain} :
             onbinderror({call}, dom, tasks, asked, p)
  <2>1. PICK dom \in IF domain = 0 THEN {0, x.ip} ELSE {domain} :
           onbinderror({call}, dom, tasks, asked, p)
    BY <1>8
  <2>2. dom \in {0} \cup Families /\ (family # 0 => dom = family)
    BY <1>2, <1>6, <2>1 DEF Families
  <2> QED BY <1>5, <2>1, <2>2, OnBindErrorKeeps
<1> QED BY <1>1, <1>7, <1>8 DEF bindNative

-----------------------------------------------------------------------------
(* The steps *)

\* Nothing waits on an unbound socket.
LEMMA UnboundIsIdle ==
    ASSUME Inductive, state = "unbound"
    PROVE  pending = {} /\ lookups = {}
BY DEF Inductive, PendingWaits, LookupsFollow

\* Its wildcard address may be bound to.
LEMMA WildcardBinds ==
    ASSUME Inductive, NEW x, x = _wildcard(family)
    PROVE  x \in Address /\ x.ip # 0 /\ x.bytes <= MaxLength /\ validHost(x)
<1>1. x \in Address /\ x.bytes <= MaxLength /\ x.ip = IF family = 6 THEN 6 ELSE 4
  BY OwnAddress DEF Inductive, TypeOK
<1> QED BY <1>1 DEF validHost, validLength

LEMMA BindKeeps ==
    ASSUME Inductive, NEW x \in Passed \cup {Omitted}, bind(x)
    PROVE  Inductive'
<1>1. PICK host : host = IF x = Omitted THEN _wildcard(family) ELSE x
  OBVIOUS
<1>2. host \in Address
  BY <1>1, PassedType, WildcardBinds
<1>3. state = "unbound" /\ validHost(host) /\ pending = {} /\ lookups = {}
  BY <1>1, UnboundIsIdle DEF bind
<1>4. peer \in {"none", "connecting", "connected"}
  BY DEF Inductive, TypeOK
<1>5. CASE host.ip # 0 /\ bindNative(host, host.ip, pending, lookups, peer)
  <2>1. host.bytes <= MaxLength
    BY <1>3, <1>5 DEF validHost, validLength
  <2>2. \A t \in pending : Queued(t)
    BY <1>3
  <2> QED BY <1>2, <1>3, <1>4, <1>5, <2>1, <2>2, BindNativeKeeps
<1>6. CASE /\ host.ip = 0
           /\ state' = "binding"
           /\ lookups' = lookups \cup {[Task("bind", host, FALSE) EXCEPT !.asked = family]}
           /\ given' = {}
           /\ UNCHANGED <<family, domain, peer, pending>>
  <2>1. PICK t : t = [Task("bind", host, FALSE) EXCEPT !.asked = family]
    OBVIOUS
  <2>2. t = [op |-> "bind", address |-> host, early |-> FALSE, asked |-> family]
    BY <2>1 DEF Task
  <2>3. t \in Looked
    BY <1>2, <2>2 DEF Looked, Inductive, TypeOK
  <2>4. lookups' = {t}
    BY <1>3, <1>6, <2>1
  <2>5. TypeOK'
    BY <1>3, <1>6, <2>3, <2>4 DEF Inductive, TypeOK
  <2>6. LookupsFollow'
    <3>1. t.op = "bind" /\ state' = "binding" /\ \A u \in lookups' : u = t
      BY <1>6, <2>2, <2>4
    <3> QED BY <2>4, <3>1 DEF LookupsFollow
  <2> QED BY <1>3, <1>6, <2>5, <2>6 DEF Inductive, FamilyKnown, PendingWaits,
             PendingChecked, DefaultsPicked, GivenProper
<1> QED BY <1>1, <1>5, <1>6 DEF bind

LEMMA BindFdKeeps ==
    ASSUME Inductive, NEW dom \in {4, 6}, bindFd(dom)
    PROVE  Inductive'
<1>1. PICK x : x = _wildcard(dom)
  OBVIOUS
<1>2. x \in Address /\ x.bytes <= MaxLength /\ x.ip = dom
  <2>1. dom \in {0} \cup Families
    BY DEF Families
  <2> QED BY <1>1, <2>1, OwnAddress
<1>3. PICK call : call = Calling(Task("open", x, FALSE), x, dom)
  OBVIOUS
<1>4. call = [op |-> "open", address |-> x, family |-> dom, early |-> FALSE]
  BY <1>3 DEF Calling, Task
<1>5. call \in NativeCall
  BY <1>2, <1>4 DEF NativeCall, Families
<1>6. \A d : \A c \in {call} : Proper(c, d)
  <2>1. \A d : Proper(call, d)
    BY <1>2, <1>4, <1>5 DEF Proper
  <2> QED BY <2>1
<1>7. /\ state = "unbound" /\ pending = {} /\ lookups = {}
      /\ peer \in {"none", "connecting", "connected"}
      /\ domain \in {0} \cup Families /\ (family # 0 => domain = family)
  BY UnboundIsIdle DEF bindFd, Inductive, TypeOK, FamilyKnown
<1>8. \/ domain = 0 /\ onbind({call}, dom, pending, lookups, peer)
      \/ onbinderror({call}, domain, pending, lookups, peer)
  BY <1>1, <1>3 DEF bindFd
<1>9. CASE domain = 0 /\ onbind({call}, dom, pending, lookups, peer)
  <2>1. dom \in Families /\ (family # 0 => dom = family)
    BY <1>7, <1>9 DEF Families
  <2>2. \A t \in pending : Ready(t, dom)
    BY <1>7
  <2> QED BY <1>6, <1>7, <1>9, <2>1, <2>2, OnBindKeeps
<1>10. CASE onbinderror({call}, domain, pending, lookups, peer)
  <2>1. \A t \in pending : Queued(t)
    BY <1>7
  <2> QED BY <1>6, <1>7, <1>10, <2>1, OnBindErrorKeeps
<1> QED BY <1>8, <1>9, <1>10

\* What a pipe accepts binds the socket whatever waits and is looked up.
LEMMA IpcAcceptKeeps ==
    ASSUME Inductive, NEW dom \in {4, 6}, ipcAccept(dom)
    PROVE  Inductive'
<1>1. domain = 0 /\ onbind({}, dom, pending, lookups, peer)
  BY DEF ipcAccept
<1>2. dom \in Families /\ (family # 0 => dom = family)
  BY <1>1 DEF Inductive, FamilyKnown, Families
<1>3. \A t \in pending : Ready(t, dom)
  BY <1>1, PendingQueued, QueuedIsReady
<1>4. peer \in {"none", "connecting", "connected"}
  BY DEF Inductive, TypeOK
<1>5. \A c \in {} : Proper(c, dom)
  OBVIOUS
<1> QED BY <1>1, <1>2, <1>3, <1>4, <1>5, OnBindKeeps

\* What connect and send do with a task that was checked, and whose default, if it
\* has one, was picked now.
LEMMA BindMaybeKeeps ==
    ASSUME Inductive, NEW t, Queued(t),
           NEW p \in {"none", "connecting", "connected"}, bindMaybe(t, p)
    PROVE  Inductive'
<1>1. /\ family \in {0} \cup Families /\ domain \in {0} \cup Families
      /\ family # 0 => domain = family
      /\ state = "bound" => family # 0
  BY DEF Inductive, TypeOK, FamilyKnown
<1>2. CASE /\ state = "bound"
           /\ given' = Calls({t}, family)
           /\ lookups' = lookups \cup Asking({t}, family)
           /\ peer' \in PeerAfter(given', p)
           /\ UNCHANGED <<family, domain, state, pending>>
  <2>1. family \in Families /\ domain = family
    BY <1>1, <1>2 DEF Families
  <2>2. \A u \in {t} : Ready(u, family)
    BY <2>1, QueuedIsReady
  <2>3. GivenProper'
    BY <1>2, <2>1, <2>2, CallsProper DEF GivenProper, Proper
  <2>4. \A u \in Asking({t}, family) : u \in Looked /\ u.op # "bind" /\ u.asked = family
    BY <2>1, <2>2, AskingLooked
  <2>5. TypeOK'
    <3>1. given' \subseteq NativeCall
      BY <2>3 DEF GivenProper, Proper
    <3>2. peer' \in {"none", "connecting", "connected"}
      BY <1>2, PeerAfterType
    <3> QED BY <1>2, <2>4, <3>1, <3>2 DEF Inductive, TypeOK
  <2>6. LookupsFollow'
    <3>1. \A u, v \in lookups' : u.op = "bind" /\ v.op = "bind" => v = u
      BY <1>2, <2>4 DEF Inductive, LookupsFollow
    <3>2. \A u \in lookups' : u.op # "bind" => u.asked = family
      BY <1>2, <2>4 DEF Inductive, LookupsFollow
    <3> QED BY <1>2, <3>1, <3>2 DEF LookupsFollow
  <2> QED BY <1>2, <2>3, <2>5, <2>6 DEF Inductive, FamilyKnown, PendingWaits,
             PendingChecked, DefaultsPicked, validHost, validLength
<1>3. CASE /\ state \in {"binding", "failing"}
           /\ pending' = pending \cup {t}
           /\ peer' = p
           /\ given' = {}
           /\ UNCHANGED <<family, domain, state, lookups>>
  <2>1. TypeOK'
    BY <1>3 DEF Inductive, TypeOK, Queued
  <2>2. LookupsFollow' /\ FamilyKnown' /\ PendingWaits' /\ GivenProper'
    BY <1>3 DEF Inductive, LookupsFollow, FamilyKnown, PendingWaits, GivenProper
  <2>3. PendingChecked'
    BY <1>3 DEF Inductive, PendingChecked, Queued, validHost, validLength
  <2>4. DefaultsPicked'
    BY <1>1, <1>3 DEF Inductive, DefaultsPicked, Queued
  <2> QED BY <2>1, <2>2, <2>3, <2>4 DEF Inductive
<1>4. CASE /\ state = "unbound"
           /\ LET x == _wildcard(family) IN bindNative(x, x.ip, pending \cup {t}, lookups, p)
  <2>1. PICK x : x = _wildcard(family)
    OBVIOUS
  <2>2. x \in Address /\ x.ip # 0 /\ x.bytes <= MaxLength
    BY <2>1, WildcardBinds
  <2>3. bindNative(x, x.ip, pending \cup {t}, lookups, p)
    BY <1>4, <2>1
  <2>4. \A u \in pending \cup {t} : Queued(u)
    BY PendingQueued
  <2>5. lookups = {}
    BY <1>4, UnboundIsIdle
  <2> QED BY <1>4, <2>2, <2>3, <2>4, <2>5, BindNativeKeeps
<1> QED BY <1>2, <1>3, <1>4 DEF bindMaybe

LEMMA ConnectKeeps ==
    ASSUME Inductive, NEW x \in Passed \cup {Omitted}, connect(x)
    PROVE  Inductive'
<1>1. PICK host : host = IF x = Omitted THEN _loopback(family) ELSE x
  OBVIOUS
<1>2. PICK early \in BOOLEAN : early = (family = 0)
  OBVIOUS
<1>3. PICK t : t = Task("connect", host, early)
  OBVIOUS
<1>4. validHost(host) /\ bindMaybe(t, "connecting")
  BY <1>1, <1>2, <1>3 DEF connect
<1>5. t = [op |-> "connect", address |-> host, early |-> early, asked |-> 0]
  BY <1>3 DEF Task
<1>6. /\ host \in Address
      /\ host.from = "socket" => host.ip = IF family = 6 THEN 6 ELSE 4
  <2>1. CASE x = Omitted
    BY <1>1, <2>1, OwnAddress DEF Inductive, TypeOK
  <2>2. CASE x # Omitted
    BY <1>1, <2>2, PassedType
  <2> QED BY <2>1, <2>2
<1>7. t \in Waiting
  BY <1>5, <1>6 DEF Waiting
<1>8. ASSUME t.address.from = "socket"
      PROVE  IF t.early THEN t.address.ip = 4 ELSE family # 0 /\ t.address.ip = family
  <2>1. t.address.ip = IF family = 6 THEN 6 ELSE 4
    BY <1>5, <1>6, <1>8
  <2>2. family \in {0, 4, 6}
    BY DEF Inductive, TypeOK, Families
  <2>3. CASE family = 0
    <3>1. early
      BY <1>2, <2>3
    <3>2. t.early
      BY <1>5, <3>1
    <3> QED BY <2>1, <2>3, <3>2
  <2>4. CASE family # 0
    <3>1. ~early
      BY <1>2, <2>4
    <3>2. ~t.early
      BY <1>5, <3>1
    <3> QED BY <2>1, <2>2, <2>4, <3>2
  <2> QED BY <2>3, <2>4
<1>9. Queued(t)
  BY <1>4, <1>5, <1>7, <1>8 DEF Queued
<1> QED BY <1>4, <1>9, BindMaybeKeeps

LEMMA SendKeeps ==
    ASSUME Inductive, NEW x \in Passed \cup {Omitted}, send(x)
    PROVE  Inductive'
<1>1. PICK t : t = Task("send", x, FALSE)
  OBVIOUS
<1>2. t = [op |-> "send", address |-> x, early |-> FALSE, asked |-> 0]
  BY <1>1 DEF Task
<1>3. x \in Address /\ x.from = "program"
  BY PassedType
<1>4. t \in Waiting
  BY <1>2, <1>3 DEF Waiting
<1>5. validHost(x) /\ bindMaybe(t, peer) /\ peer \in {"none", "connecting", "connected"}
  BY <1>1 DEF send, Inductive, TypeOK
<1>6. Queued(t)
  BY <1>2, <1>3, <1>4, <1>5 DEF Queued
<1> QED BY <1>5, <1>6, BindMaybeKeeps

\* The steps that neither bind nor look up.
LEMMA QuietStepsKeep ==
    ASSUME Inductive, runBindError \/ disconnect \/ UNCHANGED vars
    PROVE  Inductive'
<1>1. CASE runBindError
  <2>1. TypeOK'
    BY <1>1 DEF runBindError, Inductive, TypeOK
  <2>2. lookups = {}
    BY <1>1 DEF runBindError, Inductive, LookupsFollow
  <2> QED BY <1>1, <2>1, <2>2 DEF runBindError, Inductive, FamilyKnown, PendingWaits,
             LookupsFollow, PendingChecked, DefaultsPicked, GivenProper
<1>2. CASE disconnect
  BY <1>2 DEF disconnect, Inductive, TypeOK, FamilyKnown, PendingWaits, LookupsFollow,
     PendingChecked, DefaultsPicked, GivenProper, validHost, validLength
<1>3. CASE UNCHANGED vars
  BY <1>3 DEF vars, Inductive, TypeOK, FamilyKnown, PendingWaits, LookupsFollow,
     PendingChecked, DefaultsPicked, GivenProper, Proper, validHost, validLength
<1> QED BY <1>1, <1>2, <1>3

LEMMA SetAddressKeeps ==
    ASSUME Inductive, NEW x \in Passed, setAddress(x)
    PROVE  Inductive'
<1>1. PICK call : call = Calling(Task("option", x, FALSE), x, x.ip)
  OBVIOUS
<1>2. call = [op |-> "option", address |-> x, family |-> x.ip, early |-> FALSE]
  BY <1>1 DEF Calling, Task
<1>3. x \in Address /\ x.ip \in {0} \cup Families
  BY PassedType DEF Address
<1>4. call \in NativeCall
  BY <1>2, <1>3 DEF NativeCall
<1>5. /\ state = "bound" /\ x.bytes <= MaxLength /\ given' = {call}
      /\ UNCHANGED <<family, domain, state, peer, pending, lookups>>
  BY <1>1 DEF setAddress, validLength
<1>6. GivenProper'
  <2>1. \A d : Proper(call, d)
    BY <1>2, <1>4, <1>5 DEF Proper
  <2> QED BY <1>5, <2>1 DEF GivenProper, Proper
<1>7. TypeOK'
  BY <1>4, <1>5 DEF Inductive, TypeOK
<1> QED BY <1>5, <1>6, <1>7 DEF Inductive, FamilyKnown, PendingWaits, LookupsFollow,
     PendingChecked, DefaultsPicked, validHost, validLength

\* What the end of the lookup of a bind finds: nothing else to look up, or a socket
\* that a pipe has bound.
LEMMA BindLookupEnds ==
    ASSUME Inductive, NEW t \in lookups, t.op = "bind"
    PROVE  /\ lookups \ {t} \subseteq lookups
           /\ state # "bound" => lookups \ {t} = {}
           /\ \A u \in pending : Queued(u)
           /\ state = "bound" => pending = {}
<1>1. state # "bound" => lookups \ {t} = {}
  BY DEF Inductive, LookupsFollow
<1>2. state = "bound" => pending = {}
  BY DEF Inductive, PendingWaits
<1> QED BY <1>1, <1>2, PendingQueued

LEMMA LookupFailedKeeps ==
    ASSUME Inductive, NEW t \in lookups, lookupFailed(t)
    PROVE  Inductive'
<1>1. CASE t.op = "bind"
  <2>1. onbinderror({}, domain, pending, lookups \ {t}, peer)
    BY <1>1 DEF lookupFailed
  <2>2. /\ family \in {0} \cup Families /\ domain \in {0} \cup Families
        /\ family # 0 => domain = family
        /\ peer \in {"none", "connecting", "connected"}
    BY DEF Inductive, TypeOK, FamilyKnown
  <2>3. \A c \in {} : Proper(c, domain)
    OBVIOUS
  <2> QED BY <1>1, <2>1, <2>2, <2>3, BindLookupEnds, OnBindErrorKeeps
<1>2. CASE t.op # "bind"
  <2>1. /\ lookups' = lookups \ {t} /\ given' = {}
        /\ peer' = IF t.op = "connect" THEN "none" ELSE peer
        /\ UNCHANGED <<family, domain, state, pending>>
    BY <1>2 DEF lookupFailed
  <2>2. TypeOK'
    BY <2>1 DEF Inductive, TypeOK
  <2>3. LookupsFollow'
    BY <2>1 DEF Inductive, LookupsFollow
  <2> QED BY <2>1, <2>2, <2>3 DEF Inductive, FamilyKnown, PendingWaits,
             PendingChecked, DefaultsPicked, GivenProper, validHost, validLength
<1> QED BY <1>1, <1>2

LEMMA LookupAnsweredKeeps ==
    ASSUME Inductive, NEW t \in lookups, NEW y \in Texts, NEW said \in {0, 4, 6},
           NEW x, x = From("lookup", y), lookupAnswered(t, x, said)
    PROVE  Inductive'
<1>1. x \in Address /\ x.from = "lookup" /\ x.ip # 0 /\ x.bytes <= MaxLength
  BY FromType DEF From, lookupAnswered, resolvedHost, validLength
<1>2. peer \in {"none", "connecting", "connected"}
  BY DEF Inductive, TypeOK
<1>3. CASE t.op = "bind"
  <2>1. bindNative(x, x.ip, pending, lookups \ {t}, peer)
    BY <1>3 DEF lookupAnswered, resolvedFamily
  <2> QED BY <1>1, <1>2, <1>3, <2>1, BindLookupEnds, BindNativeKeeps
<1>4. CASE t.op # "bind"
  <2>1. PICK call : call = Calling(t, x, x.ip)
    OBVIOUS
  <2>2. call = [op |-> t.op, address |-> x, family |-> x.ip, early |-> t.early]
    BY <2>1 DEF Calling
  <2>3. /\ lookups' = lookups \ {t} /\ given' = {call} /\ peer' \in PeerAfter(given', peer)
        /\ UNCHANGED <<family, domain, state, pending>>
    BY <1>4, <2>1 DEF lookupAnswered, resolvedFamily
  <2>4. call \in NativeCall
    <3>1. t \in Looked
      BY DEF Inductive, TypeOK
    <3>2. t.op \in {"connect", "send"} /\ t.early \in BOOLEAN
      BY <1>4, <3>1 DEF Looked
    <3>3. x.ip \in {0} \cup Families
      BY <1>1 DEF Address
    <3> QED BY <1>1, <2>2, <3>2, <3>3 DEF NativeCall
  <2>5. GivenProper'
    <3>1. \A d : Proper(call, d)
      BY <1>1, <2>2, <2>4 DEF Proper
    <3> QED BY <2>3, <3>1 DEF GivenProper, Proper
  <2>6. TypeOK'
    <3>1. peer' \in {"none", "connecting", "connected"}
      BY <1>2, <2>3, PeerAfterType
    <3> QED BY <2>3, <2>4, <3>1 DEF Inductive, TypeOK
  <2>7. LookupsFollow'
    BY <2>3 DEF Inductive, LookupsFollow
  <2> QED BY <2>3, <2>5, <2>6, <2>7 DEF Inductive, FamilyKnown, PendingWaits,
             PendingChecked, DefaultsPicked, validHost, validLength
<1> QED BY <1>3, <1>4

-----------------------------------------------------------------------------
(* The theorems *)

LEMMA InitInductive == Init => Inductive
BY DEF Init, Inductive, TypeOK, Families, FamilyKnown, PendingWaits, LookupsFollow,
   PendingChecked, DefaultsPicked, GivenProper

LEMMA StepInductive == Inductive /\ [Next]_vars => Inductive'
<1> SUFFICES ASSUME Inductive, [Next]_vars
             PROVE  Inductive'
  OBVIOUS
<1>1. ASSUME NEW x \in Passed \cup {Omitted}, bind(x) \/ connect(x) \/ send(x)
      PROVE  Inductive'
  BY <1>1, BindKeeps, ConnectKeeps, SendKeeps
<1>2. ASSUME NEW x \in Passed, setAddress(x)
      PROVE  Inductive'
  BY <1>2, SetAddressKeeps
<1>3. ASSUME NEW dom \in {4, 6}, bindFd(dom) \/ ipcAccept(dom)
      PROVE  Inductive'
  BY <1>3, BindFdKeeps, IpcAcceptKeeps
<1>4. CASE runBindError \/ disconnect \/ UNCHANGED vars
  BY <1>4, QuietStepsKeep
<1>5. ASSUME NEW t \in lookups, lookupFailed(t)
      PROVE  Inductive'
  BY <1>5, LookupFailedKeeps
<1>6. ASSUME NEW t \in lookups, NEW x \in {From("lookup", y) : y \in Texts},
             NEW said \in {0, 4, 6}, lookupAnswered(t, x, said)
      PROVE  Inductive'
  BY <1>6, LookupAnsweredKeeps
<1> QED BY <1>1, <1>2, <1>3, <1>4, <1>5, <1>6 DEF Next

\* The families that the socket and its handle know, what waits and what is looked up
\* fit together in every reachable state, whatever texts programs and lookups come
\* up with.
THEOREM AddressesInductive == Spec => []Inductive
BY InitInductive, StepInductive, PTL DEF Spec

\* No address fills the buffer of the handle, however it came to a bind, a connect,
\* a send or a multicast option and however long it waited.
THEOREM AddressesFit == Spec => []Fits
<1>1. Inductive => Fits
  BY LengthFits DEF Inductive, GivenProper, Proper, Fits, NativeCall, Address
<1> QED BY <1>1, AddressesInductive, PTL

\* What is bound, connected or sent to is an address and parsed as one of its family.
THEOREM AddressesParsed == Spec => []ParsedAsItIs
<1>1. Inductive => ParsedAsItIs
  BY DEF Inductive, GivenProper, Proper, ParsedAsItIs
<1> QED BY <1>1, AddressesInductive, PTL

\* A default is of the family of the socket, whether a lookup, a descriptor or a pipe
\* decided that and whatever the call waited for, but for the IPv4 of a connect that
\* was made while the socket had no family.
THEOREM DefaultsFollow == Spec => []DefaultFollowsSocket
<1>1. Inductive => DefaultFollowsSocket
  BY DEF Inductive, GivenProper, Proper, DefaultFollowsSocket
<1> QED BY <1>1, AddressesInductive, PTL

\* A connect or a send asks the lookup for the family of the socket.
THEOREM LookupsAsked == Spec => []AskedForFamily
<1>1. Inductive => AskedForFamily
  BY DEF Inductive, LookupsFollow, FamilyKnown, AskedForFamily
<1> QED BY <1>1, AddressesInductive, PTL

=============================================================================
