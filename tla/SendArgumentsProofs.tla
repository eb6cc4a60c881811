------------------------- MODULE SendArgumentsProofs -------------------------
(***************************************************************************)
(* Theorems of SendArguments: how send reads its arguments, for every size *)
(* of the message, all indices, ports and texts, and what isIP makes of a  *)
(* text.                                                                   *)
(***************************************************************************)
EXTENDS SendArguments, SequenceTheorems, TLAPS

-----------------------------------------------------------------------------
(* Values and their places *)

HostTexts == Hosts \cup {[kind |-> "name"]}

Value ==
    {Undefined, EmptyString, Callback} \cup {Number(n) : n \in Int}
        \cup {Host(t) : t \in HostTexts}

\* The first of a sequence, or nothing.
First(s) == IF s = <<>> THEN Undefined ELSE s[1]

\* The types of values.
LEMMA Types ==
    /\ Undefined.type = "undefined" /\ Undefined.value = 0
    /\ Null.type = "null" /\ Null.value = 0
    /\ EmptyString.type = "string" /\ EmptyString.value = 0
    /\ Callback.type = "function" /\ Callback.value = 1
    /\ \A n : Number(n).type = "number" /\ Number(n).value = n
    /\ \A t : Host(t).type = "string" /\ Host(t).value = 1 /\ Host(t).text = t
BY DEF Undefined, Null, EmptyString, Callback, Number, Host

\* What a call may be made of.
LEMMA CallParts ==
    ASSUME NEW c \in Call
    PROVE  /\ c.connected \in BOOLEAN
           /\ c.message \in {"bytes", "list", "badlist", "other"}
           /\ c.range = <<>> \/ \E o, n \in Int : c.range = <<Number(o), Number(n)>>
           /\ c.port \in {<<>>, <<Undefined>>} \/ \E p \in Nat : c.port = <<Number(p)>>
           /\ \/ c.address \in {<<>>, <<Undefined>>, <<EmptyString>>}
              \/ \E t \in HostTexts : c.address = <<Host(t)>>
           /\ c.cb \in {<<>>, <<Callback>>}
<1>1. CASE c \in Forms
  <2>1. /\ c.connected \in BOOLEAN
        /\ c.message \in {"bytes", "list", "badlist", "other"}
        /\ c.range \in Ranges
        /\ c.port \in {<<>>, <<Undefined>>} \cup {<<Number(p)>> : p \in Ports}
        /\ c.address \in {<<>>, <<Undefined>>, <<EmptyString>>, <<AnyHost>>}
        /\ c.cb \in {<<>>, <<Callback>>}
    BY <1>1 DEF Forms
  <2>2. c.range = <<>> \/ \E o, n \in Int : c.range = <<Number(o), Number(n)>>
    <3>1. ASSUME c.range # <<>>
          PROVE  \E o, n \in Indices : c.range = <<Number(o), Number(n)>>
      BY <2>1, <3>1 DEF Ranges
    <3>2. Indices \subseteq Int
      BY SendArgumentsAssumption DEF SendArgumentsAssumption
    <3> QED BY <3>1, <3>2
  <2>3. c.port \in {<<>>, <<Undefined>>} \/ \E p \in Nat : c.port = <<Number(p)>>
    <3>1. c.port \in {<<>>, <<Undefined>>} \/ \E p \in Ports : c.port = <<Number(p)>>
      BY <2>1
    <3>2. Ports \subseteq Nat
      BY SendArgumentsAssumption DEF SendArgumentsAssumption
    <3> QED BY <3>1, <3>2
  <2>4. \/ c.address \in {<<>>, <<Undefined>>, <<EmptyString>>}
        \/ \E t \in HostTexts : c.address = <<Host(t)>>
    BY <2>1 DEF AnyHost, HostTexts
  <2> QED BY <2>1, <2>2, <2>3, <2>4
<1>2. CASE c \in ToHosts
  <2>1. PICK t \in Hosts :
           c = [connected |-> FALSE, message |-> "bytes", range |-> <<>>, port |-> <<Number(1)>>,
                address |-> <<Host(t)>>, cb |-> <<>>]
    BY <1>2 DEF ToHosts
  <2> QED BY <2>1 DEF HostTexts
<1> QED BY <1>1, <1>2 DEF Call

\* What may not be left out.
LEMMA CallOrder ==
    ASSUME NEW c \in Call
    PROVE  /\ c.port = <<>> => c.address = <<>>
           /\ c.port = <<Undefined>> =>
                 c.range # <<>> /\ c.address = <<Undefined>> /\ c.cb # <<>>
           /\ c.address = <<Undefined>> => c.cb # <<>>
<1>1. CASE c \in Forms
  BY <1>1 DEF Forms
<1>2. CASE c \in ToHosts
  <2>1. PICK t \in Hosts :
           c = [connected |-> FALSE, message |-> "bytes", range |-> <<>>, port |-> <<Number(1)>>,
                address |-> <<Host(t)>>, cb |-> <<>>]
    BY <1>2 DEF ToHosts
  <2>2. c.port = <<Number(1)>> /\ c.address = <<Host(t)>>
    BY <2>1
  <2>3. c.port # <<>> /\ c.port # <<Undefined>> /\ c.address # <<Undefined>>
    <3>1. Number(1) # Undefined /\ Host(t) # Undefined
      BY Types
    <3>2. <<Number(1)>>[1] = Number(1) /\ <<Undefined>>[1] = Undefined /\ <<Host(t)>>[1] = Host(t)
      OBVIOUS
    <3>3. <<Number(1)>> # <<>>
      OBVIOUS
    <3> QED BY <2>2, <3>1, <3>2, <3>3
  <2> QED BY <2>3
<1> QED BY <1>1, <1>2 DEF Call

\* Each part is a sequence of values.
LEMMA PartTypes ==
    ASSUME NEW c \in Call
    PROVE  /\ c.range \in Seq(Value) /\ Len(c.range) = (IF c.range = <<>> THEN 0 ELSE 2)
           /\ c.port \in Seq(Value) /\ Len(c.port) = (IF c.port = <<>> THEN 0 ELSE 1)
           /\ c.address \in Seq(Value) /\ Len(c.address) = (IF c.address = <<>> THEN 0 ELSE 1)
           /\ c.cb \in Seq(Value) /\ Len(c.cb) = (IF c.cb = <<>> THEN 0 ELSE 1)
<1>1. /\ <<>> \in Seq(Value) /\ Len(<<>>) = 0
      /\ \A v \in Value : <<v>> \in Seq(Value) /\ Len(<<v>>) = 1 /\ <<v>> # <<>>
      /\ \A v, w \in Value : <<v, w>> \in Seq(Value) /\ Len(<<v, w>>) = 2 /\ <<v, w>> # <<>>
  OBVIOUS
<1>2. /\ Undefined \in Value /\ EmptyString \in Value /\ Callback \in Value
      /\ \A n \in Int : Number(n) \in Value
      /\ \A t \in HostTexts : Host(t) \in Value
  BY DEF Value
<1>3. c.range \in Seq(Value) /\ Len(c.range) = (IF c.range = <<>> THEN 0 ELSE 2)
  BY <1>1, <1>2, CallParts
<1>4. c.port \in Seq(Value) /\ Len(c.port) = (IF c.port = <<>> THEN 0 ELSE 1)
  <2>1. \A p \in Nat : Number(p) \in Value
    BY <1>2
  <2> QED BY <1>1, <1>2, <2>1, CallParts
<1>5. c.address \in Seq(Value) /\ Len(c.address) = (IF c.address = <<>> THEN 0 ELSE 1)
  BY <1>1, <1>2, CallParts
<1>6. c.cb \in Seq(Value) /\ Len(c.cb) = (IF c.cb = <<>> THEN 0 ELSE 1)
  BY <1>1, <1>2, CallParts
<1> QED BY <1>3, <1>4, <1>5, <1>6

\* What stands at a place of a sequence.
At(s, i) == IF i <= Len(s) THEN s[i] ELSE Undefined

\* A place of two sequences is one of the first or of the second.
LEMMA AtConcat ==
    ASSUME NEW s \in Seq(Value), NEW t \in Seq(Value), NEW i \in Nat \ {0}
    PROVE  /\ s \o t \in Seq(Value) /\ Len(s \o t) = Len(s) + Len(t)
           /\ At(s \o t, i) = IF i <= Len(s) THEN s[i] ELSE At(t, i - Len(s))
<1>1. Len(s) \in Nat /\ Len(t) \in Nat
  BY LenProperties
<1>2. PICK u : u = s \o t
  OBVIOUS
<1>3. /\ u \in Seq(Value) /\ Len(u) = Len(s) + Len(t)
      /\ \A j \in 1..(Len(s) + Len(t)) : u[j] = IF j <= Len(s) THEN s[j] ELSE t[j - Len(s)]
  BY <1>2, ConcatProperties
<1>4. CASE i <= Len(s) + Len(t)
  <2>1. i \in 1..(Len(s) + Len(t))
    BY <1>1, <1>4
  <2>2. u[i] = IF i <= Len(s) THEN s[i] ELSE t[i - Len(s)]
    BY <1>3, <2>1
  <2>3. i - Len(s) <= Len(t)
    BY <1>1, <1>4
  <2> QED BY <1>2, <1>3, <1>4, <2>2, <2>3 DEF At
<1>5. CASE ~(i <= Len(s) + Len(t))
  <2>1. ~(i <= Len(s)) /\ ~(i - Len(s) <= Len(t))
    BY <1>1, <1>5
  <2> QED BY <1>2, <1>3, <1>5, <2>1 DEF At
<1> QED BY <1>2, <1>3, <1>4, <1>5

\* What stands at the places of a call without and with offset and length.
LEMMA Places ==
    ASSUME NEW c \in Call
    PROVE  /\ c.range = <<>> /\ c.port = <<>> =>
                 Arg(c, 1) = First(c.cb) /\ \A i \in 2..5 : Arg(c, i) = Undefined
           /\ c.range = <<>> /\ c.port # <<>> =>
                 /\ Arg(c, 1) = c.port[1] /\ Arg(c, 4) = Undefined /\ Arg(c, 5) = Undefined
                 /\ c.address = <<>> => Arg(c, 2) = First(c.cb) /\ Arg(c, 3) = Undefined
                 /\ c.address # <<>> => Arg(c, 2) = c.address[1] /\ Arg(c, 3) = First(c.cb)
           /\ c.range # <<>> =>
                 Arg(c, 1) = c.range[1] /\ Arg(c, 2) = c.range[2]
           /\ c.range # <<>> /\ c.port = <<>> =>
                 Arg(c, 3) = First(c.cb) /\ Arg(c, 4) = Undefined /\ Arg(c, 5) = Undefined
           /\ c.range # <<>> /\ c.port # <<>> =>
                 /\ Arg(c, 3) = c.port[1]
                 /\ c.address = <<>> => Arg(c, 4) = First(c.cb) /\ Arg(c, 5) = Undefined
                 /\ c.address # <<>> => Arg(c, 4) = c.address[1] /\ Arg(c, 5) = First(c.cb)
<1>1. PICK a, b, d, e : a = c.range /\ b = c.port /\ d = c.address /\ e = c.cb
  OBVIOUS
<1>2. /\ a \in Seq(Value) /\ Len(a) = (IF a = <<>> THEN 0 ELSE 2)
      /\ b \in Seq(Value) /\ Len(b) = (IF b = <<>> THEN 0 ELSE 1)
      /\ d \in Seq(Value) /\ Len(d) = (IF d = <<>> THEN 0 ELSE 1)
      /\ e \in Seq(Value) /\ Len(e) = (IF e = <<>> THEN 0 ELSE 1)
      /\ b = <<>> => d = <<>>
  BY <1>1, PartTypes, CallOrder
<1>3. PICK ab, abd, all : ab = a \o b /\ abd = ab \o d /\ all = abd \o e
  OBVIOUS
<1>4. /\ ab \in Seq(Value) /\ Len(ab) = Len(a) + Len(b)
      /\ \A i \in Nat \ {0} : At(ab, i) = IF i <= Len(a) THEN a[i] ELSE At(b, i - Len(a))
  <2>1. a \in Seq(Value) /\ b \in Seq(Value)
    BY <1>2
  <2>2. /\ a \o b \in Seq(Value) /\ Len(a \o b) = Len(a) + Len(b)
        /\ \A i \in Nat \ {0} :
              At(a \o b, i) = IF i <= Len(a) THEN a[i] ELSE At(b, i - Len(a))
    BY <2>1, AtConcat
  <2> QED BY <1>3, <2>2
<1>5. /\ abd \in Seq(Value) /\ Len(abd) = Len(ab) + Len(d)
      /\ \A i \in Nat \ {0} : At(abd, i) = IF i <= Len(ab) THEN ab[i] ELSE At(d, i - Len(ab))
  <2>1. ab \in Seq(Value) /\ d \in Seq(Value)
    BY <1>2, <1>4
  <2>2. /\ ab \o d \in Seq(Value) /\ Len(ab \o d) = Len(ab) + Len(d)
        /\ \A i \in Nat \ {0} :
              At(ab \o d, i) = IF i <= Len(ab) THEN ab[i] ELSE At(d, i - Len(ab))
    BY <2>1, AtConcat
  <2> QED BY <1>3, <2>2
<1>6. \A i \in Nat \ {0} : At(all, i) = IF i <= Len(abd) THEN abd[i] ELSE At(e, i - Len(abd))
  <2>1. abd \in Seq(Value) /\ e \in Seq(Value)
    BY <1>2, <1>5
  <2>2. /\ abd \o e \in Seq(Value) /\ Len(abd \o e) = Len(abd) + Len(e)
        /\ \A i \in Nat \ {0} :
              At(abd \o e, i) = IF i <= Len(abd) THEN abd[i] ELSE At(e, i - Len(abd))
    BY <2>1, AtConcat
  <2> QED BY <1>3, <2>2
<1>7. \A i : Arg(c, i) = At(all, i)
  BY <1>1, <1>3 DEF Arg, Args, At
<1>8. \A i \in 1..5 :
         At(all, i) = IF i <= Len(a) THEN a[i]
                      ELSE IF i <= Len(a) + Len(b) THEN b[i - Len(a)]
                      ELSE IF i <= Len(a) + Len(b) + Len(d) THEN d[i - Len(a) - Len(b)]
                      ELSE At(e, i - Len(a) - Len(b) - Len(d))
  <2>1. Len(a) \in Nat /\ Len(b) \in Nat /\ Len(d) \in Nat
    BY <1>2
  <2> TAKE i \in 1..5
  <2>2. i \in Nat \ {0}
    OBVIOUS
  <2>3. i <= Len(abd) => abd[i] = At(abd, i)
    BY DEF At
  <2>4. i <= Len(ab) => ab[i] = At(ab, i)
    BY DEF At
  <2>5. i - Len(a) <= Len(b) => At(b, i - Len(a)) = b[i - Len(a)]
    BY DEF At
  <2>6. i - Len(ab) <= Len(d) => At(d, i - Len(ab)) = d[i - Len(ab)]
    BY DEF At
  <2>7. CASE i <= Len(a)
    BY <1>4, <1>5, <1>6, <2>1, <2>2, <2>3, <2>4, <2>7
  <2>8. CASE ~(i <= Len(a)) /\ i <= Len(ab)
    BY <1>4, <1>5, <1>6, <2>1, <2>2, <2>3, <2>4, <2>5, <2>8
  <2>9. CASE ~(i <= Len(ab)) /\ i <= Len(abd)
    BY <1>4, <1>5, <1>6, <2>1, <2>2, <2>3, <2>6, <2>9
  <2>10. CASE ~(i <= Len(abd))
    BY <1>4, <1>5, <1>6, <2>1, <2>2, <2>10
  <2> QED BY <2>7, <2>8, <2>9, <2>10
<1>9. At(e, 1) = First(e) /\ \A i \in 2..5 : At(e, i) = Undefined
  BY <1>2 DEF At, First
<1>10. CASE a = <<>> /\ b = <<>>
  <2>1. Len(a) = 0 /\ Len(b) = 0 /\ Len(d) = 0
    BY <1>2, <1>10
  <2>2. \A i \in 1..5 : At(all, i) = At(e, i)
    BY <1>8, <2>1
  <2> QED BY <1>1, <1>7, <1>9, <1>10, <2>2
<1>11. CASE a = <<>> /\ b # <<>>
  <2>1. Len(a) = 0 /\ Len(b) = 1
    BY <1>2, <1>11
  <2>2. \A i \in 1..5 :
           At(all, i) = IF i = 1 THEN b[1] ELSE IF i <= 1 + Len(d) THEN d[i - 1]
                        ELSE At(e, i - 1 - Len(d))
    BY <1>8, <2>1
  <2>3. CASE d = <<>>
    <3>1. Len(d) = 0
      BY <1>2, <2>3
    <3>2. \A i \in 1..5 : At(all, i) = IF i = 1 THEN b[1] ELSE At(e, i - 1)
      BY <2>2, <3>1
    <3> QED BY <1>1, <1>7, <1>9, <1>11, <2>3, <3>2
  <2>4. CASE d # <<>>
    <3>1. Len(d) = 1
      BY <1>2, <2>4
    <3>2. \A i \in 1..5 : At(all, i) = IF i = 1 THEN b[1] ELSE IF i = 2 THEN d[1] ELSE At(e, i - 2)
      BY <2>2, <3>1
    <3> QED BY <1>1, <1>7, <1>9, <1>11, <2>4, <3>2
  <2> QED BY <2>3, <2>4
<1>12. CASE a # <<>>
  <2>1. Len(a) = 2
    BY <1>2, <1>12
  <2>2. Arg(c, 1) = c.range[1] /\ Arg(c, 2) = c.range[2]
    BY <1>1, <1>7, <1>8, <2>1
  <2>3. CASE b = <<>>
    <3>1. Len(b) = 0 /\ Len(d) = 0
      BY <1>2, <2>3
    <3>2. \A i \in 3..5 : At(all, i) = At(e, i - 2)
      BY <1>8, <2>1, <3>1
    <3> QED BY <1>1, <1>7, <1>9, <1>12, <2>2, <2>3, <3>2
  <2>4. CASE b # <<>>
    <3>1. Len(b) = 1
      BY <1>2, <2>4
    <3>2. \A i \in 3..5 :
             At(all, i) = IF i = 3 THEN b[1] ELSE IF i <= 3 + Len(d) THEN d[i - 3]
                          ELSE At(e, i - 3 - Len(d))
      BY <1>8, <2>1, <3>1
    <3>3. CASE d = <<>>
      <4>1. Len(d) = 0
        BY <1>2, <3>3
      <4>2. \A i \in 3..5 : At(all, i) = IF i = 3 THEN b[1] ELSE At(e, i - 3)
        BY <3>2, <4>1
      <4> QED BY <1>1, <1>7, <1>9, <1>12, <2>2, <2>4, <3>3, <4>2
    <3>4. CASE d # <<>>
      <4>1. Len(d) = 1
        BY <1>2, <3>4
      <4>2. \A i \in 3..5 : At(all, i) = IF i = 3 THEN b[1] ELSE IF i = 4 THEN d[1] ELSE At(e, i - 4)
        BY <3>2, <4>1
      <4> QED BY <1>1, <1>7, <1>9, <1>12, <2>2, <2>4, <3>4, <4>2
    <3> QED BY <3>3, <3>4
  <2> QED BY <2>3, <2>4
<1> QED BY <1>1, <1>10, <1>11, <1>12

\* The first of a part.
LEMMA Firsts ==
    ASSUME NEW c \in Call
    PROVE  /\ First(c.cb) = IF c.cb = <<>> THEN Undefined ELSE Callback
           /\ c.range # <<>> =>
                 \E o, n \in Int : /\ c.range = <<Number(o), Number(n)>>
                                   /\ c.range[1] = Number(o) /\ c.range[2] = Number(n)
           /\ c.port # <<>> =>
                 c.port[1] = Undefined \/ \E p \in Nat : c.port[1] = Number(p)
           /\ c.address # <<>> =>
                 \/ c.address[1] \in {Undefined, EmptyString}
                 \/ \E t \in HostTexts : c.address[1] = Host(t)
<1>1. \A v, w : <<v>>[1] = v /\ <<v, w>>[1] = v /\ <<v, w>>[2] = w
  OBVIOUS
<1>2. First(c.cb) = IF c.cb = <<>> THEN Undefined ELSE Callback
  BY <1>1, CallParts DEF First
<1>3. c.range # <<>> =>
         \E o, n \in Int : /\ c.range = <<Number(o), Number(n)>>
                           /\ c.range[1] = Number(o) /\ c.range[2] = Number(n)
  BY <1>1, CallParts
<1>4. c.port # <<>> => c.port[1] = Undefined \/ \E p \in Nat : c.port[1] = Number(p)
  BY <1>1, CallParts
<1>5. c.address # <<>> =>
         \/ c.address[1] \in {Undefined, EmptyString}
         \/ \E t \in HostTexts : c.address[1] = Host(t)
  BY <1>1, CallParts
<1> QED BY <1>2, <1>3, <1>4, <1>5

-----------------------------------------------------------------------------
(* Which overload was called *)

\* Only numbers that are not 0, hosts and callbacks are true.
LEMMA Truths ==
    /\ ~Truthy(Undefined) /\ ~Truthy(Null) /\ ~Truthy(EmptyString) /\ Truthy(Callback)
    /\ \A n : Truthy(Number(n)) <=> n # 0
    /\ \A t : Truthy(Host(t))
    /\ IsFunction(Callback) /\ ~IsFunction(Undefined) /\ ~IsFunction(Null)
    /\ ~IsFunction(EmptyString)
    /\ \A n : ~IsFunction(Number(n)) /\ Number(n) # Undefined
    /\ \A t : ~IsFunction(Host(t))
BY Types DEF Truthy, IsFunction

\* The address and the callback as they are read: a callback in the place of an
\* address that is left out is told from it later.
AddressRead(c) == IF c.address = <<>> THEN First(c.cb) ELSE c.address[1]
CbRead(c) == IF c.address = <<>> THEN Undefined ELSE First(c.cb)

\* A port other than 0, and one of 0 without offset and length, is found, and so
\* is all that follows.
LEMMA UnconnectedRead ==
    ASSUME NEW c \in Call, ~c.connected, NEW p \in Nat, c.port = <<Number(p)>>,
           c.range = <<>> \/ p # 0,
           NEW read, read = reading(c)
    PROVE  /\ read.sliced <=> c.range # <<>>
           /\ read.port = Number(p) /\ read.address = AddressRead(c) /\ read.cb = CbRead(c)
<1>1. c.port # <<>> /\ c.port[1] = Number(p)
  OBVIOUS
<1>2. read = readUnconnected(Arg(c, 1), Arg(c, 2), Arg(c, 3), Arg(c, 4), Arg(c, 5))
  BY DEF reading
<1>3. CASE c.range = <<>>
  <2>1. /\ Arg(c, 1) = Number(p) /\ Arg(c, 4) = Undefined
        /\ Arg(c, 2) = AddressRead(c) /\ Arg(c, 3) = CbRead(c)
    BY <1>1, <1>3, Places DEF AddressRead, CbRead
  <2>2. ~Truthy(Arg(c, 3)) \/ IsFunction(Arg(c, 3))
    BY <2>1, Firsts, Truths DEF CbRead
  <2>3. read = Reading(FALSE, Arg(c, 1), Arg(c, 2), Arg(c, 3))
    BY <1>2, <2>1, <2>2, Truths DEF readUnconnected
  <2> QED BY <1>3, <2>1, <2>3 DEF Reading
<1>4. CASE c.range # <<>>
  <2>1. /\ Arg(c, 3) = Number(p) /\ Arg(c, 4) = AddressRead(c) /\ Arg(c, 5) = CbRead(c)
    BY <1>1, <1>4, Places DEF AddressRead, CbRead
  <2>2. read = Reading(TRUE, Arg(c, 3), Arg(c, 4), Arg(c, 5))
    BY <1>2, <1>4, <2>1, Truths DEF readUnconnected
  <2> QED BY <1>4, <2>1, <2>2 DEF Reading
<1> QED BY <1>3, <1>4

\* Without a port, offset or length, what stands in the place of the port is no number.
LEMMA PortlessRead ==
    ASSUME NEW c \in Call, ~c.connected, c.port = <<>>, c.range = <<>>,
           NEW read, read = reading(c)
    PROVE  read.port.type # "number"
<1>1. Arg(c, 1) = First(c.cb) /\ Arg(c, 3) = Undefined /\ Arg(c, 4) = Undefined
  BY Places
<1>2. read = Reading(FALSE, Arg(c, 1), Arg(c, 2), Arg(c, 3))
  BY <1>1, Truths DEF reading, readUnconnected
<1>3. read.port = First(c.cb)
  BY <1>1, <1>2 DEF Reading
<1> QED BY <1>3, Firsts, Types

\* A host is found in any case, and a callback.
LEMMA HostRead ==
    ASSUME NEW c \in Call, ~c.connected, HasHost(c),
           NEW read, read = reading(c)
    PROVE  read.address = c.address[1] /\ \E t \in HostTexts : c.address[1] = Host(t)
<1>1. c.address # <<>> /\ \E t \in HostTexts : c.address[1] = Host(t)
  <2>1. PICK t \in HostTexts : c.address = <<Host(t)>>
    BY CallParts DEF HasHost
  <2> QED BY <2>1
<1>2. c.port # <<>>
  BY <1>1, CallOrder
<1>3. CASE c.range = <<>>
  <2>1. PICK p \in Nat : c.port = <<Number(p)>>
    BY <1>2, <1>3, CallParts, CallOrder
  <2> QED BY <1>1, <1>3, <2>1, UnconnectedRead DEF AddressRead
<1>4. CASE c.range # <<>>
  <2>1. Arg(c, 4) = c.address[1]
    BY <1>1, <1>2, <1>4, Places
  <2>2. Truthy(Arg(c, 4))
    BY <1>1, <2>1, Truths
  <2>3. read = Reading(TRUE, Arg(c, 3), Arg(c, 4), Arg(c, 5))
    BY <2>2 DEF reading, readUnconnected
  <2> QED BY <1>1, <2>1, <2>3 DEF Reading
<1> QED BY <1>3, <1>4

\* On a connected socket a port other than 0 is found.
LEMMA ConnectedPortRead ==
    ASSUME NEW c \in Call, c.connected, NEW p \in Nat \ {0}, c.port = <<Number(p)>>,
           NEW read, read = reading(c)
    PROVE  read.port = Number(p)
<1>1. c.port # <<>> /\ c.port[1] = Number(p)
  OBVIOUS
<1>2. read = readConnected(Arg(c, 1), Arg(c, 2), Arg(c, 3), Arg(c, 4), Arg(c, 5))
  BY DEF reading
<1>3. CASE c.range = <<>>
  <2>1. Arg(c, 1) = Number(p) /\ Arg(c, 2) = AddressRead(c)
    BY <1>1, <1>3, Places DEF AddressRead
  <2>2. Arg(c, 2).type # "number"
    BY <2>1, Firsts, Types DEF AddressRead
  <2>3. read = Reading(FALSE, Arg(c, 1), Arg(c, 4), Arg(c, 5))
    BY <1>2, <2>1, <2>2, Truths DEF readConnected
  <2> QED BY <2>1, <2>3 DEF Reading
<1>4. CASE c.range # <<>>
  <2>1. Arg(c, 3) = Number(p) /\ Arg(c, 2) = c.range[2]
    BY <1>1, <1>4, Places
  <2>2. Arg(c, 2).type = "number"
    BY <1>4, <2>1, Firsts, Types
  <2>3. read = Reading(TRUE, Arg(c, 3), Arg(c, 4), Arg(c, 5))
    BY <1>2, <2>1, <2>2, Truths DEF readConnected
  <2> QED BY <2>1, <2>3 DEF Reading
<1> QED BY <1>3, <1>4

\* Without a port nothing is taken for a destination, and the callback is found.
LEMMA ConnectedRead ==
    ASSUME NEW c \in Call, c.connected, ~HasPort(c),
           NEW read, read = reading(c)
    PROVE  /\ read.sliced <=> c.range # <<>>
           /\ read.port \in {Undefined, Null} /\ read.address = Undefined
           /\ read.cb = First(c.cb)
<1>1. read = readConnected(Arg(c, 1), Arg(c, 2), Arg(c, 3), Arg(c, 4), Arg(c, 5))
  BY DEF reading
<1>2. CASE c.range = <<>>
  <2>1. c.port = <<>>
    BY <1>2, CallOrder DEF HasPort
  <2>2. Arg(c, 1) = First(c.cb) /\ \A i \in 2..5 : Arg(c, i) = Undefined
    BY <1>2, <2>1, Places
  <2>3. Arg(c, 1) = Undefined \/ IsFunction(Arg(c, 1))
    BY <2>2, Firsts, Truths
  <2>4. Arg(c, 2).type # "number"
    <3>1. Arg(c, 2) = Undefined
      BY <2>2
    <3> QED BY <3>1, Types
  <2>5. read = Reading(FALSE, Arg(c, 3), Arg(c, 4), Arg(c, 1))
    BY <1>1, <2>3, <2>4 DEF readConnected
  <2> QED BY <1>2, <2>2, <2>5 DEF Reading
<1>3. CASE c.range # <<>>
  <2>1. Arg(c, 2).type = "number"
    BY <1>3, Places, Firsts, Types
  <2>2. CASE c.port = <<>>
    <3>1. Arg(c, 3) = First(c.cb) /\ Arg(c, 4) = Undefined /\ Arg(c, 5) = Undefined
      BY <1>3, <2>2, Places
    <3>2. CASE c.cb = <<>>
      <4>1. Arg(c, 3) = Undefined /\ First(c.cb) = Undefined
        BY <3>1, <3>2, Firsts
      <4>2. read = Reading(TRUE, Arg(c, 3), Arg(c, 4), Arg(c, 5))
        BY <1>1, <2>1, <4>1, Truths DEF readConnected
      <4> QED BY <1>3, <3>1, <4>1, <4>2 DEF Reading
    <3>3. CASE c.cb # <<>>
      <4>1. Arg(c, 3) = Callback /\ First(c.cb) = Callback
        BY <3>1, <3>3, Firsts
      <4>2. read = Reading(TRUE, Null, Arg(c, 4), Arg(c, 3))
        BY <1>1, <2>1, <4>1, Truths DEF readConnected
      <4> QED BY <1>3, <3>1, <4>1, <4>2 DEF Reading
    <3> QED BY <3>2, <3>3
  <2>3. CASE c.port = <<Undefined>>
    <3>1. c.port # <<>> /\ c.port[1] = Undefined
      BY <2>3
    <3>2. c.address # <<>> /\ c.address[1] = Undefined
      BY <2>3, CallOrder
    <3>3. Arg(c, 3) = Undefined /\ Arg(c, 4) = Undefined /\ Arg(c, 5) = First(c.cb)
      BY <1>3, <3>1, <3>2, Places
    <3>4. read = Reading(TRUE, Arg(c, 3), Arg(c, 4), Arg(c, 5))
      BY <1>1, <2>1, <3>3, Truths DEF readConnected
    <3> QED BY <1>3, <3>3, <3>4 DEF Reading
  <2> QED BY <2>2, <2>3 DEF HasPort
<1> QED BY <1>2, <1>3

-----------------------------------------------------------------------------
(* The checks *)

\* What each check says.
LEMMA ChecksSay ==
    ASSUME NEW c, NEW read
    PROVE  /\ checks(c, read)[1].holds <=>
                 (read.sliced => /\ c.message = "bytes"
                                 /\ inBounds(ToUint32(Arg(c, 1)), ToUint32(Arg(c, 2))))
           /\ checks(c, read)[2].holds <=> (c.connected => ~hasDestination(read))
           /\ checks(c, read)[3].holds <=> c.message \in {"bytes", "list"}
           /\ checks(c, read)[4].holds <=> (~c.connected => validPort(read.port))
           /\ checks(c, read)[5].holds <=>
                 (Truthy(read.address) => read.address.type \in {"string", "function"})
           /\ \A i \in 1..5 : checks(c, read)[i].code # "none"
<1>1. PICK b1, b2, b3, b4, b5 :
         /\ b1 = (read.sliced => /\ c.message = "bytes"
                                 /\ inBounds(ToUint32(Arg(c, 1)), ToUint32(Arg(c, 2))))
         /\ b2 = (c.connected => ~hasDestination(read))
         /\ b3 = (c.message \in {"bytes", "list"})
         /\ b4 = (~c.connected => validPort(read.port))
         /\ b5 = (Truthy(read.address) => read.address.type \in {"string", "function"})
  BY Zenon
<1>2. checks(c, read) = <<[holds |-> b1, code |-> "INVALID_ARGUMENT"],
                          [holds |-> b2, code |-> "SOCKET_ALREADY_CONNECTED"],
                          [holds |-> b3, code |-> "INVALID_ARGUMENT"],
                          [holds |-> b4, code |-> "INVALID_PORT"],
                          [holds |-> b5, code |-> "INVALID_HOST"]>>
  BY <1>1, Zenon DEF checks
<1>3. /\ checks(c, read)[1].holds = b1 /\ checks(c, read)[2].holds = b2
      /\ checks(c, read)[3].holds = b3 /\ checks(c, read)[4].holds = b4
      /\ checks(c, read)[5].holds = b5
  BY <1>2
<1>4. \A i \in 1..5 : checks(c, read)[i].code # "none"
  <2>1. /\ checks(c, read)[1].code = "INVALID_ARGUMENT"
        /\ checks(c, read)[2].code = "SOCKET_ALREADY_CONNECTED"
        /\ checks(c, read)[3].code = "INVALID_ARGUMENT"
        /\ checks(c, read)[4].code = "INVALID_PORT"
        /\ checks(c, read)[5].code = "INVALID_HOST"
    BY <1>2
  <2> QED BY <2>1
<1> QED BY <1>1, <1>3, <1>4, Zenon

\* A set of checks has a first.
LEMMA FirstExists ==
    ASSUME NEW S \in SUBSET (1..5), S # {}
    PROVE  \E i \in S : \A j \in S : i <= j
<1>1. CASE 1 \in S
  BY <1>1
<1>2. CASE 1 \notin S /\ 2 \in S
  BY <1>2
<1>3. CASE 1 \notin S /\ 2 \notin S /\ 3 \in S
  BY <1>3
<1>4. CASE 1 \notin S /\ 2 \notin S /\ 3 \notin S /\ 4 \in S
  BY <1>4
<1>5. CASE 1 \notin S /\ 2 \notin S /\ 3 \notin S /\ 4 \notin S
  <2>1. ASSUME NEW i \in S
        PROVE  i = 5
    <3>1. i \in 1..5 /\ i # 1 /\ i # 2 /\ i # 3 /\ i # 4
      BY <1>5
    <3> QED BY <3>1
  <2>2. PICK i : i \in S
    OBVIOUS
  <2> QED BY <2>1, <2>2
<1> QED BY <1>1, <1>2, <1>3, <1>4, <1>5

\* send throws if a check fails, and makes its request otherwise.
LEMMA ParseChecks ==
    ASSUME NEW c, NEW read, read = reading(c)
    PROVE  IF \A i \in 1..5 : checks(c, read)[i].holds
           THEN parse(c) = request(c, read)
           ELSE parse(c).error # "none"
<1>1. CASE \A i \in 1..5 : checks(c, read)[i].holds
  <2>1. Failures(c, read) = {}
    BY <1>1 DEF Failures
  <2> QED BY <1>1, <2>1 DEF parse
<1>2. CASE ~\A i \in 1..5 : checks(c, read)[i].holds
  <2>1. Failures(c, read) # {} /\ Failures(c, read) \in SUBSET (1..5)
    BY <1>2 DEF Failures
  <2>2. PICK S : S = Failures(c, read)
    OBVIOUS
  <2>3. PICK first : first = CHOOSE i \in S : \A j \in S : i <= j
    OBVIOUS
  <2>4. first \in S
    BY <2>1, <2>2, <2>3, FirstExists
  <2>5. parse(c) = Rejected(checks(c, read)[first].code)
    BY <2>1, <2>2, <2>3 DEF parse
  <2>6. parse(c).error = checks(c, read)[first].code
    BY <2>5 DEF Rejected
  <2> QED BY <1>2, <2>1, <2>2, <2>4, <2>6, ChecksSay
<1> QED BY <1>1, <1>2

\* An accepted call is a request whose checks hold.
LEMMA AcceptedChecks ==
    ASSUME NEW c, NEW read, read = reading(c), parse(c).error = "none"
    PROVE  parse(c) = request(c, read) /\ \A i \in 1..5 : checks(c, read)[i].holds
BY ParseChecks

\* An argument made an offset is a natural number, and a number below 2^32 stays itself.
LEMMA Uint32 ==
    ASSUME NEW n \in Int
    PROVE  /\ ToUint32(Number(n)) \in 0..(Word - 1)
           /\ n \in 0..(Word - 1) => ToUint32(Number(n)) = n
<1>1. Word \in Nat \ {0}
  BY SendArgumentsAssumption DEF SendArgumentsAssumption
<1>2. ToUint32(Number(n)) = n % Word
  BY Types DEF ToUint32
<1>3. n % Word \in 0..(Word - 1)
  BY <1>1
<1>4. n \in 0..(Word - 1) => n % Word = n
  BY <1>1
<1> QED BY <1>2, <1>3, <1>4

\* Whatever stands where offset and length may.
LEMMA Offsets ==
    ASSUME NEW c \in Call, NEW i \in 1..2
    PROVE  ToUint32(Arg(c, i)) \in 0..(Word - 1)
<1>1. Word \in Nat \ {0}
  BY SendArgumentsAssumption DEF SendArgumentsAssumption
<1>2. PICK v : v = Arg(c, i)
  OBVIOUS
<1>3. v.type # "number" \/ \E n \in Int : v = Number(n)
  <2>1. CASE c.range = <<>> /\ c.port = <<>>
    <3>1. v = First(c.cb) \/ v = Undefined
      BY <1>2, <2>1, Places
    <3> QED BY <3>1, Firsts, Types
  <2>2. CASE c.range = <<>> /\ c.port # <<>>
    <3>1. \/ v = c.port[1] \/ v = First(c.cb)
          \/ c.address # <<>> /\ v = c.address[1]
      BY <1>2, <2>2, Places
    <3> QED BY <2>2, <3>1, Firsts, Types
  <2>3. CASE c.range # <<>>
    <3>1. v = c.range[1] \/ v = c.range[2]
      BY <1>2, <2>3, Places
    <3> QED BY <2>3, <3>1, Firsts
  <2> QED BY <2>1, <2>2, <2>3
<1>4. CASE v.type # "number"
  BY <1>1, <1>2, <1>4 DEF ToUint32
<1>5. CASE \E n \in Int : v = Number(n)
  BY <1>2, <1>5, Uint32
<1> QED BY <1>3, <1>4, <1>5

-----------------------------------------------------------------------------
(* What a call is parsed to *)

\* A range that is read is inside of the message.
LEMMA ParsedInside ==
    ASSUME NEW c \in Call, parse(c).error = "none"
    PROVE  parse(c).bytes \subseteq 1..Size
<1>1. Word \in Nat \ {0} /\ Size \in Nat
  BY SendArgumentsAssumption DEF SendArgumentsAssumption
<1>2. PICK read : read = reading(c)
  OBVIOUS
<1>3. parse(c) = request(c, read) /\ checks(c, read)[1].holds
  BY <1>2, AcceptedChecks
<1>4. PICK o, n : o = ToUint32(Arg(c, 1)) /\ n = ToUint32(Arg(c, 2))
  OBVIOUS
<1>5. o \in Nat /\ n \in Nat
  BY <1>1, <1>4, Offsets
<1>6. parse(c).bytes = IF read.sliced THEN (o + 1)..(o + n) ELSE (0 + 1)..(0 + Size)
  BY <1>3, <1>4 DEF request, Accepted
<1>7. CASE read.sliced
  <2>1. o + n <= Size
    BY <1>3, <1>4, <1>7, ChecksSay DEF inBounds
  <2> QED BY <1>1, <1>5, <1>6, <1>7, <2>1
<1>8. CASE ~read.sliced
  BY <1>1, <1>6, <1>8
<1> QED BY <1>7, <1>8

\* A port out of bounds is refused, if it is not one that is misread.
LEMMA BadPortRefused ==
    ASSUME NEW c \in Call, ~Misread(c), BadPort(c)
    PROVE  parse(c).error # "none"
<1>1. PICK read : read = reading(c)
  OBVIOUS
<1>2. ~c.connected
  BY DEF BadPort
<1>3. ~validPort(read.port)
  <2>1. CASE c.port = <<>>
    <3>1. c.range = <<>>
      BY <1>2, <2>1 DEF Misread
    <3> QED BY <1>1, <1>2, <2>1, <3>1, PortlessRead DEF validPort
  <2>2. CASE c.port = <<Undefined>>
    <3>1. c.range # <<>>
      BY <2>2, CallOrder
    <3> QED BY <1>2, <2>2, <3>1 DEF Misread
  <2>3. CASE c.port \notin {<<>>, <<Undefined>>}
    <3>1. PICK p \in Nat : c.port = <<Number(p)>>
      BY <2>3, CallParts
    <3>2. c.range = <<>> \/ p # 0
      BY <1>2, <3>1 DEF Misread
    <3>3. read.port = Number(p)
      BY <1>1, <1>2, <3>1, <3>2, UnconnectedRead
    <3>4. c.port[1] = Number(p) /\ HasPort(c)
      BY <2>3, <3>1 DEF HasPort
    <3>5. p \notin 1..MaxPort
      BY <3>4, Types DEF BadPort
    <3> QED BY <3>3, <3>5, Types DEF validPort
  <2> QED BY <2>1, <2>2, <2>3
<1>4. ~checks(c, read)[4].holds
  BY <1>2, <1>3, ChecksSay
<1> QED BY <1>1, <1>4, ParseChecks

\* So is the port of a connected socket.
LEMMA BadDestinationRefused ==
    ASSUME NEW c \in Call, ~Misread(c), BadDestination(c)
    PROVE  parse(c).error # "none"
<1>1. PICK read : read = reading(c)
  OBVIOUS
<1>2. PICK p \in Nat : c.port = <<Number(p)>>
  BY CallParts DEF BadDestination, HasPort
<1>3. c.connected /\ p # 0
  BY <1>2 DEF BadDestination, Misread
<1>4. read.port = Number(p)
  BY <1>1, <1>2, <1>3, ConnectedPortRead
<1>5. hasDestination(read)
  BY <1>3, <1>4, Truths DEF hasDestination
<1>6. ~checks(c, read)[2].holds
  BY <1>3, <1>5, ChecksSay
<1> QED BY <1>1, <1>6, ParseChecks

\* An accepted call of a socket that is not connected goes to what the text of its
\* host is, if it has one.
LEMMA HostParsed ==
    ASSUME NEW c \in Call, ~c.connected, HasHost(c), parse(c).error = "none"
    PROVE  parse(c).host = destination(c.address[1].text)
<1>1. PICK read : read = reading(c)
  OBVIOUS
<1>2. parse(c) = request(c, read)
  BY <1>1, AcceptedChecks
<1>3. read.address = c.address[1] /\ \E t \in HostTexts : c.address[1] = Host(t)
  BY <1>1, HostRead
<1>4. Truthy(read.address) /\ ~IsFunction(read.address)
  BY <1>3, Truths
<1> QED BY <1>2, <1>3, <1>4 DEF request, Accepted

\* A range that is inside of the message is read as it is.
LEMMA RangeParsed ==
    ASSUME NEW c \in Call, c.range # <<>>, ~OutOfBounds(c)
    PROVE  /\ ToUint32(Arg(c, 1)) = c.range[1].value
           /\ ToUint32(Arg(c, 2)) = c.range[2].value
           /\ inBounds(ToUint32(Arg(c, 1)), ToUint32(Arg(c, 2)))
           /\ c.range[1].value \in Nat /\ c.range[2].value \in Nat
<1>1. Word \in Nat \ {0} /\ Size \in Nat /\ Size < Word
  BY SendArgumentsAssumption DEF SendArgumentsAssumption
<1>2. PICK o, n \in Int : c.range[1] = Number(o) /\ c.range[2] = Number(n)
  BY Firsts
<1>3. c.range[1].value = o /\ c.range[2].value = n
  BY <1>2, Types
<1>4. o >= 0 /\ n >= 0 /\ o + n <= Size
  BY <1>1, <1>3 DEF OutOfBounds
<1>5. o \in 0..(Word - 1) /\ n \in 0..(Word - 1)
  BY <1>1, <1>4
<1>6. Arg(c, 1) = Number(o) /\ Arg(c, 2) = Number(n)
  BY <1>2, Places
<1>7. ToUint32(Arg(c, 1)) = o /\ ToUint32(Arg(c, 2)) = n
  BY <1>5, <1>6, Uint32
<1>8. inBounds(o, n)
  BY <1>1, <1>4 DEF inBounds
<1> QED BY <1>3, <1>4, <1>7, <1>8

\* The callback of a call is found, whether it stands in the place of the address or
\* behind it.
LEMMA CallbackRead ==
    ASSUME NEW c \in Call
    PROVE  (IsFunction(AddressRead(c)) \/ IsFunction(CbRead(c))) <=> c.cb # <<>>
<1>1. IsFunction(First(c.cb)) <=> c.cb # <<>>
  BY Firsts, Truths
<1>2. CASE c.address = <<>>
  BY <1>1, <1>2, Truths DEF AddressRead, CbRead
<1>3. CASE c.address # <<>>
  <2>1. ~IsFunction(c.address[1])
    BY <1>3, Firsts, Truths
  <2> QED BY <1>1, <1>3, <2>1 DEF AddressRead, CbRead
<1> QED BY <1>2, <1>3

\* A request whose parts are those that were meant is what was meant.
LEMMA RequestMeant ==
    ASSUME NEW c \in Call, ~OutOfBounds(c), NEW read, read.sliced <=> c.range # <<>>,
           ~c.connected => read.port.value = c.port[1].value,
           ~c.connected =>
              (IF Truthy(read.address) /\ ~IsFunction(read.address)
               THEN destination(read.address.text) ELSE "loopback")
              = (IF HasHost(c) THEN destination(c.address[1].text) ELSE "loopback"),
           (IsFunction(read.address) \/ IsFunction(read.cb)) <=> c.cb # <<>>
    PROVE  request(c, read) = Meaning(c)
<1>1. PICK o, n :
         /\ o = IF read.sliced THEN ToUint32(Arg(c, 1)) ELSE 0
         /\ n = IF read.sliced THEN ToUint32(Arg(c, 2)) ELSE Size
  OBVIOUS
<1>2. Size \in Nat
  BY SendArgumentsAssumption DEF SendArgumentsAssumption
<1>3. PICK f, l, p, h :
         /\ f = IF c.range = <<>> THEN 1 ELSE c.range[1].value + 1
         /\ l = IF c.range = <<>> THEN Size ELSE c.range[1].value + c.range[2].value
         /\ p = IF c.connected THEN 0 ELSE c.port[1].value
         /\ h = IF c.connected THEN "peer"
                ELSE IF HasHost(c) THEN destination(c.address[1].text) ELSE "loopback"
  OBVIOUS
<1>4. PICK cb : cb = (c.cb # <<>>)
  BY Zenon
<1>5. Meaning(c) = Accepted(f, l, p, h, cb)
  BY <1>3, <1>4, Zenon DEF Meaning
<1>6. o + 1 = f /\ o + n = l
  <2>1. CASE c.range = <<>>
    BY <1>1, <1>2, <1>3, <2>1
  <2>2. CASE c.range # <<>>
    BY <1>1, <1>3, <2>2, RangeParsed
  <2> QED BY <2>1, <2>2
<1>7. p = IF c.connected THEN 0 ELSE read.port.value
  BY <1>3
<1>8. h = IF c.connected THEN "peer"
          ELSE IF Truthy(read.address) /\ ~IsFunction(read.address)
          THEN destination(read.address.text) ELSE "loopback"
  BY <1>3
<1>9. (IsFunction(read.address) \/ IsFunction(read.cb)) = cb
  BY <1>4, Zenon
<1>10. request(c, read) = Accepted(o + 1, o + n, p, h, cb)
  BY <1>1, <1>7, <1>8, <1>9, Zenon DEF request
<1> QED BY <1>5, <1>6, <1>10

\* A call with nothing wrong is parsed to what it says.
LEMMA CallMeant ==
    ASSUME NEW c \in Call,
           ~OutOfBounds(c), ~BadPort(c), ~BadMessage(c), ~BadDestination(c)
    PROVE  parse(c) = Meaning(c)
<1>1. PICK read : read = reading(c)
  OBVIOUS
<1>2. CASE c.connected
  <2>1. ~HasPort(c)
    BY <1>2 DEF BadDestination
  <2>2. /\ read.sliced <=> c.range # <<>>
        /\ read.port \in {Undefined, Null} /\ read.address = Undefined
        /\ read.cb = First(c.cb)
    BY <1>1, <1>2, <2>1, ConnectedRead
  <2>3. checks(c, read)[1].holds
    BY <2>2, ChecksSay, RangeParsed DEF BadMessage
  <2>4. ~hasDestination(read) /\ ~Truthy(read.address)
    BY <2>2, Truths DEF hasDestination
  <2>5. \A i \in 1..5 : checks(c, read)[i].holds
    <3>1. /\ checks(c, read)[2].holds /\ checks(c, read)[3].holds
          /\ checks(c, read)[4].holds /\ checks(c, read)[5].holds
      BY <1>2, <2>4, ChecksSay DEF BadMessage
    <3> QED BY <2>3, <3>1
  <2>6. (IsFunction(read.address) \/ IsFunction(read.cb)) <=> c.cb # <<>>
    BY <2>2, Firsts, Truths
  <2>7. request(c, read) = Meaning(c)
    BY <1>2, <2>2, <2>6, RequestMeant
  <2> QED BY <1>1, <2>5, <2>7, ParseChecks
<1>3. CASE ~c.connected
  <2>1. PICK p \in Nat : c.port = <<Number(p)>>
    BY <1>3, CallParts DEF BadPort, HasPort
  <2>2. c.port[1] = Number(p) /\ p \in 1..MaxPort
    BY <1>3, <2>1, Types DEF BadPort
  <2>3. p # 0
    BY <2>2
  <2>4. /\ read.sliced <=> c.range # <<>>
        /\ read.port = Number(p) /\ read.address = AddressRead(c) /\ read.cb = CbRead(c)
    BY <1>1, <1>3, <2>1, <2>3, UnconnectedRead
  <2>5. checks(c, read)[1].holds
    BY <2>4, ChecksSay, RangeParsed DEF BadMessage
  <2>6. validPort(read.port)
    BY <2>2, <2>4, Types DEF validPort
  <2>7. Truthy(read.address) => read.address.type \in {"string", "function"}
    BY <2>4, Firsts, Truths, Types DEF AddressRead
  <2>8. \A i \in 1..5 : checks(c, read)[i].holds
    <3>1. /\ checks(c, read)[2].holds /\ checks(c, read)[3].holds
          /\ checks(c, read)[4].holds /\ checks(c, read)[5].holds
      BY <1>3, <2>6, <2>7, ChecksSay DEF BadMessage
    <3> QED BY <2>5, <3>1
  <2>9. (IsFunction(read.address) \/ IsFunction(read.cb)) <=> c.cb # <<>>
    BY <2>4, CallbackRead
  <2>10. (IF Truthy(read.address) /\ ~IsFunction(read.address)
          THEN destination(read.address.text) ELSE "loopback")
         = (IF HasHost(c) THEN destination(c.address[1].text) ELSE "loopback")
    <3>1. CASE HasHost(c)
      <4>1. read.address = c.address[1] /\ \E t \in HostTexts : c.address[1] = Host(t)
        BY <1>1, <1>3, <3>1, HostRead
      <4>2. Truthy(read.address) /\ ~IsFunction(read.address)
        BY <4>1, Truths
      <4> QED BY <3>1, <4>1, <4>2
    <3>2. CASE ~HasHost(c)
      <4>1. c.address \in {<<>>, <<Undefined>>, <<EmptyString>>}
        BY <3>2 DEF HasHost
      <4>2. AddressRead(c) \in {First(c.cb), Undefined, EmptyString}
        BY <4>1 DEF AddressRead
      <4>3. ~Truthy(read.address) \/ IsFunction(read.address)
        BY <2>4, <4>2, Firsts, Truths
      <4> QED BY <3>2, <4>3
    <3> QED BY <3>1, <3>2
  <2>11. read.port.value = c.port[1].value
    BY <2>2, <2>4
  <2>12. request(c, read) = Meaning(c)
    BY <1>3, <2>4, <2>9, <2>10, <2>11, RequestMeant
  <2> QED BY <1>1, <2>8, <2>12, ParseChecks
<1> QED BY <1>2, <1>3

-----------------------------------------------------------------------------
(* isIP against the reference *)

\* The alternatives of the IPv4 segment are the decimal numbers up to 255.
LEMMA SegmentsDecimal == IPv4Segment = {Decimal(n) : n \in 0..255}
<1>1. ASSUME NEW s \in IPv4Segment
      PROVE  \E n \in 0..255 : s = Decimal(n)
  <2>1. CASE s \in {<<d>> : d \in Digits}
    <3>1. PICK d \in 0..9 : s = <<d>>
      BY <2>1 DEF Digits
    <3>2. s = Decimal(d) /\ d \in 0..255
      BY <3>1 DEF Decimal
    <3> QED BY <3>2
  <2>2. CASE s \in {<<d, e>> : d \in 1..9, e \in Digits}
    <3>1. PICK d \in 1..9, e \in 0..9 : s = <<d, e>>
      BY <2>2 DEF Digits
    <3>2. PICK n : n = 10 * d + e
      OBVIOUS
    <3>3. n \in 10..99 /\ n \div 10 = d /\ n % 10 = e
      BY <3>2
    <3>4. s = Decimal(n)
      BY <3>1, <3>3 DEF Decimal
    <3>5. n \in 0..255
      BY <3>3
    <3> QED BY <3>4, <3>5
  <2>3. CASE s \in {<<1, d, e>> : d, e \in Digits}
    <3>1. PICK d \in 0..9, e \in 0..9 : s = <<1, d, e>>
      BY <2>3 DEF Digits
    <3>2. PICK n : n = 100 + 10 * d + e
      OBVIOUS
    <3>3. n \in 100..199 /\ n \div 100 = 1 /\ n \div 10 = 10 + d /\ n % 10 = e
      BY <3>2
    <3>4. (10 + d) % 10 = d
      OBVIOUS
    <3>5. s = Decimal(n)
      BY <3>1, <3>3, <3>4 DEF Decimal
    <3>6. n \in 0..255
      BY <3>3
    <3> QED BY <3>5, <3>6
  <2>4. CASE s \in {<<2, d, e>> : d \in 0..4, e \in Digits} \cup {<<2, 5, e>> : e \in 0..5}
    <3>1. PICK d \in 0..5, e \in 0..9 : s = <<2, d, e>> /\ (d = 5 => e <= 5)
      BY <2>4 DEF Digits
    <3>2. PICK n : n = 200 + 10 * d + e
      OBVIOUS
    <3>3. n \in 200..255 /\ n \div 100 = 2 /\ n \div 10 = 20 + d /\ n % 10 = e
      BY <3>1, <3>2
    <3>4. (20 + d) % 10 = d
      OBVIOUS
    <3>5. s = Decimal(n)
      BY <3>1, <3>3, <3>4 DEF Decimal
    <3>6. n \in 0..255
      BY <3>3
    <3> QED BY <3>5, <3>6
  <2> QED BY <2>1, <2>2, <2>3, <2>4 DEF IPv4Segment
<1>2. ASSUME NEW n \in 0..255
      PROVE  Decimal(n) \in IPv4Segment
  <2>1. n % 10 \in 0..9
    OBVIOUS
  <2>2. CASE n < 10
    BY <2>2 DEF Decimal, IPv4Segment, Digits
  <2>3. CASE n >= 10 /\ n < 100
    <3>1. n \div 10 \in 1..9 /\ Decimal(n) = <<n \div 10, n % 10>>
      BY <2>3 DEF Decimal
    <3>2. Decimal(n) \in {<<d, e>> : d \in 1..9, e \in Digits}
      BY <2>1, <3>1 DEF Digits
    <3> QED BY <3>2 DEF IPv4Segment
  <2>4. CASE n >= 100
    <3>1. PICK a, d, e : a = n \div 100 /\ d = (n \div 10) % 10 /\ e = n % 10
      OBVIOUS
    <3>2. Decimal(n) = <<a, d, e>> /\ d \in 0..9 /\ e \in 0..9
      BY <2>4, <3>1 DEF Decimal
    <3>3. CASE n < 200
      <4>1. a = 1
        BY <2>4, <3>1, <3>3
      <4>2. Decimal(n) \in {<<1, x, y>> : x, y \in Digits}
        BY <3>2, <4>1 DEF Digits
      <4> QED BY <4>2 DEF IPv4Segment
    <3>4. CASE n >= 200 /\ n < 250
      <4>1. a = 2 /\ n \div 10 \in 20..24
        BY <3>1, <3>4
      <4>2. d \in 0..4
        BY <3>1, <4>1
      <4>3. Decimal(n) \in {<<2, x, y>> : x \in 0..4, y \in Digits}
        BY <3>2, <4>1, <4>2 DEF Digits
      <4> QED BY <4>3 DEF IPv4Segment
    <3>5. CASE n >= 250
      <4>1. a = 2 /\ n \div 10 = 25 /\ e \in 0..5
        BY <3>1, <3>5
      <4>2. d = 5
        BY <3>1, <4>1
      <4>3. Decimal(n) \in {<<2, 5, y>> : y \in 0..5}
        BY <3>2, <4>1, <4>2
      <4> QED BY <4>3 DEF IPv4Segment
    <3> QED BY <2>4, <3>3, <3>4, <3>5
  <2> QED BY <2>2, <2>3, <2>4
<1> QED BY <1>1, <1>2

\* A dotted text is an address if it has four of them.
LEMMA DottedLikeReference ==
    ASSUME NEW t, t.kind = "dotted"
    PROVE  isIP(t) # 0 <=> IsDotted(t.segments)
<1>1. ~isIPv6(t)
  BY DEF isIPv6
<1>2. isIPv4(t) <=> IsDotted(t.segments)
  BY SegmentsDecimal DEF isIPv4, v4Str, IsDotted
<1> QED BY <1>1, <1>2 DEF isIP

Fields == {Empty, Group, IPv4}

\* Groups, and what is cut from them.
LEMMA GroupsSeq ==
    ASSUME NEW n \in Nat
    PROVE  /\ Groups(n) \in Seq(Fields) /\ Len(Groups(n)) = n
           /\ \A i \in 1..n : Groups(n)[i] = Group
<1>1. Groups(n) \in [1..n -> Fields]
  BY DEF Groups, Fields
<1>2. Groups(n) \in Seq(Fields)
  BY <1>1, SeqDef
<1>3. DOMAIN Groups(n) = 1..n
  BY DEF Groups
<1>4. Len(Groups(n)) = n
  BY <1>2, <1>3, LenProperties
<1> QED BY <1>2, <1>4 DEF Groups

\* A sequence of groups only is known by its length.
LEMMA OnlyGroups ==
    ASSUME NEW s \in Seq(Fields), NEW n \in Nat, Len(s) = n, \A i \in 1..n : s[i] = Group
    PROVE  s = Groups(n)
BY GroupsSeq, SeqEqual

LEMMA CutGroups ==
    ASSUME NEW n \in Nat, NEW i \in 1..(n + 1), NEW j \in 0..n, i <= j + 1
    PROVE  SubSeq(Groups(n), i, j) = Groups(j - i + 1)
<1>1. PICK g : g = Groups(n)
  OBVIOUS
<1>2. g \in Seq(Fields) /\ Len(g) = n /\ \A k \in 1..n : g[k] = Group
  BY <1>1, GroupsSeq
<1>3. PICK s : s = SubSeq(g, i, j)
  OBVIOUS
<1>4. \A k \in i..j : g[k] \in Fields
  BY <1>2 DEF Fields
<1>5. /\ s \in Seq(Fields)
      /\ Len(s) = IF i <= j THEN j - i + 1 ELSE 0
      /\ \A k \in 1..(j - i + 1) : s[k] = g[i + k - 1]
  BY <1>3, <1>4, SubSeqProperties
<1>6. Len(s) = j - i + 1 /\ j - i + 1 \in Nat
  BY <1>5
<1>7. \A k \in 1..(j - i + 1) : s[k] = Group
  BY <1>2, <1>5
<1> QED BY <1>1, <1>3, <1>5, <1>6, <1>7, OnlyGroups

\* The same of six groups and an IPv4 address.
LEMMA LongGroups ==
    ASSUME NEW n \in Nat
    PROVE  /\ Groups(n) \o <<IPv4>> \in Seq(Fields)
           /\ Len(Groups(n) \o <<IPv4>>) = n + 1
           /\ \A i \in 1..n : (Groups(n) \o <<IPv4>>)[i] = Group
           /\ (Groups(n) \o <<IPv4>>)[n + 1] = IPv4
<1>1. <<IPv4>> \in Seq(Fields) /\ Len(<<IPv4>>) = 1 /\ <<IPv4>>[1] = IPv4
  BY DEF Fields
<1>2. Groups(n) \in Seq(Fields) /\ Len(Groups(n)) = n /\ \A i \in 1..n : Groups(n)[i] = Group
  BY GroupsSeq
<1>3. PICK w : w = Groups(n) \o <<IPv4>>
  OBVIOUS
<1>4. /\ w \in Seq(Fields) /\ Len(w) = n + 1
      /\ \A i \in 1..(n + 1) :
            w[i] = IF i <= n THEN Groups(n)[i] ELSE <<IPv4>>[i - n]
  BY <1>1, <1>2, <1>3, ConcatProperties
<1> QED BY <1>1, <1>2, <1>3, <1>4

LEMMA CutLongGroups ==
    ASSUME NEW n \in Nat
    PROVE  /\ \A j \in 0..n : SubSeq(Groups(n) \o <<IPv4>>, 1, j) = Groups(j)
           /\ \A i \in 1..(n + 1) :
                 SubSeq(Groups(n) \o <<IPv4>>, i, n + 1) = Groups(n + 1 - i) \o <<IPv4>>
<1>1. PICK w : w = Groups(n) \o <<IPv4>>
  OBVIOUS
<1>2. /\ w \in Seq(Fields) /\ Len(w) = n + 1
      /\ \A i \in 1..n : w[i] = Group
      /\ w[n + 1] = IPv4
  BY <1>1, LongGroups
<1>3. \A k \in 1..(n + 1) : w[k] \in Fields
  BY <1>2, ElementOfSeq
<1>4. ASSUME NEW j \in 0..n
      PROVE  SubSeq(w, 1, j) = Groups(j)
  <2>1. PICK s : s = SubSeq(w, 1, j)
    OBVIOUS
  <2>2. \A k \in 1..j : w[k] \in Fields
    BY <1>3
  <2>3. /\ s \in Seq(Fields)
        /\ Len(s) = IF 1 <= j THEN j - 1 + 1 ELSE 0
        /\ \A k \in 1..(j - 1 + 1) : s[k] = w[1 + k - 1]
    BY <2>1, <2>2, SubSeqProperties
  <2>4. Len(s) = j /\ j \in Nat
    BY <2>3
  <2>5. \A k \in 1..j : s[k] = Group
    BY <1>2, <2>3
  <2> QED BY <2>1, <2>3, <2>4, <2>5, OnlyGroups
<1>5. ASSUME NEW i \in 1..(n + 1)
      PROVE  SubSeq(w, i, n + 1) = Groups(n + 1 - i) \o <<IPv4>>
  <2>1. PICK s : s = SubSeq(w, i, n + 1)
    OBVIOUS
  <2>2. \A k \in i..(n + 1) : w[k] \in Fields
    BY <1>3
  <2>3. /\ s \in Seq(Fields)
        /\ Len(s) = IF i <= n + 1 THEN (n + 1) - i + 1 ELSE 0
        /\ \A k \in 1..((n + 1) - i + 1) : s[k] = w[i + k - 1]
    BY <2>1, <2>2, SubSeqProperties
  <2>4. PICK m \in Nat : m = n + 1 - i
    OBVIOUS
  <2>5. Len(s) = m + 1 /\ \A k \in 1..(m + 1) : s[k] = w[i + k - 1]
    BY <2>3, <2>4
  <2>6. PICK u : u = Groups(m) \o <<IPv4>>
    OBVIOUS
  <2>7. /\ u \in Seq(Fields) /\ Len(u) = m + 1
        /\ \A k \in 1..m : u[k] = Group
        /\ u[m + 1] = IPv4
    BY <2>6, LongGroups
  <2>8. \A k \in 1..(m + 1) : s[k] = u[k]
    <3> TAKE k \in 1..(m + 1)
    <3>1. CASE k = m + 1
      <4>1. i + k - 1 = n + 1
        BY <2>4, <3>1
      <4> QED BY <1>2, <2>5, <2>7, <3>1, <4>1
    <3>2. CASE k # m + 1
      <4>1. k \in 1..m /\ i + k - 1 \in 1..n
        BY <2>4, <3>2
      <4> QED BY <1>2, <2>5, <2>7, <4>1
    <3> QED BY <3>1, <3>2
  <2>9. s = u
    BY <2>3, <2>5, <2>7, <2>8, SeqEqual
  <2> QED BY <2>1, <2>4, <2>6, <2>9
<1> QED BY <1>1, <1>4, <1>5

\* Groups on both sides of what is left out, and an IPv4 address behind them.
Gap(i, right) == Side(Groups(i)) \o (<<Empty>> \o right)

Short(x, i, m) == i + m <= 7 /\ x = Gap(i, Side(Groups(m)))
Long(x, i, m) == i + m <= 5 /\ x = Gap(i, Groups(m) \o <<IPv4>>)

WithGap(x) == \E i, m \in 0..7 : Short(x, i, m) \/ Long(x, i, m)

LEMMA SideGroups ==
    ASSUME NEW n \in Nat
    PROVE  /\ Side(Groups(n)) = IF n = 0 THEN <<Empty>> ELSE Groups(n)
           /\ Side(Groups(n)) \in Seq(Fields)
<1>1. Groups(n) \in Seq(Fields) /\ Len(Groups(n)) = n
  BY GroupsSeq
<1>2. Groups(n) = <<>> <=> n = 0
  BY <1>1, EmptySeq
<1>3. <<Empty>> \in Seq(Fields)
  BY DEF Fields
<1> QED BY <1>1, <1>2, <1>3 DEF Side

\* Texts of two parts that are put together in either order.
LEMMA Regrouped ==
    ASSUME NEW left \in Seq(Fields), NEW right \in Seq(Fields)
    PROVE  (left \o <<Empty>>) \o right = left \o (<<Empty>> \o right)
<1>1. <<Empty>> \in Seq(Fields)
  BY DEF Fields
<1> QED BY <1>1, ConcatAssociative

\* What follows the groups of an alternative is a gap and what is right of it.
Follows(rest, k, m) ==
    \/ k + m <= 7 /\ rest = <<Empty>> \o Side(Groups(m))
    \/ k + m <= 5 /\ rest = <<Empty>> \o (Groups(m) \o <<IPv4>>)

LEMMA AfterGap ==
    ASSUME NEW k \in 0..7, NEW rest
    PROVE  rest \in After(k) <=> \E m \in 0..7 : Follows(rest, k, m)
<1>1. <<Empty>> \in Seq(Fields) /\ <<IPv4>> \in Seq(Fields)
  BY DEF Fields
<1>2. \A m \in Nat : (<<Empty>> \o Groups(m)) \o <<IPv4>> = <<Empty>> \o (Groups(m) \o <<IPv4>>)
  <2> TAKE m \in Nat
  <2>1. Groups(m) \in Seq(Fields)
    BY GroupsSeq
  <2> QED BY <1>1, <2>1, ConcatAssociative
<1>3. <<Empty, Empty>> = <<Empty>> \o Side(Groups(0))
  <2>1. Side(Groups(0)) = <<Empty>>
    BY SideGroups
  <2>2. PICK w : w = <<Empty>> \o <<Empty>>
    OBVIOUS
  <2>3. w \in Seq(Fields) /\ Len(w) = 2 /\ w[1] = Empty /\ w[2] = Empty
    <3>1. Len(<<Empty>>) = 1 /\ <<Empty>>[1] = Empty
      OBVIOUS
    <3> QED BY <1>1, <2>2, <3>1, ConcatProperties
  <2>4. /\ <<Empty, Empty>> \in Seq(Fields) /\ Len(<<Empty, Empty>>) = 2
        /\ <<Empty, Empty>>[1] = Empty /\ <<Empty, Empty>>[2] = Empty
    BY DEF Fields
  <2>5. \A i \in 1..2 : w[i] = <<Empty, Empty>>[i]
    BY <2>3, <2>4
  <2>6. w = <<Empty, Empty>>
    BY <2>3, <2>4, <2>5, SeqEqual
  <2> QED BY <2>1, <2>2, <2>6
<1>4. \A m \in 1..7 : Side(Groups(m)) = Groups(m)
  BY SideGroups
<1>5. ASSUME rest \in After(k)
      PROVE  \E m \in 0..7 : Follows(rest, k, m)
  <2>1. CASE rest \in {<<Empty>> \o Groups(j) : j \in 1..(7 - k)}
    <3>1. PICK j \in 1..(7 - k) : rest = <<Empty>> \o Groups(j)
      BY <2>1
    <3>2. j \in 1..7 /\ j \in 0..7 /\ k + j <= 7
      OBVIOUS
    <3>3. Follows(rest, k, j)
      BY <1>4, <3>1, <3>2 DEF Follows
    <3> QED BY <3>2, <3>3
  <2>2. CASE rest \in {<<Empty>> \o Groups(j) \o <<IPv4>> : j \in {n \in 0..5 : n + k <= 5}}
    <3>1. PICK j \in {n \in 0..5 : n + k <= 5} : rest = <<Empty>> \o Groups(j) \o <<IPv4>>
      BY <2>2
    <3>2. j \in Nat /\ j \in 0..7 /\ k + j <= 5
      BY <3>1
    <3>3. Follows(rest, k, j)
      BY <1>2, <3>1, <3>2 DEF Follows
    <3> QED BY <3>2, <3>3
  <2>3. CASE rest = <<Empty, Empty>>
    <3>1. 0 \in 0..7 /\ k + 0 <= 7
      OBVIOUS
    <3>2. Follows(rest, k, 0)
      BY <1>3, <2>3, <3>1 DEF Follows
    <3> QED BY <3>1, <3>2
  <2> QED BY <1>5, <2>1, <2>2, <2>3 DEF After
<1>6. ASSUME NEW m \in 0..7, k + m <= 7, rest = <<Empty>> \o Side(Groups(m))
      PROVE  rest \in After(k)
  <2>1. CASE m = 0
    BY <1>3, <1>6, <2>1 DEF After
  <2>2. CASE m # 0
    <3>1. m \in 1..(7 - k) /\ m \in 1..7
      BY <1>6, <2>2
    <3>2. rest = <<Empty>> \o Groups(m)
      BY <1>4, <1>6, <3>1
    <3> QED BY <3>1, <3>2 DEF After
  <2> QED BY <2>1, <2>2
<1>7. ASSUME NEW m \in 0..7, k + m <= 5, rest = <<Empty>> \o (Groups(m) \o <<IPv4>>)
      PROVE  rest \in After(k)
  <2>1. m \in {n \in 0..5 : n + k <= 5} /\ m \in Nat
    BY <1>7
  <2>2. rest = <<Empty>> \o Groups(m) \o <<IPv4>>
    BY <1>2, <1>7, <2>1
  <2> QED BY <2>1, <2>2 DEF After
<1>8. ASSUME NEW m \in 0..7, Follows(rest, k, m)
      PROVE  rest \in After(k)
  BY <1>6, <1>7, <1>8 DEF Follows
<1> QED BY <1>5, <1>8

\* So an address by the pattern is whole or has one gap.
LEMMA PatternHasGap ==
    ASSUME NEW x
    PROVE  x \in IPv6Pattern <=> x \in Whole \/ WithGap(x)
<1>1. x \in IPv6Pattern <=>
         x \in Whole \/ \E k \in 0..7 : \E rest \in After(k) : x = Side(Groups(k)) \o rest
  <2>1. /\ Side(Groups(0)) = <<Empty>>
        /\ \A k \in 1..7 : Side(Groups(k)) = Groups(k)
    BY SideGroups
  <2>2. ASSUME x \in IPv6Pattern
        PROVE  x \in Whole \/ \E k \in 0..7 : \E rest \in After(k) : x = Side(Groups(k)) \o rest
    <3>1. CASE x \in Whole
      BY <3>1
    <3>2. CASE x \in UNION {{Groups(k) \o rest : rest \in After(k)} : k \in 1..7}
      <4>1. PICK k \in 1..7 : x \in {Groups(k) \o rest : rest \in After(k)}
        BY <3>2
      <4>2. PICK rest \in After(k) : x = Groups(k) \o rest
        BY <4>1
      <4>3. k \in 0..7 /\ Side(Groups(k)) = Groups(k)
        BY <2>1
      <4>4. x = Side(Groups(k)) \o rest
        BY <4>2, <4>3, Zenon
      <4> QED BY <4>3, <4>4
    <3>3. CASE x \in {<<Empty>> \o rest : rest \in After(0)}
      <4>1. PICK rest \in After(0) : x = <<Empty>> \o rest
        BY <3>3
      <4>2. x = Side(Groups(0)) \o rest
        BY <2>1, <4>1, Zenon
      <4>3. 0 \in 0..7
        OBVIOUS
      <4> QED BY <4>2, <4>3
    <3> QED BY <2>2, <3>1, <3>2, <3>3 DEF IPv6Pattern, Whole
  <2>3. ASSUME NEW k \in 0..7, NEW rest \in After(k), x = Side(Groups(k)) \o rest
        PROVE  x \in IPv6Pattern
    <3>1. CASE k = 0
      <4>1. x = <<Empty>> \o rest /\ rest \in After(0)
        BY <2>1, <2>3, <3>1, Zenon
      <4> QED BY <4>1 DEF IPv6Pattern
    <3>2. CASE k # 0
      <4>1. k \in 1..7 /\ Side(Groups(k)) = Groups(k)
        BY <2>1, <3>2
      <4>2. x = Groups(k) \o rest
        BY <2>3, <4>1, Zenon
      <4>3. x \in {Groups(k) \o r : r \in After(k)}
        BY <4>2, Zenon
      <4>4. x \in UNION {{Groups(n) \o r : r \in After(n)} : n \in 1..7}
        BY <4>1, <4>3, Zenon
      <4> QED BY <4>4 DEF IPv6Pattern
    <3> QED BY <3>1, <3>2
  <2>4. x \in Whole => x \in IPv6Pattern
    BY DEF Whole, IPv6Pattern
  <2> QED BY <2>2, <2>3, <2>4
<1>2. (\E k \in 0..7 : \E rest \in After(k) : x = Side(Groups(k)) \o rest) <=> WithGap(x)
  <2>1. ASSUME NEW k \in 0..7, NEW rest \in After(k), x = Side(Groups(k)) \o rest
        PROVE  WithGap(x)
    <3>1. PICK m \in 0..7 : Follows(rest, k, m)
      BY AfterGap
    <3>2. Short(x, k, m) \/ Long(x, k, m)
      BY <2>1, <3>1 DEF Short, Long, Gap, Follows
    <3> QED BY <3>2 DEF WithGap
  <2>2. ASSUME WithGap(x)
        PROVE  \E k \in 0..7 : \E rest \in After(k) : x = Side(Groups(k)) \o rest
    <3>1. PICK i \in 0..7, m \in 0..7 : Short(x, i, m) \/ Long(x, i, m)
      BY <2>2 DEF WithGap
    <3>2. CASE Short(x, i, m)
      <4>1. i + m <= 7 /\ x = Side(Groups(i)) \o (<<Empty>> \o Side(Groups(m)))
        BY <3>2 DEF Short, Gap
      <4>2. PICK rest : rest = <<Empty>> \o Side(Groups(m))
        OBVIOUS
      <4>3. rest \in After(i)
        <5>1. Follows(rest, i, m)
          BY <4>1, <4>2 DEF Follows
        <5> QED BY <5>1, AfterGap
      <4>4. x = Side(Groups(i)) \o rest
        BY <4>1, <4>2, Zenon
      <4> QED BY <4>3, <4>4
    <3>3. CASE Long(x, i, m)
      <4>1. i + m <= 5 /\ x = Side(Groups(i)) \o (<<Empty>> \o (Groups(m) \o <<IPv4>>))
        BY <3>3 DEF Long, Gap
      <4>2. PICK rest : rest = <<Empty>> \o (Groups(m) \o <<IPv4>>)
        OBVIOUS
      <4>3. rest \in After(i)
        <5>1. Follows(rest, i, m)
          BY <4>1, <4>2 DEF Follows
        <5> QED BY <5>1, AfterGap
      <4>4. x = Side(Groups(i)) \o rest
        BY <4>1, <4>2, Zenon
      <4> QED BY <4>3, <4>4
    <3> QED BY <3>1, <3>2, <3>3
  <2> QED BY <2>1, <2>2
<1> QED BY <1>1, <1>2

\* To leave groups out of eight leaves a gap, and so for six and an IPv4 address.
LEMMA LeftOutOfGroups ==
    ASSUME NEW i \in 0..8, NEW j \in 2..9, i + 2 <= j
    PROVE  LeftOut(Groups(8), i, j) = Gap(i, Side(Groups(9 - j)))
<1>1. PICK w : w = Groups(8)
  OBVIOUS
<1>2. Len(w) = 8
  BY <1>1, GroupsSeq
<1>3. SubSeq(w, 1, i) = Groups(i)
  <2>1. SubSeq(Groups(8), 1, i) = Groups(i - 1 + 1)
    <3>1. 8 \in Nat /\ 1 \in 1..(8 + 1) /\ i \in 0..8 /\ 1 <= i + 1
      OBVIOUS
    <3> QED BY <3>1, CutGroups, Zenon
  <2>2. i - 1 + 1 = i
    OBVIOUS
  <2> QED BY <1>1, <2>1, <2>2, Zenon
<1>4. SubSeq(w, j, 8) = Groups(9 - j)
  <2>1. SubSeq(Groups(8), j, 8) = Groups(8 - j + 1)
    <3>1. 8 \in Nat /\ j \in 1..(8 + 1) /\ 8 \in 0..8 /\ j <= 8 + 1
      OBVIOUS
    <3> QED BY <3>1, CutGroups, Zenon
  <2>2. 8 - j + 1 = 9 - j
    OBVIOUS
  <2> QED BY <1>1, <2>1, <2>2, Zenon
<1>5. PICK left, right : left = Side(Groups(i)) /\ right = Side(Groups(9 - j))
  OBVIOUS
<1>6. left \in Seq(Fields) /\ right \in Seq(Fields)
  BY <1>5, SideGroups
<1>7. LeftOut(w, i, j) = (left \o <<Empty>>) \o right
  BY <1>2, <1>3, <1>4, <1>5, Zenon DEF LeftOut
<1>8. (left \o <<Empty>>) \o right = left \o (<<Empty>> \o right)
  BY <1>6, Regrouped
<1> QED BY <1>1, <1>5, <1>7, <1>8, Zenon DEF Gap

LEMMA LeftOutOfLong ==
    ASSUME NEW i \in 0..8, NEW j \in 2..8, i + 2 <= j
    PROVE  LeftOut(Groups(6) \o <<IPv4>>, i, j) =
              Gap(i, IF j = 8 THEN Side(Groups(0)) ELSE Groups(7 - j) \o <<IPv4>>)
<1>1. PICK w : w = Groups(6) \o <<IPv4>>
  OBVIOUS
<1>2. Len(w) = 7
  BY <1>1, LongGroups
<1>3. SubSeq(w, 1, i) = Groups(i)
  <2>1. 6 \in Nat /\ i \in 0..6
    OBVIOUS
  <2>2. SubSeq(Groups(6) \o <<IPv4>>, 1, i) = Groups(i)
    BY <2>1, CutLongGroups, Zenon
  <2> QED BY <1>1, <2>2, Zenon
<1>4. PICK rest : rest = SubSeq(w, j, 7)
  OBVIOUS
<1>5. PICK left, right :
         /\ left = Side(Groups(i))
         /\ right = IF j = 8 THEN Side(Groups(0)) ELSE Groups(7 - j) \o <<IPv4>>
  OBVIOUS
<1>6. Side(rest) = right /\ right \in Seq(Fields)
  <2>1. CASE j = 8
    <3>1. rest = <<>>
      BY <1>4, <2>1, SubSeqEmpty
    <3>2. Side(Groups(0)) = <<Empty>>
      BY SideGroups
    <3>3. right = <<Empty>>
      BY <1>5, <2>1, <3>2
    <3> QED BY <3>1, <3>3 DEF Side, Fields
  <2>2. CASE j # 8
    <3>1. PICK m \in Nat : m = 7 - j
      BY <2>2
    <3>2. rest = Groups(m) \o <<IPv4>>
      <4>1. 6 \in Nat /\ j \in 1..(6 + 1)
        BY <2>2
      <4>2. SubSeq(Groups(6) \o <<IPv4>>, j, 6 + 1) = Groups(6 + 1 - j) \o <<IPv4>>
        BY <4>1, CutLongGroups, Zenon
      <4>3. 6 + 1 = 7 /\ 6 + 1 - j = m
        BY <3>1
      <4> QED BY <1>1, <1>4, <4>2, <4>3, Zenon
    <3>3. rest \in Seq(Fields) /\ Len(rest) = m + 1
      BY <3>2, LongGroups
    <3>4. rest # <<>>
      BY <3>3, EmptySeq
    <3>5. right = rest
      BY <1>5, <2>2, <3>1, <3>2
    <3> QED BY <3>3, <3>4, <3>5 DEF Side
  <2> QED BY <2>1, <2>2
<1>7. left \in Seq(Fields)
  BY <1>5, SideGroups
<1>8. LeftOut(w, i, j) = (left \o <<Empty>>) \o right
  BY <1>2, <1>3, <1>4, <1>5, <1>6, Zenon DEF LeftOut
<1>9. (left \o <<Empty>>) \o right = left \o (<<Empty>> \o right)
  BY <1>6, <1>7, Regrouped
<1> QED BY <1>1, <1>5, <1>8, <1>9, Zenon DEF Gap

\* Where a run may be left out.
Cut(w, i, j) == i \in 0..8 /\ j \in 2..9 /\ i + 2 <= j /\ j <= Len(w) + 1

LEMMA CompressedCuts ==
    ASSUME NEW x
    PROVE  x \in Compressed <=>
              \E w \in Whole : \E i, j \in 0..9 : Cut(w, i, j) /\ x = LeftOut(w, i, j)
<1>1. ASSUME x \in Compressed
      PROVE  \E w \in Whole : \E i, j \in 0..9 : Cut(w, i, j) /\ x = LeftOut(w, i, j)
  <2>1. PICK w \in Whole :
           x \in {LeftOut(w, ij[1], ij[2]) :
                    ij \in {p \in (0..8) \X (2..9) : p[1] + 2 <= p[2] /\ p[2] <= Len(w) + 1}}
    BY <1>1 DEF Compressed
  <2>2. PICK ij \in {p \in (0..8) \X (2..9) : p[1] + 2 <= p[2] /\ p[2] <= Len(w) + 1} :
           x = LeftOut(w, ij[1], ij[2])
    BY <2>1
  <2>3. PICK i, j : i = ij[1] /\ j = ij[2]
    OBVIOUS
  <2>4. Cut(w, i, j) /\ i \in 0..9 /\ j \in 0..9
    BY <2>2, <2>3 DEF Cut
  <2>5. x = LeftOut(w, i, j)
    BY <2>2, <2>3
  <2> QED BY <2>4, <2>5
<1>2. ASSUME NEW w \in Whole, NEW i \in 0..9, NEW j \in 0..9, Cut(w, i, j), x = LeftOut(w, i, j)
      PROVE  x \in Compressed
  <2>1. PICK ij : ij = <<i, j>>
    OBVIOUS
  <2>2. ij[1] = i /\ ij[2] = j
    BY <2>1
  <2>3. ij \in {p \in (0..8) \X (2..9) : p[1] + 2 <= p[2] /\ p[2] <= Len(w) + 1}
    BY <1>2, <2>1, <2>2 DEF Cut
  <2>4. x = LeftOut(w, ij[1], ij[2])
    BY <1>2, <2>2
  <2>5. x \in {LeftOut(w, q[1], q[2]) :
                  q \in {p \in (0..8) \X (2..9) : p[1] + 2 <= p[2] /\ p[2] <= Len(w) + 1}}
    BY <2>3, <2>4, Zenon
  <2> QED BY <2>5, Zenon DEF Compressed
<1> QED BY <1>1, <1>2

\* What the reference shortens has one gap, and every text with a gap is such.
LEMMA CompressedHasGap ==
    ASSUME NEW x
    PROVE  x \in Compressed <=> WithGap(x)
<1>1. PICK w8, w7 : w8 = Groups(8) /\ w7 = Groups(6) \o <<IPv4>>
  OBVIOUS
<1>2. Whole = {w8, w7} /\ Len(w8) = 8 /\ Len(w7) = 7
  <2>1. Whole = {w8, w7}
    BY <1>1, Zenon DEF Whole
  <2>2. 8 \in Nat /\ 6 \in Nat /\ 6 + 1 = 7
    OBVIOUS
  <2>3. Len(Groups(8)) = 8
    BY <2>2, GroupsSeq, Zenon
  <2>4. Len(Groups(6) \o <<IPv4>>) = 6 + 1
    BY <2>2, LongGroups, Zenon
  <2> QED BY <1>1, <2>1, <2>2, <2>3, <2>4, Zenon
<1>3. ASSUME NEW i \in 0..9, NEW j \in 0..9, Cut(w8, i, j), x = LeftOut(w8, i, j)
      PROVE  WithGap(x)
  <2>1. i \in 0..8 /\ j \in 2..9 /\ i + 2 <= j
    BY <1>3 DEF Cut
  <2>2. PICK m : m = 9 - j
    OBVIOUS
  <2>3. i \in 0..7 /\ m \in 0..7 /\ i + m <= 7
    BY <2>1, <2>2
  <2>4. x = Gap(i, Side(Groups(m)))
    BY <1>1, <1>3, <2>1, <2>2, LeftOutOfGroups
  <2>5. Short(x, i, m)
    BY <2>3, <2>4 DEF Short
  <2> QED BY <2>3, <2>5 DEF WithGap
<1>4. ASSUME NEW i \in 0..9, NEW j \in 0..9, Cut(w7, i, j), x = LeftOut(w7, i, j)
      PROVE  WithGap(x)
  <2>1. i \in 0..8 /\ j \in 2..8 /\ i + 2 <= j
    BY <1>2, <1>4 DEF Cut
  <2>2. x = Gap(i, IF j = 8 THEN Side(Groups(0)) ELSE Groups(7 - j) \o <<IPv4>>)
    BY <1>1, <1>4, <2>1, LeftOutOfLong
  <2>3. CASE j = 8
    <3>1. i \in 0..7 /\ 0 \in 0..7 /\ i + 0 <= 7
      BY <2>1
    <3>2. x = Gap(i, Side(Groups(0)))
      BY <2>2, <2>3
    <3>3. Short(x, i, 0)
      BY <3>1, <3>2 DEF Short
    <3> QED BY <3>1, <3>3 DEF WithGap
  <2>4. CASE j # 8
    <3>1. PICK m : m = 7 - j
      OBVIOUS
    <3>2. i \in 0..7 /\ m \in 0..7 /\ i + m <= 5
      BY <2>1, <2>4, <3>1
    <3>3. x = Gap(i, Groups(m) \o <<IPv4>>)
      BY <2>2, <2>4, <3>1
    <3>4. Long(x, i, m)
      BY <3>2, <3>3 DEF Long
    <3> QED BY <3>2, <3>4 DEF WithGap
  <2> QED BY <2>3, <2>4
<1>5. ASSUME NEW i \in 0..7, NEW m \in 0..7, Short(x, i, m)
      PROVE  x \in Compressed
  <2>1. PICK j : j = 9 - m
    OBVIOUS
  <2>2. i \in 0..8 /\ j \in 2..9 /\ i + 2 <= j /\ 9 - j = m /\ i \in 0..9 /\ j \in 0..9
    BY <1>5, <2>1 DEF Short
  <2>3. x = LeftOut(w8, i, j)
    BY <1>1, <1>5, <2>2, LeftOutOfGroups DEF Short
  <2>4. Cut(w8, i, j)
    BY <1>2, <2>2 DEF Cut
  <2> QED BY <1>2, <2>2, <2>3, <2>4, CompressedCuts
<1>6. ASSUME NEW i \in 0..7, NEW m \in 0..7, Long(x, i, m)
      PROVE  x \in Compressed
  <2>1. PICK j : j = 7 - m
    OBVIOUS
  <2>2. /\ i \in 0..8 /\ j \in 2..8 /\ i + 2 <= j /\ 7 - j = m /\ j # 8
        /\ i \in 0..9 /\ j \in 0..9 /\ j \in 2..9
    BY <1>6, <2>1 DEF Long
  <2>3. x = LeftOut(w7, i, j)
    BY <1>1, <1>6, <2>2, LeftOutOfLong DEF Long
  <2>4. Cut(w7, i, j)
    BY <1>2, <2>2 DEF Cut
  <2> QED BY <1>2, <2>2, <2>3, <2>4, CompressedCuts
<1>7. x \in Compressed => WithGap(x)
  BY <1>2, <1>3, <1>4, CompressedCuts
<1>8. WithGap(x) => x \in Compressed
  BY <1>5, <1>6 DEF WithGap
<1> QED BY <1>7, <1>8

\* A text with colons is an address if it is one of the reference.
LEMMA ColonsLikeReference ==
    ASSUME NEW t, t.kind = "colons"
    PROVE  isIP(t) # 0 <=> IsColons(t.fields, t.zone)
<1>1. ~isIPv4(t)
  BY DEF isIPv4
<1>2. isIPv6(t) <=> IsColons(t.fields, t.zone)
  BY PatternHasGap, CompressedHasGap DEF isIPv6, IsColons
<1> QED BY <1>1, <1>2 DEF isIP

-----------------------------------------------------------------------------
(* The theorems *)

\* The call is one of the forms, and the result, if there is one, is its own.
Ran ==
    /\ call \in Call /\ (FalsyPorts \/ ~Misread(call))
    /\ result = NotRun \/ result = parse(call)

LEMMA RanInvariant == Spec => []Ran
<1>1. Init => Ran
  BY DEF Init, Ran
<1>2. Ran /\ [Next]_vars => Ran'
  BY DEF Ran, Next, send, vars
<1> QED BY <1>1, <1>2, PTL DEF Spec

\* Every form of the call is read as it is meant, for any size of the message, any
\* offsets and lengths, ports and hosts.
THEOREM ReadAsMeant == Spec => []AsMeant
<1>1. Ran => AsMeant
  BY CallMeant DEF Ran, AsMeant, HasRun
<1> QED BY <1>1, RanInvariant, PTL

\* No argument makes send read outside of the message.
THEOREM ReadsInside == Spec => []Inside
<1>1. Ran => Inside
  BY ParsedInside DEF Ran, Inside, HasRun
<1> QED BY <1>1, RanInvariant, PTL

\* A port out of bounds is refused, but where a port of 0, or none, is misread.
THEOREM PortsChecked ==
    ASSUME FalsyPorts = FALSE
    PROVE  Spec => []PortChecked
<1>1. Ran => PortChecked
  BY BadPortRefused DEF Ran, PortChecked, HasRun
<1> QED BY <1>1, RanInvariant, PTL

\* So is the port of a connected socket.
THEOREM DestinationsRefused ==
    ASSUME FalsyPorts = FALSE
    PROVE  Spec => []DestinationRefused
<1>1. Ran => DestinationRefused
  BY BadDestinationRefused DEF Ran, DestinationRefused, HasRun
<1> QED BY <1>1, RanInvariant, PTL

\* A dotted text, of any segments, skips the lookup exactly if it is four decimal
\* numbers up to 255 without zeros before them.
THEOREM SegmentsAreDecimal == Spec => []DecimalSegments
<1>1. Ran => DecimalSegments
  BY HostParsed, DottedLikeReference DEF Ran, DecimalSegments, HostIs, HasRun, destination
<1> QED BY <1>1, RanInvariant, PTL

\* A text with colons, of any fields, skips the lookup exactly if it is an IPv6
\* address by the RFC.
THEOREM IPv6LikeRFC == Spec => []AnswersLikeRFC
<1>1. Ran => AnswersLikeRFC
  BY HostParsed, ColonsLikeReference DEF Ran, AnswersLikeRFC, HostIs, HasRun, destination
<1> QED BY <1>1, RanInvariant, PTL

=============================================================================
