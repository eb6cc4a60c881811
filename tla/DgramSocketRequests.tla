------------------------- MODULE DgramSocketRequests -------------------------
(***************************************************************************)
(* A request of DgramSocket is in one place at a time, from send to the    *)
(* report of its outcome.  Relative to Inductive, Traced is inductive.     *)
(***************************************************************************)
EXTENDS DgramSocketSafety, FiniteSetTheorems

-----------------------------------------------------------------------------
(* Queued functions *)

\* Nothing is in a queue of none.
LEMMA NoFns == \A q : ~InFns(<<>>, q) /\ OnceFns(<<>>, q)
BY DEF InFns, OnceFns

\* A function that is appended is added to those queued.
LEMMA AppendFns ==
    ASSUME NEW fns \in Seq(Fn), NEW fn, NEW q
    PROVE  /\ InFns(Append(fns, fn), q) <=> InFns(fns, q) \/ fn = q
           /\ OnceFns(fns, q) /\ ~(fn = q /\ InFns(fns, q)) => OnceFns(Append(fns, fn), q)
<1>1. /\ Len(fns) \in Nat /\ DOMAIN fns = 1..Len(fns)
      /\ DOMAIN Append(fns, fn) = 1..(Len(fns) + 1)
      /\ Append(fns, fn)[Len(fns) + 1] = fn
      /\ \A i \in 1..Len(fns) : Append(fns, fn)[i] = fns[i]
  OBVIOUS
<1>2. InFns(Append(fns, fn), q) <=> InFns(fns, q) \/ fn = q
  BY <1>1 DEF InFns
<1>3. OnceFns(fns, q) /\ ~(fn = q /\ InFns(fns, q)) => OnceFns(Append(fns, fn), q)
  BY <1>1 DEF InFns, OnceFns
<1> QED BY <1>2, <1>3

\* A queue is its first function and the rest.
LEMMA TailFns ==
    ASSUME NEW fns \in Seq(Fn), fns # <<>>, NEW q
    PROVE  /\ InFns(fns, q) <=> Head(fns) = q \/ InFns(Tail(fns), q)
           /\ OnceFns(fns, q) => OnceFns(Tail(fns), q) /\ ~(Head(fns) = q /\ InFns(Tail(fns), q))
<1>1. /\ Len(fns) \in Nat \ {0} /\ DOMAIN fns = 1..Len(fns)
      /\ DOMAIN Tail(fns) = 1..(Len(fns) - 1)
      /\ Head(fns) = fns[1]
      /\ \A i \in 1..(Len(fns) - 1) : Tail(fns)[i] = fns[i + 1]
  OBVIOUS
<1>2. InFns(fns, q) <=> Head(fns) = q \/ InFns(Tail(fns), q)
  <2>1. ASSUME NEW i \in DOMAIN fns, fns[i] = q
        PROVE  Head(fns) = q \/ InFns(Tail(fns), q)
    <3>1. CASE i = 1
      BY <1>1, <2>1, <3>1
    <3>2. CASE i # 1
      <4>1. i - 1 \in 1..(Len(fns) - 1) /\ (i - 1) + 1 = i
        BY <1>1, <3>2
      <4>2. Tail(fns)[i - 1] = fns[i]
        BY <1>1, <4>1
      <4> QED BY <1>1, <2>1, <4>1, <4>2 DEF InFns
    <3> QED BY <3>1, <3>2
  <2>2. Head(fns) = q \/ InFns(Tail(fns), q) => InFns(fns, q)
    BY <1>1 DEF InFns
  <2> QED BY <2>1, <2>2 DEF InFns
<1>3. ASSUME OnceFns(fns, q)
      PROVE  OnceFns(Tail(fns), q) /\ ~(Head(fns) = q /\ InFns(Tail(fns), q))
  <2>1. ASSUME NEW i \in 1..(Len(fns) - 1), NEW j \in 1..(Len(fns) - 1),
               Tail(fns)[i] = q, Tail(fns)[j] = q
        PROVE  i = j
    <3>1. i + 1 \in DOMAIN fns /\ j + 1 \in DOMAIN fns /\ fns[i + 1] = q /\ fns[j + 1] = q
      BY <1>1, <2>1
    <3>2. i + 1 = j + 1
      BY <1>3, <3>1 DEF OnceFns
    <3> QED BY <3>2
  <2>2. ASSUME Head(fns) = q, NEW i \in 1..(Len(fns) - 1), Tail(fns)[i] = q
        PROVE  FALSE
    <3>1. i + 1 \in DOMAIN fns /\ 1 \in DOMAIN fns /\ fns[i + 1] = q /\ fns[1] = q
      BY <1>1, <2>2
    <3>2. i + 1 = 1
      BY <1>3, <3>1 DEF OnceFns
    <3> QED BY <3>2
  <2> QED BY <1>1, <2>1, <2>2 DEF OnceFns, InFns
<1> QED BY <1>2, <1>3

-----------------------------------------------------------------------------
(* The functions on the stack *)

\* Nothing is on an empty stack.
LEMMA NoFrames == \A q : ~InStack(<<>>, q) /\ OnceStack(<<>>, q)
BY DEF InStack, OnceStack

\* What a push puts where.
LEMMA PushFrames ==
    ASSUME NEW kind \in UserKinds \cup FlushKinds, NEW fns \in Seq(Fn), NEW rest \in Seq(Frame)
    PROVE  /\ Len(rest) \in Nat /\ DOMAIN rest = 1..Len(rest)
           /\ DOMAIN Push(kind, fns, rest) = 1..(Len(rest) + 1)
           /\ Push(kind, fns, rest)[1] = [kind |-> kind, fns |-> fns]
           /\ \A k \in 1..Len(rest) : Push(kind, fns, rest)[k + 1] = rest[k]
           /\ Push(kind, fns, rest) # <<>>
<1> DEFINE frame == [kind |-> kind, fns |-> fns]
<1>1. <<frame>> \in Seq(Frame)
  BY DEF Frame
<1>2. /\ Len(<<frame>>) = 1 /\ <<frame>>[1] = frame
      /\ Len(rest) \in Nat /\ DOMAIN rest = 1..Len(rest)
  BY LenProperties
<1>3. /\ Push(kind, fns, rest) \in Seq(Frame)
      /\ Len(Push(kind, fns, rest)) = 1 + Len(rest)
      /\ \A i \in 1..(1 + Len(rest)) :
            Push(kind, fns, rest)[i] = IF i <= 1 THEN <<frame>>[i] ELSE rest[i - 1]
  BY <1>1, <1>2, ConcatProperties DEF Push
<1>4. DOMAIN Push(kind, fns, rest) = 1..(Len(rest) + 1) /\ Push(kind, fns, rest) # <<>>
  BY <1>2, <1>3, LenProperties
<1>5. Push(kind, fns, rest)[1] = frame
  BY <1>2, <1>3
<1>6. ASSUME NEW k \in 1..Len(rest)
      PROVE  Push(kind, fns, rest)[k + 1] = rest[k]
  <2>1. k + 1 \in 1..(1 + Len(rest)) /\ ~(k + 1 <= 1) /\ (k + 1) - 1 = k
    BY <1>2
  <2> QED BY <1>3, <2>1
<1> QED BY <1>2, <1>4, <1>5, <1>6

\* A frame that is pushed adds its functions to those on the stack.
LEMMA PushStack ==
    ASSUME NEW kind \in UserKinds \cup FlushKinds, NEW fns \in Seq(Fn), NEW rest \in Seq(Frame),
           NEW q
    PROVE  /\ InStack(Push(kind, fns, rest), q) <=> InFns(fns, q) \/ InStack(rest, q)
           /\ OnceStack(Push(kind, fns, rest), q) <=>
                 OnceFns(fns, q) /\ OnceStack(rest, q) /\ ~(InFns(fns, q) /\ InStack(rest, q))
<1>0. PICK s : s = Push(kind, fns, rest)
  OBVIOUS
<1>1. /\ Len(rest) \in Nat /\ DOMAIN rest = 1..Len(rest)
      /\ DOMAIN s = 1..(Len(rest) + 1)
      /\ s[1].fns = fns
      /\ \A k \in 1..Len(rest) : s[k + 1].fns = rest[k].fns
  <2>1. /\ Len(rest) \in Nat /\ DOMAIN rest = 1..Len(rest)
        /\ DOMAIN s = 1..(Len(rest) + 1)
        /\ s[1] = [kind |-> kind, fns |-> fns]
        /\ \A k \in 1..Len(rest) : s[k + 1] = rest[k]
    BY <1>0, PushFrames
  <2> QED BY <2>1
<1>2. \A k \in 2..(Len(rest) + 1) : k - 1 \in 1..Len(rest) /\ s[k].fns = rest[k - 1].fns
  <2>1. ASSUME NEW k \in 2..(Len(rest) + 1)
        PROVE  k - 1 \in 1..Len(rest) /\ (k - 1) + 1 = k
    BY <1>1
  <2> QED BY <1>1, <2>1
<1>3. InStack(s, q) <=> InFns(fns, q) \/ InStack(rest, q)
  <2>1. ASSUME NEW k \in DOMAIN s, InFns(s[k].fns, q)
        PROVE  InFns(fns, q) \/ InStack(rest, q)
    <3>1. CASE k = 1
      BY <1>1, <2>1, <3>1
    <3>2. CASE k # 1
      <4>1. k \in 2..(Len(rest) + 1)
        BY <1>1, <3>2
      <4> QED BY <1>1, <1>2, <2>1, <4>1 DEF InStack
    <3> QED BY <3>1, <3>2
  <2>2. ASSUME NEW k \in DOMAIN rest, InFns(rest[k].fns, q)
        PROVE  InStack(s, q)
    <3>1. k + 1 \in DOMAIN s /\ InFns(s[k + 1].fns, q)
      BY <1>1, <2>2
    <3> QED BY <3>1 DEF InStack
  <2>3. InFns(fns, q) => InStack(s, q)
    <3>1. 1 \in DOMAIN s
      BY <1>1
    <3> QED BY <1>1, <3>1 DEF InStack
  <2> QED BY <2>1, <2>2, <2>3 DEF InStack
<1>4. ASSUME OnceFns(fns, q), OnceStack(rest, q), ~(InFns(fns, q) /\ InStack(rest, q))
      PROVE  OnceStack(s, q)
  <2>1. ASSUME NEW k \in DOMAIN s
        PROVE  OnceFns(s[k].fns, q)
    <3>1. CASE k = 1
      BY <1>1, <1>4, <3>1
    <3>2. CASE k # 1
      <4>1. k \in 2..(Len(rest) + 1)
        BY <1>1, <3>2
      <4> QED BY <1>1, <1>2, <1>4, <4>1 DEF OnceStack
    <3> QED BY <3>1, <3>2
  <2>2. ASSUME NEW k \in DOMAIN s, NEW l \in DOMAIN s, InFns(s[k].fns, q), InFns(s[l].fns, q)
        PROVE  k = l
    <3>1. \A m \in DOMAIN s : m # 1 => m \in 2..(Len(rest) + 1)
      BY <1>1
    <3>2. CASE k = 1 /\ l = 1
      BY <3>2
    <3>3. CASE k = 1 /\ l # 1
      BY <1>1, <1>2, <1>4, <2>2, <3>1, <3>3 DEF InStack
    <3>4. CASE k # 1 /\ l = 1
      BY <1>1, <1>2, <1>4, <2>2, <3>1, <3>4 DEF InStack
    <3>5. CASE k # 1 /\ l # 1
      <4>1. /\ k - 1 \in DOMAIN rest /\ l - 1 \in DOMAIN rest
            /\ InFns(rest[k - 1].fns, q) /\ InFns(rest[l - 1].fns, q)
        BY <1>1, <1>2, <2>2, <3>1, <3>5
      <4>2. k - 1 = l - 1
        BY <1>4, <4>1 DEF OnceStack
      <4> QED BY <1>1, <4>2
    <3> QED BY <3>2, <3>3, <3>4, <3>5
  <2> QED BY <2>1, <2>2 DEF OnceStack
<1>5. ASSUME OnceStack(s, q)
      PROVE  OnceFns(fns, q) /\ OnceStack(rest, q) /\ ~(InFns(fns, q) /\ InStack(rest, q))
  <2>1. \A k \in DOMAIN rest : k + 1 \in DOMAIN s /\ s[k + 1].fns = rest[k].fns /\ k + 1 # 1
    BY <1>1
  <2>2. 1 \in DOMAIN s /\ s[1].fns = fns
    BY <1>1
  <2>3. OnceFns(fns, q)
    BY <1>5, <2>2 DEF OnceStack
  <2>4. ASSUME InFns(fns, q), NEW k \in DOMAIN rest, InFns(rest[k].fns, q)
        PROVE  FALSE
    BY <1>5, <2>1, <2>2, <2>4 DEF OnceStack
  <2>5. \A k \in DOMAIN rest : OnceFns(rest[k].fns, q)
    BY <1>5, <2>1 DEF OnceStack
  <2>6. ASSUME NEW k \in DOMAIN rest, NEW l \in DOMAIN rest,
               InFns(rest[k].fns, q), InFns(rest[l].fns, q)
        PROVE  k = l
    <3>1. k + 1 = l + 1
      BY <1>5, <2>1, <2>6 DEF OnceStack
    <3> QED BY <1>1, <3>1
  <2> QED BY <2>3, <2>4, <2>5, <2>6 DEF OnceStack, InStack
<1>6. OnceStack(s, q) <=>
         OnceFns(fns, q) /\ OnceStack(rest, q) /\ ~(InFns(fns, q) /\ InStack(rest, q))
  BY <1>4, <1>5
<1> QED BY <1>0, <1>3, <1>6

\* A call of user code adds none.
LEMMA CallStack ==
    ASSUME NEW kind \in UserKinds, NEW rest \in Seq(Frame), NEW q
    PROVE  /\ InStack(Call(kind, rest), q) <=> InStack(rest, q)
           /\ OnceStack(Call(kind, rest), q) <=> OnceStack(rest, q)
<1>1. ~InFns(<<>>, q) /\ OnceFns(<<>>, q) /\ <<>> \in Seq(Fn)
  BY NoFns, EmptySeq
<1> QED BY <1>1, PushStack DEF Call

\* A stack is its top frame on the rest.
LEMMA TopStack ==
    ASSUME NEW s \in Seq(Frame), s # <<>>
    PROVE  s = Push(Head(s).kind, Head(s).fns, Tail(s))
<1>1. Head(s) \in Frame /\ Tail(s) \in Seq(Frame)
  BY HeadTailProperties
<1>2. Head(s) = [kind |-> Head(s).kind, fns |-> Head(s).fns]
  BY <1>1 DEF Frame
<1>3. s = <<Head(s)>> \o Tail(s)
  BY <1>1, HeadTailProperties, ConcatProperties, SeqEqual
<1> QED BY <1>2, <1>3 DEF Push

\* An exception only takes functions from the stack.
LEMMA UnwoundStack ==
    ASSUME NEW s \in Seq(Frame), NEW t \in Unwound(s), NEW q
    PROVE  /\ InStack(t, q) => InStack(s, q)
           /\ OnceStack(s, q) => OnceStack(t, q)
<1>1. PICK i \in 1..(Len(s) + 1) : t = SubSeq(s, i, Len(s))
  BY DEF Unwound
<1>2. Len(s) \in Nat /\ DOMAIN s = 1..Len(s) /\ i \in 1..(Len(s) + 1)
  BY LenProperties
<1>3. /\ DOMAIN t = 1..(Len(s) - i + 1)
      /\ \A k \in DOMAIN t : t[k] = s[i + k - 1] /\ i + k - 1 \in DOMAIN s
  BY <1>1, <1>2
<1>4. InStack(t, q) => InStack(s, q)
  BY <1>3 DEF InStack
<1>5. ASSUME OnceStack(s, q)
      PROVE  OnceStack(t, q)
  <2>1. \A k \in DOMAIN t : OnceFns(t[k].fns, q)
    BY <1>3, <1>5 DEF OnceStack
  <2>2. ASSUME NEW k \in DOMAIN t, NEW l \in DOMAIN t, InFns(t[k].fns, q), InFns(t[l].fns, q)
        PROVE  k = l
    <3>1. i + k - 1 = i + l - 1
      BY <1>3, <1>5, <2>2 DEF OnceStack
    <3> QED BY <1>2, <1>3, <3>1
  <2> QED BY <2>1, <2>2 DEF OnceStack
<1> QED BY <1>4, <1>5

-----------------------------------------------------------------------------
(* A request on its way: taken from one place it is not in i, and then it   *)
(* is added to the next                                                     *)

\* Taking the first function from a flush: if it is a request, it is nowhere else.
LEMMA TakeFromFlush ==
    ASSUME NEW p, NEW l, NEW b, NEW d, NEW i,
           NEW kind \in UserKinds \cup FlushKinds, NEW fns \in Seq(Fn), NEW rest \in Seq(Frame),
           fns # <<>>, PlacedIn(p, Push(kind, fns, rest), l, b, d, i)
    PROVE  PlacedIn(p, Push(kind, Tail(fns), rest), l, b, d, i \ {Head(fns)})
<1> SUFFICES ASSUME NEW q \in Req
             PROVE  /\ AtMostOne(p, Push(kind, Tail(fns), rest), l, b, d, q)
                    /\ Somewhere(p, Push(kind, Tail(fns), rest), l, b, d, q) => q \in i \ {Head(fns)}
                    /\ Reliable /\ q \in i \ {Head(fns)} =>
                          Somewhere(p, Push(kind, Tail(fns), rest), l, b, d, q)
  BY DEF PlacedIn
<1>1. /\ AtMostOne(p, Push(kind, fns, rest), l, b, d, q)
      /\ Somewhere(p, Push(kind, fns, rest), l, b, d, q) => q \in i
      /\ Reliable /\ q \in i => Somewhere(p, Push(kind, fns, rest), l, b, d, q)
  BY DEF PlacedIn
<1>2. Tail(fns) \in Seq(Fn)
  BY HeadTailProperties
<1>3. /\ InStack(Push(kind, fns, rest), q) <=> InFns(fns, q) \/ InStack(rest, q)
      /\ OnceStack(Push(kind, fns, rest), q) <=>
            OnceFns(fns, q) /\ OnceStack(rest, q) /\ ~(InFns(fns, q) /\ InStack(rest, q))
  BY PushStack
<1>4. /\ InStack(Push(kind, Tail(fns), rest), q) <=> InFns(Tail(fns), q) \/ InStack(rest, q)
      /\ OnceStack(Push(kind, Tail(fns), rest), q) <=>
            OnceFns(Tail(fns), q) /\ OnceStack(rest, q) /\ ~(InFns(Tail(fns), q) /\ InStack(rest, q))
  BY <1>2, PushStack
<1>5. /\ InFns(fns, q) <=> Head(fns) = q \/ InFns(Tail(fns), q)
      /\ OnceFns(fns, q) => OnceFns(Tail(fns), q) /\ ~(Head(fns) = q /\ InFns(Tail(fns), q))
  BY TailFns
<1> QED BY <1>1, <1>3, <1>4, <1>5 DEF AtMostOne, Somewhere

\* Taking it from the lookups or from _sends.
LEMMA TakeFromSet ==
    ASSUME NEW p, NEW s, NEW l, NEW b, NEW d, NEW i, NEW r \in Req,
           PlacedIn(p, s, l, b, d, i)
    PROVE  /\ r \in l => PlacedIn(p, s, l \ {r}, b, d, i \ {r})
           /\ r \in b => PlacedIn(p, s, l, b \ {r}, d, i \ {r})
BY DEF PlacedIn, AtMostOne, Somewhere

\* Adding it to the lookups, to _sends or to what was reported.
LEMMA AddToSet ==
    ASSUME NEW p, NEW s, NEW l, NEW b, NEW d, NEW i, NEW r \in i,
           PlacedIn(p, s, l, b, d, i \ {r})
    PROVE  /\ PlacedIn(p, s, l \cup {r}, b, d, i)
           /\ PlacedIn(p, s, l, b \cup {r}, d, i)
           /\ PlacedIn(p, s, l, b, d \cup {r}, i)
           /\ ~Reliable => PlacedIn(p, s, l, b, d, i)
BY DEF PlacedIn, AtMostOne, Somewhere

\* Adding it to the queue.
LEMMA AddToQueue ==
    ASSUME NEW p \in Seq(Fn), NEW s, NEW l, NEW b, NEW d, NEW i, NEW r \in i,
           PlacedIn(p, s, l, b, d, i \ {r})
    PROVE  PlacedIn(Append(p, r), s, l, b, d, i)
<1>1. \A q \in Req :
         /\ InFns(Append(p, r), q) <=> InFns(p, q) \/ r = q
         /\ OnceFns(p, q) /\ ~(r = q /\ InFns(p, q)) => OnceFns(Append(p, r), q)
  BY AppendFns
<1> QED BY <1>1 DEF PlacedIn, AtMostOne, Somewhere

\* Steps that move no request: a function of another kind is queued, user code is
\* called, the lookup of bind or connect begins or ends.
LEMMA OthersMove ==
    ASSUME NEW p \in Seq(Fn), NEW s \in Seq(Frame), NEW l, NEW b, NEW d, NEW i,
           PlacedIn(p, s, l, b, d, i)
    PROVE  /\ \A fn : fn \notin Req => PlacedIn(Append(p, fn), s, l, b, d, i)
           /\ \A kind \in UserKinds : PlacedIn(p, Call(kind, s), l, b, d, i)
           /\ \A lk : lk \cap Req = l \cap Req => PlacedIn(p, s, lk, b, d, i)
<1>1. ASSUME NEW fn, fn \notin Req
      PROVE  PlacedIn(Append(p, fn), s, l, b, d, i)
  <2>1. \A q \in Req :
           /\ InFns(Append(p, fn), q) <=> InFns(p, q) \/ fn = q
           /\ OnceFns(p, q) /\ ~(fn = q /\ InFns(p, q)) => OnceFns(Append(p, fn), q)
    BY AppendFns
  <2> QED BY <1>1, <2>1 DEF PlacedIn, AtMostOne, Somewhere
<1>2. ASSUME NEW kind \in UserKinds
      PROVE  PlacedIn(p, Call(kind, s), l, b, d, i)
  <2>1. \A q \in Req :
           /\ InStack(Call(kind, s), q) <=> InStack(s, q)
           /\ OnceStack(Call(kind, s), q) <=> OnceStack(s, q)
    BY CallStack
  <2> QED BY <2>1 DEF PlacedIn, AtMostOne, Somewhere
<1>3. ASSUME NEW lk, lk \cap Req = l \cap Req
      PROVE  PlacedIn(p, s, lk, b, d, i)
  <2>1. \A q \in Req : q \in lk <=> q \in l
    BY <1>3
  <2> QED BY <2>1 DEF PlacedIn, AtMostOne, Somewhere
<1> QED BY <1>1, <1>2, <1>3

\* The queue is taken for a flush.
LEMMA QueueToFlush ==
    ASSUME NEW p \in Seq(Fn), NEW s \in Seq(Frame), NEW l, NEW b, NEW d, NEW i,
           NEW kind \in UserKinds \cup FlushKinds, PlacedIn(p, s, l, b, d, i)
    PROVE  PlacedIn(<<>>, Push(kind, p, s), l, b, d, i)
<1>1. \A q \in Req :
         /\ InStack(Push(kind, p, s), q) <=> InFns(p, q) \/ InStack(s, q)
         /\ OnceStack(Push(kind, p, s), q) <=>
               OnceFns(p, q) /\ OnceStack(s, q) /\ ~(InFns(p, q) /\ InStack(s, q))
  BY PushStack
<1>2. \A q \in Req : ~InFns(<<>>, q) /\ OnceFns(<<>>, q)
  BY NoFns
<1> QED BY <1>1, <1>2 DEF PlacedIn, AtMostOne, Somewhere

\* An exception may drop requests with the flush they were in.
LEMMA UnwoundPlaces ==
    ASSUME NEW p, NEW s \in Seq(Frame), NEW l, NEW b, NEW d, NEW i,
           NEW t \in Unwound(s), ~Reliable, PlacedIn(p, s, l, b, d, i)
    PROVE  PlacedIn(p, t, l, b, d, i)
<1>1. \A q \in Req :
         /\ InStack(t, q) => InStack(s, q)
         /\ OnceStack(s, q) => OnceStack(t, q)
  BY UnwoundStack
<1> QED BY <1>1 DEF PlacedIn, AtMostOne, Somewhere

\* A frame with nothing left to call may go, or make place for user code.
LEMMA EmptyFrameGoes ==
    ASSUME NEW p, NEW s \in Seq(Frame), NEW l, NEW b, NEW d, NEW i,
           s # <<>>, Head(s).fns = <<>>, PlacedIn(p, s, l, b, d, i)
    PROVE  PlacedIn(p, Tail(s), l, b, d, i)
<1>1. Head(s) \in Frame /\ Tail(s) \in Seq(Frame)
  BY HeadTailProperties
<1>2. Head(s).kind \in UserKinds \cup FlushKinds /\ Head(s).fns \in Seq(Fn)
  BY <1>1 DEF Frame
<1>3. s = Push(Head(s).kind, <<>>, Tail(s))
  BY TopStack
<1>4. \A q \in Req :
         /\ InStack(s, q) <=> InFns(<<>>, q) \/ InStack(Tail(s), q)
         /\ OnceStack(s, q) <=>
               OnceFns(<<>>, q) /\ OnceStack(Tail(s), q) /\ ~(InFns(<<>>, q) /\ InStack(Tail(s), q))
  <2>1. PICK t : t = Push(Head(s).kind, <<>>, Tail(s))
    OBVIOUS
  <2>2. \A q \in Req :
           /\ InStack(t, q) <=> InFns(<<>>, q) \/ InStack(Tail(s), q)
           /\ OnceStack(t, q) <=>
                 OnceFns(<<>>, q) /\ OnceStack(Tail(s), q) /\ ~(InFns(<<>>, q) /\ InStack(Tail(s), q))
    BY <1>1, <1>2, <2>1, EmptySeq, PushStack
  <2> QED BY <1>3, <2>1, <2>2
<1>5. \A q \in Req : ~InFns(<<>>, q) /\ OnceFns(<<>>, q)
  BY NoFns
<1> QED BY <1>4, <1>5 DEF PlacedIn, AtMostOne, Somewhere

-----------------------------------------------------------------------------
(* The kinds of the frames, and the queue of the handle *)

\* A stack of frames of some kind stays one.
LEMMA FramesStay ==
    ASSUME NEW S \in SUBSET Frame, NEW rest \in Seq(S)
    PROVE  /\ rest \in Seq(Frame)
           /\ \A kind, fns : [kind |-> kind, fns |-> fns] \in S => Push(kind, fns, rest) \in Seq(S)
           /\ \A t \in Unwound(rest) : t \in Seq(S)
           /\ rest # <<>> => Tail(rest) \in Seq(S) /\ Head(rest) \in S
<1>1. rest \in Seq(Frame)
  BY SeqMonotonic
<1>2. ASSUME NEW kind, NEW fns, [kind |-> kind, fns |-> fns] \in S
      PROVE  Push(kind, fns, rest) \in Seq(S)
  <2>1. <<[kind |-> kind, fns |-> fns]>> \in Seq(S)
    BY <1>2
  <2> QED BY <2>1, ConcatProperties DEF Push
<1>3. ASSUME NEW t \in Unwound(rest)
      PROVE  t \in Seq(S)
  <2>1. PICK i \in 1..(Len(rest) + 1) : t = SubSeq(rest, i, Len(rest))
    BY <1>3 DEF Unwound
  <2>2. Len(rest) \in Nat /\ \A j \in i..Len(rest) : rest[j] \in S
    BY LenProperties, ElementOfSeq
  <2> QED BY <2>1, <2>2, SubSeqProperties
<1>4. rest # <<>> => Tail(rest) \in Seq(S) /\ Head(rest) \in S
  BY HeadTailProperties
<1> QED BY <1>1, <1>2, <1>3, <1>4

\* User code has nothing to call, so it is of both kinds; a flush is tidy.
LEMMA FrameKinds ==
    /\ TidyFrame \in SUBSET Frame /\ LastFrame \in SUBSET Frame
    /\ \A kind \in UserKinds : [kind |-> kind, fns |-> <<>>] \in TidyFrame \cap LastFrame
    /\ \A kind \in FlushKinds, fns \in Seq(Fn) : [kind |-> kind, fns |-> fns] \in TidyFrame
    /\ \A fns \in Seq(Fn) : [kind |-> "closed", fns |-> fns] \in LastFrame
BY EmptySeq DEF TidyFrame, LastFrame, Frame, UserKinds, FlushKinds

\* A call of user code is on a stack of the same kind.
LEMMA CallsStay ==
    ASSUME NEW kind \in UserKinds, NEW rest
    PROVE  /\ rest \in Seq(TidyFrame) => Call(kind, rest) \in Seq(TidyFrame)
           /\ rest \in Seq(LastFrame) => Call(kind, rest) \in Seq(LastFrame)
BY FramesStay, FrameKinds DEF Call

\* Of the native calls only a send touches the queue of the handle.
LEMMA CallsKeepQueue ==
    ASSUME NEW x \in Handle
    PROVE  /\ \A res \in bare_dgram_bind(x) \cup bare_dgram_open(x) : res.h.queue = x.queue
           /\ \A res \in bare_dgram_connect(x) \cup bare_dgram_disconnect(x) : res.h.queue = x.queue
           /\ \A res \in bare_dgram_resume(x) : res.h.queue = x.queue
           /\ \A res \in bare_dgram_set_option(x) : res.h.queue = x.queue
           /\ bare_dgram_pause(x).queue = x.queue /\ bare_dgram_close(x).queue = x.queue
           /\ bare_dgram_ref(x).queue = x.queue /\ bare_dgram_unref(x).queue = x.queue
           /\ bare_dgram__on_teardown(x).queue = x.queue /\ bare_dgram__on_close(x).queue = x.queue
<1>1. \A res \in bare_dgram_bind(x) : res.h.queue = x.queue
  BY DEF bare_dgram_bind, Ok, Failed, Handle
<1>2. ASSUME NEW res \in bare_dgram_open(x)
      PROVE  res.h.queue = x.queue
  <2>1. CASE res = Failed(x)
    BY <2>1 DEF Failed
  <2>2. CASE x.sock = "none" /\ \E c \in {FALSE, PeerFd} :
               res = Ok([x EXCEPT !.sock = "bound", !.conn = c])
    <3>1. PICK c \in {FALSE, PeerFd} : res = Ok([x EXCEPT !.sock = "bound", !.conn = c])
      BY <2>2
    <3> QED BY <3>1 DEF Ok, Handle
  <2> QED BY <2>1, <2>2 DEF bare_dgram_open
<1>3. \A res \in bare_dgram_connect(x) \cup bare_dgram_disconnect(x) : res.h.queue = x.queue
  BY DEF bare_dgram_connect, bare_dgram_disconnect, Ok, Failed, Handle
<1>4. ASSUME NEW res \in bare_dgram_resume(x)
      PROVE  res.h.queue = x.queue
  <2>1. CASE res = Ok(x) \/ res = Failed(x)
    BY <2>1 DEF Ok, Failed
  <2>2. CASE res = Ok([x EXCEPT !.reading = TRUE, !.sock = IF @ = "none" THEN "bound" ELSE @])
    BY <2>2 DEF Ok, Handle
  <2> QED BY <2>1, <2>2 DEF bare_dgram_resume
<1>5. \A res \in bare_dgram_set_option(x) : res.h.queue = x.queue
  BY DEF bare_dgram_set_option, Ok, Failed, Handle
<1>6. /\ bare_dgram_pause(x).queue = x.queue /\ bare_dgram_close(x).queue = x.queue
      /\ bare_dgram_ref(x).queue = x.queue /\ bare_dgram_unref(x).queue = x.queue
      /\ bare_dgram__on_teardown(x).queue = x.queue /\ bare_dgram__on_close(x).queue = x.queue
  BY DEF bare_dgram_pause, bare_dgram_close, bare_dgram_ref, bare_dgram_unref,
     bare_dgram__on_teardown, bare_dgram__on_close, uv_close, Handle
<1> QED BY <1>1, <1>2, <1>3, <1>4, <1>5, <1>6

\* A send that is not refused is the last in the queue.
LEMMA SendAppends ==
    ASSUME NEW x \in Handle, NEW r \in Req, NEW addressed \in BOOLEAN,
           NEW res \in bare_dgram_send(x, r, addressed)
    PROVE  /\ res.err => res.h = x
           /\ ~res.err => res.h = [x EXCEPT !.queue = Append(@, r)]
BY DEF bare_dgram_send, Ok, Failed

-----------------------------------------------------------------------------
(* What the operators of a step do with the requests.  In transit a request *)
(* is not in i \ {r}; rest is the stack without it.                         *)

\* Reporting: the request is added to `settled`, and user code may be called.
LEMMA ReportTraces ==
    ASSUME NEW p \in Seq(Fn), NEW l, NEW b, NEW i, NEW r \in i,
           NEW rest \in Seq(TidyFrame), PlacedIn(p, rest, l, b, settled, i \ {r}),
           callback(r, rest) \/ onsenderror(r, rest)
    PROVE  /\ PlacedIn(p, stack', l, b, settled', i)
           /\ stack' \in Seq(TidyFrame)
           /\ rest \in Seq(LastFrame) => stack' \in Seq(LastFrame)
<1>1. settled' = settled \cup {r} /\ \/ stack' = rest
                                     \/ \E kind \in {"callback", "error"} : stack' = Call(kind, rest)
  BY DEF callback, onsenderror
<1>2. PlacedIn(p, rest, l, b, settled', i)
  BY <1>1, AddToSet
<1>3. rest \in Seq(Frame)
  BY FramesStay, FrameKinds
<1>4. {"callback", "error"} \subseteq UserKinds
  BY DEF UserKinds
<1>5. CASE stack' = rest
  BY <1>2, <1>5
<1>6. CASE \E kind \in {"callback", "error"} : stack' = Call(kind, rest)
  <2>1. PICK kind \in UserKinds : stack' = Call(kind, rest)
    BY <1>4, <1>6
  <2> QED BY <1>2, <1>3, <2>1, OthersMove, CallsStay
<1> QED BY <1>1, <1>5, <1>6

\* A sequence without repetition stays one, and its elements are followed, when
\* another is appended and when the first is taken.
LEMMA AppendElements ==
    ASSUME NEW queue \in Seq(Req), NEW r \in Req, Distinct(queue), r \notin Elements(queue)
    PROVE  /\ Elements(Append(queue, r)) = Elements(queue) \cup {r}
           /\ Distinct(Append(queue, r))
<1>1. PICK longer : longer = Append(queue, r)
  OBVIOUS
<1>2. /\ Len(queue) \in Nat /\ DOMAIN queue = 1..Len(queue)
      /\ DOMAIN longer = 1..(Len(queue) + 1)
      /\ longer[Len(queue) + 1] = r
      /\ \A n \in 1..Len(queue) : longer[n] = queue[n]
  BY <1>1
<1>3. Elements(longer) = Elements(queue) \cup {r} /\ Distinct(longer)
  BY <1>2 DEF Elements, Distinct
<1> QED BY <1>1, <1>3

LEMMA TailElements ==
    ASSUME NEW queue \in Seq(Req), queue # <<>>, Distinct(queue)
    PROVE  /\ Elements(Tail(queue)) = Elements(queue) \ {Head(queue)}
           /\ Head(queue) \in Elements(queue)
           /\ Distinct(Tail(queue))
<1>1. PICK shorter : shorter = Tail(queue)
  OBVIOUS
<1>2. /\ Len(queue) \in Nat \ {0} /\ DOMAIN queue = 1..Len(queue)
      /\ DOMAIN shorter = 1..(Len(queue) - 1)
      /\ Head(queue) = queue[1]
      /\ \A n \in 1..(Len(queue) - 1) : shorter[n] = queue[n + 1]
  BY <1>1
<1>3. ASSUME NEW m \in DOMAIN shorter, NEW n \in DOMAIN shorter, shorter[m] = shorter[n]
      PROVE  m = n
  <2>1. m + 1 \in DOMAIN queue /\ n + 1 \in DOMAIN queue /\ queue[m + 1] = queue[n + 1]
    BY <1>2, <1>3
  <2>2. m + 1 = n + 1
    BY <2>1 DEF Distinct
  <2> QED BY <1>2, <2>2
<1>4. ASSUME NEW n \in DOMAIN queue, queue[n] # Head(queue)
      PROVE  queue[n] \in Elements(shorter)
  <2>1. n - 1 \in DOMAIN shorter /\ (n - 1) + 1 = n
    BY <1>2, <1>4
  <2>2. shorter[n - 1] = queue[n]
    BY <1>2, <2>1
  <2> QED BY <2>1, <2>2 DEF Elements
<1>5. ASSUME NEW m \in DOMAIN shorter
      PROVE  shorter[m] \in Elements(queue) \ {Head(queue)}
  <2>1. m + 1 \in DOMAIN queue /\ 1 \in DOMAIN queue /\ m + 1 # 1 /\ shorter[m] = queue[m + 1]
    BY <1>2
  <2>2. queue[m + 1] # queue[1]
    BY <2>1 DEF Distinct
  <2> QED BY <1>2, <2>1, <2>2 DEF Elements
<1>6. Head(queue) \in Elements(queue)
  BY <1>2 DEF Elements
<1>7. Elements(shorter) = Elements(queue) \ {Head(queue)} /\ Distinct(shorter)
  BY <1>3, <1>4, <1>5 DEF Elements, Distinct
<1> QED BY <1>1, <1>6, <1>7

\* Handing over: the request is added to _sends and to the queue of the handle,
\* or reported.
LEMMA HandOverTraces ==
    ASSUME TypeOK, Matched,
           NEW p \in Seq(Fn), NEW l, NEW i, NEW r \in Req, r \in i,
           NEW rest \in Seq(TidyFrame), PlacedIn(p, rest, l, sends, settled, i \ {r}),
           NEW addressed \in BOOLEAN, handOver(r, addressed, rest)
    PROVE  /\ PlacedIn(p, stack', l, sends', settled', i)
           /\ Matched'
           /\ stack' \in Seq(TidyFrame)
<1>1. PICK res \in bare_dgram_send(h, r, addressed) :
        /\ h' = res.h
        /\ IF res.err
           THEN sends' = sends /\ onsenderror(r, rest)
           ELSE sends' = sends \cup {r} /\ settled' = settled /\ stack' = rest
  BY DEF handOver
<1>2. h \in Handle /\ h.queue \in Seq(Req)
  BY DEF TypeOK, Handle
<1>3. r \notin sends
  BY DEF PlacedIn, Somewhere
<1>4. CASE res.err
  <2>1. h' = h /\ sends' = sends
    BY <1>1, <1>2, <1>4, SendAppends
  <2>2. Matched'
    BY <2>1 DEF Matched
  <2> QED BY <1>1, <1>4, <2>1, <2>2, ReportTraces
<1>5. CASE ~res.err
  <2>1. h' = [h EXCEPT !.queue = Append(@, r)]
    BY <1>1, <1>2, <1>5, SendAppends
  <2>2. h'.queue = Append(h.queue, r) /\ h'.exiting = h.exiting
    BY <1>2, <2>1 DEF Handle
  <2>3. ASSUME ~h'.exiting
        PROVE  sends' = Elements(h'.queue) /\ Distinct(h'.queue)
    <3>1. sends = Elements(h.queue) /\ Distinct(h.queue)
      BY <2>2, <2>3 DEF Matched
    <3>2. Elements(Append(h.queue, r)) = sends \cup {r} /\ Distinct(Append(h.queue, r))
      BY <1>2, <1>3, <3>1, AppendElements
    <3>3. sends' = sends \cup {r}
      BY <1>1, <1>5
    <3> QED BY <2>2, <3>2, <3>3
  <2>4. Matched'
    BY <2>3 DEF Matched
  <2>5. PlacedIn(p, stack', l, sends', settled', i)
    <3>1. PlacedIn(p, rest, l, sends \cup {r}, settled, i)
      BY AddToSet
    <3>2. sends' = sends \cup {r} /\ settled' = settled /\ stack' = rest
      BY <1>1, <1>5
    <3> QED BY <3>1, <3>2
  <2> QED BY <1>1, <1>5, <2>4, <2>5
<1> QED BY <1>4, <1>5

\* A step that leaves both alone keeps them matched.
LEMMA MatchedStays ==
    ASSUME Matched, sends' = sends, h'.queue = h.queue, h'.exiting = h.exiting
    PROVE  Matched'
BY DEF Matched

\* Resolving: the request is added to the lookups, handed over or reported.
LEMMA ResolveTraces ==
    ASSUME TypeOK, Matched,
           NEW p \in Seq(Fn), NEW l, NEW i, NEW r \in Req, r \in i,
           NEW rest \in Seq(TidyFrame), PlacedIn(p, rest, l, sends, settled, i \ {r}),
           \/ resolveSend(r, rest) /\ l = lookups
           \/ (\E ok \in BOOLEAN : sendResolved(r, ok, rest)) /\ l = lookups'
    PROVE  /\ PlacedIn(p, stack', lookups', sends', settled', i)
           /\ Matched'
           /\ stack' \in Seq(TidyFrame)
           /\ Closing(state) => sends' = sends
           /\ Closing(state) /\ rest \in Seq(LastFrame) => stack' \in Seq(LastFrame)
<1>1. ASSUME NEW ok \in BOOLEAN, sendResolved(r, ok, rest)
      PROVE  /\ PlacedIn(p, stack', l, sends', settled', i)
             /\ Matched'
             /\ stack' \in Seq(TidyFrame)
             /\ Closing(state) => sends' = sends
             /\ Closing(state) /\ rest \in Seq(LastFrame) => stack' \in Seq(LastFrame)
  <2>1. CASE (callback(r, rest) \/ onsenderror(r, rest)) /\ UNCHANGED <<h, sends>>
    BY <2>1, ReportTraces, MatchedStays
  <2>2. CASE ~Closing(state) /\ handOver(r, TRUE, rest)
    BY <2>2, HandOverTraces
  <2> QED BY <1>1, <2>1, <2>2 DEF sendResolved
<1>2. CASE /\ lookups' = lookups \cup {r} /\ l = lookups /\ stack' = rest
           /\ UNCHANGED <<h, sends, settled>>
  BY <1>2, AddToSet, MatchedStays
<1>3. CASE /\ LookupThrows /\ stack' \in Unwound(rest)
           /\ l = lookups /\ UNCHANGED <<h, sends, settled, lookups>>
  <2>1. ~Reliable /\ rest \in Seq(Frame)
    BY <1>3, FramesStay, FrameKinds DEF Reliable
  <2>2. PlacedIn(p, stack', l, sends, settled, i)
    BY <1>3, <2>1, AddToSet, UnwoundPlaces
  <2> QED BY <1>3, <2>2, FramesStay, FrameKinds, MatchedStays
<1> QED BY <1>1, <1>2, <1>3 DEF resolveSend

\* _resume sets READING, and fails only by the operating system.
LEMMA ResumedKeeps ==
    ASSUME NEW hh \in Handle, NEW st, NEW pz, NEW res \in resumed(hh, st, pz)
    PROVE  /\ res.err => OsFaults
           /\ res.h.queue = hh.queue /\ res.h.exiting = hh.exiting
           /\ "CLOSED" \in res.state => "CLOSED" \in st
<1>1. CASE res = [err |-> FALSE, h |-> hh, state |-> st]
  BY <1>1
<1>2. CASE \E call \in bare_dgram_resume(hh) :
             res = [err |-> call.err, h |-> call.h, state |-> st \cup {"READING"}]
  <2>1. PICK call \in bare_dgram_resume(hh) :
          res = [err |-> call.err, h |-> call.h, state |-> st \cup {"READING"}]
    BY <1>2
  <2>2. call.err => OsFaults
    BY DEF bare_dgram_resume, Ok, Failed
  <2>3. call.h.queue = hh.queue /\ call.h.exiting = hh.exiting
    BY CallsKeepQueue, CallsKeepLife DEF LifeOf
  <2> QED BY <2>1, <2>2, <2>3
<1> QED BY <1>1, <1>2 DEF resumed

\* Queueing a function or binding closes nothing.
LEMMA OpenAdds ==
    ASSUME NEW st, ~Closing(st)
    PROVE  ~Closing(st \cup {"BINDING"}) /\ ~Closing(st \cup {"CONNECTING"})
BY DEF Closing

\* User code that is running catches what its own call throws.
LEMMA UserCatches ==
    ASSUME TypeOK, InUserCode
    PROVE  \A t \in Unwound(stack) : t = stack
<1>1. /\ stack \in Seq(Frame) /\ Len(stack) \in Nat
      /\ 1 \in DOMAIN stack /\ stack[1].kind \in UserKinds
  BY LenProperties DEF TypeOK, InUserCode
<1>2. ASSUME NEW t \in Unwound(stack)
      PROVE  t = stack
  <2>1. PICK i \in 1..(Len(stack) + 1) :
           /\ t = SubSeq(stack, i, Len(stack))
           /\ \A k \in 1..(i - 1) : stack[k].kind \notin UserKinds
    BY DEF Unwound
  <2>2. i = 1
    BY <1>1, <2>1
  <2> QED BY <1>1, <2>1, <2>2
<1> QED BY <1>2

\* The end of a bind takes the queue for its flush, or fails and leaves it.
LEMMA OnBindTraces ==
    ASSUME NEW hh \in Handle, NEW st, NEW pz, NEW pend \in Seq(Fn), NEW rest \in Seq(TidyFrame),
           NEW l, NEW b, NEW d, NEW i, PlacedIn(pend, rest, l, b, d, i),
           ~Closing(st) \/ \A t \in Unwound(rest) : t = rest,
           onbind(hh, st, pz, pend, rest)
    PROVE  /\ PlacedIn(pending', stack', l, b, d, i)
           /\ stack' \in Seq(TidyFrame)
           /\ h'.queue = hh.queue /\ h'.exiting = hh.exiting
           /\ "CLOSED" \in state' => "CLOSED" \in st
<1> DEFINE st1 == (st \cup {"BOUND"}) \ {"BINDING"}
<1>1. rest \in Seq(Frame) /\ \A t \in Unwound(rest) : t \in Seq(TidyFrame)
  BY FramesStay, FrameKinds
<1>2. ASSUME OsFaults \/ Closing(st), pending' = pend, stack' \in Unwound(rest)
      PROVE  PlacedIn(pending', stack', l, b, d, i) /\ stack' \in Seq(TidyFrame)
  <2>1. CASE OsFaults
    BY <1>1, <1>2, <2>1, UnwoundPlaces DEF Reliable
  <2>2. CASE Closing(st)
    BY <1>2, <2>2
  <2> QED BY <1>2, <2>1, <2>2
<1>3. CASE /\ OsFaults \/ Closing(st)
           /\ state' = st1 /\ h' = hh
           /\ pending' = pend /\ stack' \in Unwound(rest)
  BY <1>2, <1>3
<1>4. ASSUME NEW res \in resumed(hh, st1, pz), state' = res.state, h' = res.h,
             IF res.err THEN pending' = pend /\ stack' \in Unwound(rest)
             ELSE pending' = <<>> /\ stack' = Push("bound", pend, rest)
      PROVE  /\ PlacedIn(pending', stack', l, b, d, i)
             /\ stack' \in Seq(TidyFrame)
             /\ h'.queue = hh.queue /\ h'.exiting = hh.exiting
             /\ "CLOSED" \in state' => "CLOSED" \in st
  <2>1. /\ res.err => OsFaults
        /\ res.h.queue = hh.queue /\ res.h.exiting = hh.exiting
        /\ "CLOSED" \in res.state => "CLOSED" \in st
    BY <1>4, ResumedKeeps
  <2>2. CASE res.err
    BY <1>2, <1>4, <2>1, <2>2
  <2>3. CASE ~res.err
    <3>1. "bound" \in FlushKinds
      BY DEF FlushKinds
    <3>2. Push("bound", pend, rest) \in Seq(TidyFrame)
      BY <3>1, FramesStay, FrameKinds
    <3> QED BY <1>1, <1>4, <2>1, <2>3, <3>1, <3>2, QueueToFlush
  <2> QED BY <2>2, <2>3
<1> QED BY <1>3, <1>4 DEF onbind

\* A bind that fails leaves the queue for the flush of its microtask.
LEMMA BindWithTraces ==
    ASSUME TypeOK, NEW results \in {bare_dgram_bind(h), bare_dgram_open(h)},
           NEW st, ~Closing(st), NEW pz, NEW pend \in Seq(Fn), NEW rest \in Seq(TidyFrame),
           NEW l, NEW b, NEW d, NEW i, PlacedIn(pend, rest, l, b, d, i),
           bindWith(results, st, pz, pend, rest)
    PROVE  /\ PlacedIn(pending', stack', l, b, d, i)
           /\ stack' \in Seq(TidyFrame)
           /\ h'.queue = h.queue /\ h'.exiting = h.exiting
           /\ "CLOSED" \in state' => "CLOSED" \in st
<1>1. PICK res \in results :
        IF res.err THEN onbinderror(res.h, st, pend, rest)
                   ELSE onbind(res.h, st, pz, pend, rest)
  BY DEF bindWith
<1>2. h \in Handle
  BY DEF TypeOK
<1>3. res.h \in Handle /\ res.h.queue = h.queue /\ res.h.exiting = h.exiting
  BY <1>2, BindResult, OpenResult, CallsKeepQueue, CallsKeepLife DEF Result, LifeOf
<1>4. CASE res.err
  BY <1>1, <1>3, <1>4 DEF onbinderror
<1>5. CASE ~res.err
  BY <1>1, <1>3, <1>5, OnBindTraces
<1> QED BY <1>4, <1>5

\* _bindMaybe queues a function, and begins a bind with it.
LEMMA BindMaybeTraces ==
    ASSUME TypeOK, Matched, stack \in Seq(TidyFrame), NEW fn \in Fn, NEW i,
           PlacedIn(Append(pending, fn), stack, lookups, sends, settled, i),
           NEW st, ~Closing(st), NEW pz, bindMaybe(fn, st, pz)
    PROVE  /\ PlacedIn(pending', stack', lookups', sends', settled', i)
           /\ Matched'
           /\ stack' \in Seq(TidyFrame)
           /\ "CLOSED" \in state' => "CLOSED" \in st
<1>1. UNCHANGED <<sends, settled, lookups>> /\ Append(pending, fn) \in Seq(Fn)
  BY AppendProperties DEF bindMaybe, TypeOK
<1>2. CASE state' = st /\ pending' = Append(pending, fn) /\ UNCHANGED <<h, micro, stack>>
  BY <1>1, <1>2, MatchedStays
<1>3. CASE bindWith(bare_dgram_bind(h), st \cup {"BINDING"}, pz, Append(pending, fn), stack)
  <2>1. /\ PlacedIn(pending', stack', lookups, sends, settled, i)
        /\ stack' \in Seq(TidyFrame)
        /\ h'.queue = h.queue /\ h'.exiting = h.exiting
        /\ "CLOSED" \in state' => "CLOSED" \in st \cup {"BINDING"}
    BY <1>1, <1>3, OpenAdds, BindWithTraces
  <2> QED BY <1>1, <2>1, MatchedStays
<1> QED BY <1>2, <1>3 DEF bindMaybe

-----------------------------------------------------------------------------
(* The calls of the program *)

\* The lookups of bind and connect are none of a request.
LEMMA OtherLookups ==
    ASSUME NEW name \in {"bind", "connect"}
    PROVE  /\ (lookups \cup {name}) \cap Req = lookups \cap Req
           /\ (lookups \ {name}) \cap Req = lookups \cap Req
BY DgramSocketAssumption

\* An open socket is not closed.
LEMMA NotLast ==
    ASSUME ~Closing(state), "CLOSED" \in state' => "CLOSED" \in state
    PROVE  LastFlush'
BY DEF Closing, LastFlush

\* bind() moves what is queued around it.
LEMMA BindTraced ==
    ASSUME Inductive, Traced, bind
    PROVE  Traced'
<1>1. /\ TypeOK /\ pending \in Seq(Fn) /\ ~Closing(state)
      /\ PlacedIn(pending, stack, lookups, sends, settled, issued)
      /\ Matched /\ stack \in Seq(TidyFrame) /\ stack \in Seq(Frame)
  BY DEF Inductive, TypeOK, Traced, Placed, bind
<1>2. UNCHANGED <<sends, issued, settled>>
  BY DEF bind
<1>3. CASE /\ \/ bindWith(bare_dgram_open(h), state \cup {"BINDING"}, paused, pending, stack)
              \/ bindWith(bare_dgram_bind(h), state \cup {"BINDING"}, paused, pending, stack)
           /\ lookups' = lookups
  <2>1. /\ PlacedIn(pending', stack', lookups, sends, settled, issued)
        /\ stack' \in Seq(TidyFrame)
        /\ h'.queue = h.queue /\ h'.exiting = h.exiting
        /\ "CLOSED" \in state' => "CLOSED" \in state \cup {"BINDING"}
    BY <1>1, <1>3, OpenAdds, BindWithTraces
  <2> QED BY <1>1, <1>2, <1>3, <2>1, MatchedStays, NotLast DEF Traced, Placed
<1>4. CASE /\ lookups' \in {lookups, lookups \cup {"bind"}}
           /\ state' = state \cup {"BINDING"} /\ UNCHANGED <<h, pending, stack>>
  <2>1. PlacedIn(pending, stack, lookups', sends, settled, issued)
    BY <1>1, <1>4, OtherLookups, OthersMove
  <2> QED BY <1>1, <1>2, <1>4, <2>1, MatchedStays, NotLast DEF Traced, Placed
<1> QED BY <1>3, <1>4 DEF bind, onbinderror

\* The answer of the lookup of connect, or none, moves no request.
LEMMA ConnectTraces ==
    ASSUME TypeOK, Matched, stack' \in Seq(Frame), NEW p \in Seq(Fn), NEW i,
           NEW l, NEW rest \in Seq(TidyFrame), PlacedIn(p, rest, l, sends, settled, i),
           NEW st,
           \/ resolveConnect(st, rest) /\ l = lookups
           \/ (\E ok \in BOOLEAN : connectResolved(st, ok, rest)) /\ l = lookups'
    PROVE  /\ PlacedIn(p, stack', lookups', sends, settled, i)
           /\ stack' \in Seq(TidyFrame)
           /\ h'.queue = h.queue /\ h'.exiting = h.exiting
           /\ "CLOSED" \in state' => "CLOSED" \in st
           /\ stack' = rest \/ stack' \in Unwound(rest)
<1>1. h \in Handle /\ rest \in Seq(Frame)
  BY FramesStay, FrameKinds DEF TypeOK
<1>2. ASSUME NEW ok \in BOOLEAN, connectResolved(st, ok, rest)
      PROVE  /\ stack' = rest
             /\ h'.queue = h.queue /\ h'.exiting = h.exiting
             /\ "CLOSED" \in state' => "CLOSED" \in st
  <2>1. stack' = rest
    BY <1>2 DEF connectResolved
  <2>2. CASE h' = h /\ state' = st \ {"CONNECTING"}
    BY <2>1, <2>2
  <2>3. CASE \E res \in bare_dgram_connect(h) :
               /\ h' = res.h
               /\ state' \in {st \ {"CONNECTING"}, (st \ {"CONNECTING"}) \cup {"CONNECTED"}}
    BY <1>1, <2>1, <2>3, CallsKeepQueue, ConnectKeepsSocket DEF LifeOf
  <2> QED BY <1>2, <2>2, <2>3 DEF connectResolved
<1>3. CASE (\E ok \in BOOLEAN : connectResolved(st, ok, rest)) /\ l = lookups'
  BY <1>2, <1>3
<1>4. CASE (\E ok \in BOOLEAN : connectResolved(st, ok, rest)) /\ l = lookups /\ lookups' = lookups
  BY <1>2, <1>4
<1>5. CASE /\ lookups' = lookups \cup {"connect"} /\ l = lookups
           /\ state' = st /\ stack' = rest /\ h' = h
  BY <1>1, <1>5, OtherLookups, OthersMove
<1>6. CASE /\ LookupThrows /\ l = lookups /\ lookups' = lookups
           /\ state' = st /\ stack' \in Unwound(rest) /\ h' = h
  BY <1>1, <1>6, UnwoundPlaces, FramesStay, FrameKinds DEF Reliable
<1> QED BY <1>3, <1>4, <1>5, <1>6 DEF resolveConnect

\* connect() queues a function of its own, or asks for its host.
LEMMA ConnectTraced ==
    ASSUME Inductive, Traced, "connect" \in Calls, connect
    PROVE  Traced'
<1> DEFINE st == state \cup {"CONNECTING"}
<1>1. /\ TypeOK /\ pending \in Seq(Fn) /\ ~Closing(state)
      /\ PlacedIn(pending, stack, lookups, sends, settled, issued)
      /\ Matched /\ stack \in Seq(TidyFrame) /\ stack \in Seq(Frame)
  BY DEF Inductive, TypeOK, Traced, Placed, connect
<1>2. issued' = issued /\ stack' \in Seq(Frame)
  BY <1>1, ConnectKeepsType DEF connect, TypeOK
<1>3. CASE resolveConnect(st, stack) /\ UNCHANGED <<pending, sends, settled>>
  <2>1. /\ PlacedIn(pending, stack', lookups', sends, settled, issued)
        /\ stack' \in Seq(TidyFrame)
        /\ h'.queue = h.queue /\ h'.exiting = h.exiting
        /\ "CLOSED" \in state' => "CLOSED" \in st
    BY <1>1, <1>2, <1>3, ConnectTraces
  <2> QED BY <1>1, <1>2, <1>3, <2>1, MatchedStays, NotLast DEF Traced, Placed
<1>4. CASE bindMaybe("connect", st, paused)
  <2>1. "connect" \in Fn /\ "connect" \notin Req
    BY DgramSocketAssumption DEF Fn
  <2>2. PlacedIn(Append(pending, "connect"), stack, lookups, sends, settled, issued)
    BY <1>1, <2>1, OthersMove
  <2>3. /\ PlacedIn(pending', stack', lookups', sends', settled', issued)
        /\ Matched' /\ stack' \in Seq(TidyFrame)
        /\ "CLOSED" \in state' => "CLOSED" \in st
    BY <1>1, <1>4, <2>1, <2>2, OpenAdds, BindMaybeTraces
  <2> QED BY <1>1, <1>2, <2>3, NotLast DEF Traced, Placed
<1> QED BY <1>3, <1>4 DEF connect

\* send() puts its request in the first place.
LEMMA SendTraced ==
    ASSUME Inductive, Traced, NEW r \in Req, send(r)
    PROVE  Traced'
<1>1. /\ TypeOK /\ pending \in Seq(Fn) /\ ~Closing(state)
      /\ PlacedIn(pending, stack, lookups, sends, settled, issued)
      /\ Matched /\ stack \in Seq(TidyFrame)
  BY DEF Inductive, TypeOK, Traced, Placed, send
<1>2. r \in issued' /\ issued = issued' \ {r}
  BY DEF send
<1>3. CASE /\ handOver(r, FALSE, stack)
           /\ UNCHANGED <<state, pending, lookups, micro>>
  <2>1. /\ PlacedIn(pending, stack', lookups, sends', settled', issued')
        /\ Matched' /\ stack' \in Seq(TidyFrame)
    BY <1>1, <1>2, <1>3, HandOverTraces
  <2> QED BY <1>1, <1>3, <2>1, NotLast DEF Traced, Placed
<1>4. CASE resolveSend(r, stack) /\ UNCHANGED <<state, pending, micro>>
  <2>1. /\ PlacedIn(pending, stack', lookups', sends', settled', issued')
        /\ Matched' /\ stack' \in Seq(TidyFrame)
    BY <1>1, <1>2, <1>4, ResolveTraces
  <2> QED BY <1>1, <1>4, <2>1, NotLast DEF Traced, Placed
<1>5. CASE bindMaybe(r, state, paused)
  <2>1. r \in Fn
    BY DEF Fn
  <2>2. PlacedIn(Append(pending, r), stack, lookups, sends, settled, issued')
    BY <1>1, <1>2, AddToQueue
  <2>3. /\ PlacedIn(pending', stack', lookups', sends', settled', issued')
        /\ Matched' /\ stack' \in Seq(TidyFrame)
        /\ "CLOSED" \in state' => "CLOSED" \in state
    BY <1>1, <1>5, <2>1, <2>2, BindMaybeTraces
  <2> QED BY <1>1, <2>3, NotLast DEF Traced, Placed
<1> QED BY <1>3, <1>4, <1>5 DEF send

\* A step that moves nothing.
LEMMA StillTraced ==
    ASSUME Traced, UNCHANGED <<pending, sends, lookups, stack, issued, settled>>,
           h'.queue = h.queue, h'.exiting = h.exiting,
           "CLOSED" \in state' => "CLOSED" \in state
    PROVE  Traced'
BY DEF Traced, Placed, Matched, LastFlush

\* resume() may queue a function of its own.
LEMMA ResumeTraced ==
    ASSUME Inductive, Traced, "resume" \in Calls, resume
    PROVE  Traced'
<1>1. /\ TypeOK /\ pending \in Seq(Fn) /\ h \in Handle /\ issued' = issued
      /\ PlacedIn(pending, stack, lookups, sends, settled, issued)
      /\ Matched /\ stack \in Seq(TidyFrame) /\ stack \in Seq(Frame)
  BY DEF Inductive, TypeOK, Traced, Placed, resume
<1>2. CASE UNCHANGED <<state, pending, sends, h, lookups, micro, stack, settled>>
  BY <1>1, <1>2, StillTraced
<1>3. CASE /\ \E res \in resumed(h, state, FALSE) : state' = res.state /\ h' = res.h
           /\ UNCHANGED <<pending, sends, lookups, micro, stack, settled>>
  <2>0. PICK pz : pz = FALSE
    OBVIOUS
  <2>1. PICK res \in resumed(h, state, pz) : state' = res.state /\ h' = res.h
    BY <1>3, <2>0
  <2>2. res.h.queue = h.queue /\ res.h.exiting = h.exiting /\ ("CLOSED" \in res.state => "CLOSED" \in state)
    BY <1>1, ResumedKeeps
  <2> QED BY <1>1, <1>3, <2>1, <2>2, StillTraced
<1>4. CASE ~Closing(state) /\ bindMaybe("resume", state, FALSE)
  <2>1. "resume" \in Fn /\ "resume" \notin Req
    BY DgramSocketAssumption DEF Fn
  <2>2. PlacedIn(Append(pending, "resume"), stack, lookups, sends, settled, issued)
    BY <1>1, <2>1, OthersMove
  <2>3. /\ PlacedIn(pending', stack', lookups', sends', settled', issued)
        /\ Matched' /\ stack' \in Seq(TidyFrame)
        /\ "CLOSED" \in state' => "CLOSED" \in state
    BY <1>1, <1>4, <2>1, <2>2, BindMaybeTraces
  <2> QED BY <1>1, <1>4, <2>3, NotLast DEF Traced, Placed
<1> QED BY <1>2, <1>3, <1>4 DEF resume

\* The calls that only touch the handle leave its queue alone.
LEMMA OtherCallsKeepQueue ==
    ASSUME TypeOK, disconnect \/ pause \/ setOption \/ ref \/ unref \/ close
    PROVE  h'.queue = h.queue /\ h'.exiting = h.exiting
<1>1. h \in Handle
  BY DEF TypeOK
<1>2. CASE disconnect
  BY <1>1, <1>2, CallsKeepQueue, ConnectKeepsSocket DEF disconnect, LifeOf
<1>3. CASE setOption
  BY <1>1, <1>3, CallsKeepQueue, CallsKeepLife DEF setOption, LifeOf
<1>4. CASE pause \/ ref \/ unref
  BY <1>1, <1>4, CallsKeepQueue, StepsKeepSocket DEF pause, ref, unref, LifeOf
<1>5. CASE close
  <2>1. h' = h \/ h' = bare_dgram_close(h)
    BY <1>5 DEF close
  <2>2. bare_dgram_close(h).exiting = h.exiting
    BY <1>1 DEF bare_dgram_close, uv_close, Handle
  <2> QED BY <1>1, <2>1, <2>2, CallsKeepQueue
<1> QED BY <1>2, <1>3, <1>4, <1>5

\* So they move nothing.
LEMMA OtherCallsTraced ==
    ASSUME Inductive, Traced, disconnect \/ pause \/ setOption \/ ref \/ unref \/ close
    PROVE  Traced'
<1>1. /\ UNCHANGED <<pending, sends, lookups, stack, issued, settled>>
      /\ "CLOSED" \in state' => "CLOSED" \in state
  BY DEF disconnect, pause, setOption, ref, unref, close
<1> QED BY <1>1, OtherCallsKeepQueue, StillTraced DEF Inductive

\* Adopting a descriptor from a pipe takes the queue for a flush.
LEMMA IpcAcceptTraced ==
    ASSUME Inductive, Traced, InUserCode, ipcAccept
    PROVE  Traced'
<1>1. /\ TypeOK /\ pending \in Seq(Fn) /\ h \in Handle
      /\ PlacedIn(pending, stack, lookups, sends, settled, issued)
      /\ Matched /\ stack \in Seq(TidyFrame)
  BY DEF Inductive, TypeOK, Traced, Placed
<1>2. UNCHANGED <<sends, lookups, issued, settled>>
  BY DEF ipcAccept
<1>3. PICK res \in bare_dgram_open(h) : onbind(res.h, state, paused, pending, stack)
  BY DEF ipcAccept
<1>4. res.h \in Handle /\ res.h.queue = h.queue /\ res.h.exiting = h.exiting
  BY <1>1, OpenResult, CallsKeepQueue, CallsKeepLife DEF Result, LifeOf
<1>5. /\ PlacedIn(pending', stack', lookups, sends, settled, issued)
      /\ stack' \in Seq(TidyFrame)
      /\ h'.queue = h.queue /\ h'.exiting = h.exiting
      /\ "CLOSED" \in state' => "CLOSED" \in state
  BY <1>1, <1>3, <1>4, UserCatches, OnBindTraces
<1>6. LastFlush'
  <2>1. \/ pending' = pending /\ stack' \in Unwound(stack)
        \/ pending' = <<>> /\ stack' = Push("bound", pending, stack)
    BY <1>3 DEF onbind
  <2>2. SUFFICES ASSUME "CLOSED" \in state
                 PROVE  pending' = <<>> /\ sends' = {} /\ stack' \in Seq(LastFrame)
    BY <1>5 DEF LastFlush
  <2>3. pending = <<>> /\ sends = {} /\ stack \in Seq(LastFrame)
    BY <2>2 DEF Traced, LastFlush
  <2>4. [kind |-> "bound", fns |-> <<>>] \in LastFrame
    BY EmptySeq DEF LastFrame, Frame, FlushKinds
  <2>5. Push("bound", <<>>, stack) \in Seq(LastFrame) /\ \A t \in Unwound(stack) : t \in Seq(LastFrame)
    BY <2>3, <2>4, FramesStay, FrameKinds
  <2> QED BY <1>2, <2>1, <2>3, <2>5
<1> QED BY <1>1, <1>2, <1>5, <1>6, MatchedStays DEF Traced, Placed

-----------------------------------------------------------------------------
(* flush *)

\* What a flush calls next is taken from its frame.
LEMMA FlushTakes ==
    ASSUME Inductive, Traced, stack # <<>>, Head(stack).fns # <<>>,
           Head(stack).kind \in FlushKinds
    PROVE  LET fn == Head(Head(stack).fns)
               rest == Push(Head(stack).kind, Tail(Head(stack).fns), Tail(stack))
           IN /\ fn \in Fn
              /\ PlacedIn(pending, rest, lookups, sends, settled, issued \ {fn})
              /\ fn \in Req => fn \in issued
              /\ rest \in Seq(TidyFrame) /\ rest \in Seq(Frame)
              /\ "CLOSED" \in state => Head(stack).kind = "closed" /\ rest \in Seq(LastFrame)
<1> DEFINE kind == Head(stack).kind
           fns == Head(stack).fns
           rest == Push(kind, Tail(fns), Tail(stack))
<1>1. /\ PlacedIn(pending, stack, lookups, sends, settled, issued)
      /\ stack \in Seq(TidyFrame) /\ stack \in Seq(Frame)
  BY DEF Inductive, TypeOK, Traced, Placed
<1>2. /\ kind \in UserKinds \cup FlushKinds /\ fns \in Seq(Fn) /\ Tail(stack) \in Seq(Frame)
      /\ Head(fns) \in Fn /\ Tail(fns) \in Seq(Fn) /\ rest \in Seq(Frame)
  BY TopFrame, HeadTailProperties DEF Inductive
<1>3. PlacedIn(pending, Push(kind, fns, Tail(stack)), lookups, sends, settled, issued)
  BY <1>1, TopStack
<1>4. PlacedIn(pending, rest, lookups, sends, settled, issued \ {Head(fns)})
  BY <1>2, <1>3, TakeFromFlush
<1>5. ASSUME Head(fns) \in Req
      PROVE  Head(fns) \in issued
  <2>1. InFns(fns, Head(fns))
    BY <1>2, TailFns
  <2>2. PICK q : q = Head(fns)
    OBVIOUS
  <2>3. PICK s : s = Push(kind, fns, Tail(stack))
    OBVIOUS
  <2>4. InStack(s, q) <=> InFns(fns, q) \/ InStack(Tail(stack), q)
    BY <1>2, <2>3, PushStack
  <2> QED BY <1>3, <1>5, <2>1, <2>2, <2>3, <2>4 DEF PlacedIn, Somewhere
<1>6. rest \in Seq(TidyFrame)
  BY <1>1, <1>2, FramesStay, FrameKinds
<1>7. ASSUME "CLOSED" \in state
      PROVE  kind = "closed" /\ rest \in Seq(LastFrame)
  <2>1. stack \in Seq(LastFrame)
    BY <1>7 DEF Traced, LastFlush
  <2>2. Head(stack) \in LastFrame /\ Tail(stack) \in Seq(LastFrame)
    BY <2>1, FramesStay, FrameKinds
  <2>3. kind = "closed"
    BY <2>2 DEF LastFrame
  <2> QED BY <1>2, <2>2, <2>3, FramesStay, FrameKinds
<1> QED BY <1>2, <1>4, <1>5, <1>6, <1>7

\* flush without an error: the function asks for its address, is handed over or
\* reported.
LEMMA FlushNextTraced ==
    ASSUME Inductive, Traced, flushNext
    PROVE  Traced'
<1>1. /\ TypeOK /\ pending \in Seq(Fn) /\ h \in Handle /\ Matched
      /\ stack # <<>> /\ Head(stack).kind = "bound" /\ Head(stack).fns # <<>>
      /\ "bound" \in FlushKinds /\ UNCHANGED <<pending, issued>>
  BY DEF Inductive, TypeOK, Traced, flushNext, InFlush, FlushKinds
<1>2. PICK fn, rest : /\ fn = Head(Head(stack).fns)
                      /\ rest = Push("bound", Tail(Head(stack).fns), Tail(stack))
  OBVIOUS
<1>3. /\ PlacedIn(pending, rest, lookups, sends, settled, issued \ {fn})
      /\ fn \in Req => fn \in issued
      /\ rest \in Seq(TidyFrame) /\ rest \in Seq(Frame)
      /\ "CLOSED" \notin state
  BY <1>1, <1>2, FlushTakes
<1>4. CASE fn \in Req /\ resolveSend(fn, rest) /\ UNCHANGED <<state, micro>>
  <2>1. /\ PlacedIn(pending, stack', lookups', sends', settled', issued)
        /\ Matched' /\ stack' \in Seq(TidyFrame)
    BY <1>1, <1>3, <1>4, ResolveTraces
  <2> QED BY <1>1, <1>3, <1>4, <2>1 DEF Traced, Placed, LastFlush
<1>5. CASE fn = "connect" /\ resolveConnect(state, rest) /\ UNCHANGED <<sends, settled>>
  <2>1. fn \notin Req
    BY <1>5, DgramSocketAssumption
  <2>2. PlacedIn(pending, rest, lookups, sends, settled, issued)
    BY <1>3, <2>1 DEF PlacedIn
  <2>3. stack' \in Seq(Frame)
    BY FlushNextKeepsType DEF Inductive, TypeOK
  <2>4. /\ PlacedIn(pending, stack', lookups', sends, settled, issued)
        /\ stack' \in Seq(TidyFrame)
        /\ h'.queue = h.queue /\ h'.exiting = h.exiting
        /\ "CLOSED" \in state' => "CLOSED" \in state
    BY <1>1, <1>3, <1>5, <2>2, <2>3, ConnectTraces
  <2> QED BY <1>1, <1>3, <1>5, <2>4, MatchedStays DEF Traced, Placed, LastFlush
<1>6. CASE /\ fn = "resume"
           /\ \E res \in resumed(h, state, paused) :
                 /\ state' = res.state /\ h' = res.h
                 /\ IF res.err THEN stack' \in Unwound(rest) ELSE stack' = rest
           /\ UNCHANGED <<sends, lookups, micro, settled>>
  <2>1. fn \notin Req
    BY <1>6, DgramSocketAssumption
  <2>2. PlacedIn(pending, rest, lookups, sends, settled, issued)
    BY <1>3, <2>1 DEF PlacedIn
  <2>3. PICK res \in resumed(h, state, paused) :
          /\ state' = res.state /\ h' = res.h
          /\ IF res.err THEN stack' \in Unwound(rest) ELSE stack' = rest
    BY <1>6
  <2>4. /\ res.err => ~Reliable
        /\ res.h.queue = h.queue /\ res.h.exiting = h.exiting
        /\ "CLOSED" \in res.state => "CLOSED" \in state
    BY <1>1, ResumedKeeps DEF Reliable
  <2>5. PlacedIn(pending, stack', lookups, sends, settled, issued) /\ stack' \in Seq(TidyFrame)
    BY <1>3, <2>2, <2>3, <2>4, UnwoundPlaces, FramesStay, FrameKinds
  <2> QED BY <1>1, <1>3, <1>6, <2>3, <2>4, <2>5, MatchedStays DEF Traced, Placed, LastFlush
<1> QED BY <1>2, <1>4, <1>5, <1>6 DEF flushNext

\* flush with an error reports every request it finds.
LEMMA FlushErrorTraced ==
    ASSUME Inductive, Traced, flushError
    PROVE  Traced'
<1>1. /\ pending \in Seq(Fn) /\ Matched
      /\ stack # <<>> /\ Head(stack).kind \in FlushKinds /\ Head(stack).fns # <<>>
      /\ UNCHANGED <<pending, sends, h, lookups, issued>>
      /\ "CLOSED" \in state' => "CLOSED" \in state
  BY DEF Inductive, TypeOK, Traced, flushError, InFlush, FlushKinds
<1>2. PICK fn, rest : /\ fn = Head(Head(stack).fns)
                      /\ rest = Push(Head(stack).kind, Tail(Head(stack).fns), Tail(stack))
  OBVIOUS
<1>3. /\ PlacedIn(pending, rest, lookups, sends, settled, issued \ {fn})
      /\ fn \in Req => fn \in issued
      /\ rest \in Seq(TidyFrame)
      /\ "CLOSED" \in state => rest \in Seq(LastFrame)
  BY <1>1, <1>2, FlushTakes
<1>4. /\ PlacedIn(pending, stack', lookups, sends, settled', issued)
      /\ stack' \in Seq(TidyFrame)
      /\ "CLOSED" \in state => stack' \in Seq(LastFrame)
  <2>1. CASE fn \in Req /\ callback(fn, rest)
    BY <1>1, <1>3, <2>1, ReportTraces
  <2>2. CASE fn \notin Req /\ stack' = rest /\ settled' = settled
    BY <1>3, <2>2 DEF PlacedIn
  <2> QED BY <1>2, <2>1, <2>2 DEF flushError
<1>5. Matched'
  BY <1>1, MatchedStays
<1> QED BY <1>1, <1>4, <1>5 DEF Traced, Placed, LastFlush

\* The frame that goes when a flush is done, user code returns or an exception
\* leaves it, has nothing left to call; what an exception takes with it may be lost.
LEMMA FrameGoesTraced ==
    ASSUME Inductive, Traced, flushDone \/ Return \/ Throw
    PROVE  Traced'
<1>1. /\ pending \in Seq(Fn) /\ stack \in Seq(Frame) /\ stack \in Seq(TidyFrame)
      /\ PlacedIn(pending, stack, lookups, sends, settled, issued) /\ Matched
      /\ stack # <<>>
      /\ UNCHANGED <<state, pending, sends, h, lookups, issued, settled>>
  BY DEF Inductive, TypeOK, Traced, Placed, flushDone, Return, Throw, InUserCode
<1>2. Head(stack).fns = <<>>
  <2>1. CASE flushDone
    BY <2>1 DEF flushDone
  <2>2. CASE Return \/ Throw
    <3>1. Head(stack) \in TidyFrame /\ Head(stack).kind \in UserKinds
      BY <1>1, <2>2, FramesStay, FrameKinds DEF Return, Throw, InUserCode
    <3> QED BY <3>1 DEF TidyFrame
  <2> QED BY <2>1, <2>2
<1>3. /\ PlacedIn(pending, Tail(stack), lookups, sends, settled, issued)
      /\ Tail(stack) \in Seq(Frame) /\ Tail(stack) \in Seq(TidyFrame)
      /\ stack \in Seq(LastFrame) => Tail(stack) \in Seq(LastFrame)
  BY <1>1, <1>2, EmptyFrameGoes, FramesStay, FrameKinds
<1>4. \/ stack' = Tail(stack)
      \/ \E kind \in UserKinds : stack' = Call(kind, Tail(stack))
      \/ ~Reliable /\ stack' \in Unwound(Tail(stack))
  BY DEF flushDone, Return, Throw, UserKinds, Reliable
<1>5. /\ PlacedIn(pending, stack', lookups, sends, settled, issued)
      /\ stack' \in Seq(TidyFrame)
      /\ stack \in Seq(LastFrame) => stack' \in Seq(LastFrame)
  <2>1. CASE stack' = Tail(stack)
    BY <1>3, <2>1
  <2>2. CASE \E kind \in UserKinds : stack' = Call(kind, Tail(stack))
    <3>1. PICK kind \in UserKinds : stack' = Call(kind, Tail(stack))
      BY <2>2
    <3>2. PlacedIn(pending, stack', lookups, sends, settled, issued)
      BY <1>1, <1>3, <3>1, OthersMove
    <3> QED BY <1>3, <3>1, <3>2, CallsStay
  <2>3. CASE ~Reliable /\ stack' \in Unwound(Tail(stack))
    BY <1>3, <2>3, UnwoundPlaces, FramesStay, FrameKinds
  <2> QED BY <1>4, <2>1, <2>2, <2>3
<1>6. Matched'
  BY <1>1, MatchedStays
<1> QED BY <1>1, <1>5, <1>6 DEF Traced, Placed, LastFlush

-----------------------------------------------------------------------------
(* The microtasks and the event loop *)

\* Calling a listener moves nothing.
LEMMA EventsTraced ==
    ASSUME Inductive, Traced,
           runMicrotask \/ userTurn \/ \E err \in BOOLEAN : onmessage(err)
    PROVE  Traced'
<1>1. /\ pending \in Seq(Fn) /\ stack \in Seq(Frame) /\ stack \in Seq(TidyFrame)
      /\ PlacedIn(pending, stack, lookups, sends, settled, issued) /\ Matched
      /\ stack = <<>> /\ micro \in Seq(Micro)
      /\ UNCHANGED <<state, pending, sends, h, lookups, issued, settled>>
  BY DEF Inductive, TypeOK, Traced, Placed, runMicrotask, userTurn, onmessage, Idle
<1>2. stack' = stack \/ \E kind \in UserKinds : stack' = Call(kind, stack)
  <2>1. CASE userTurn \/ \E err \in BOOLEAN : onmessage(err)
    BY <1>1, <2>1 DEF userTurn, onmessage, UserKinds
  <2>2. CASE runMicrotask
    <3>1. Head(micro) \in Micro \ {"binderror"}
      BY <1>1, <2>2, HeadTailProperties DEF runMicrotask
    <3>2. Head(micro) \in UserKinds
      BY <3>1 DEF Micro, UserKinds
    <3> QED BY <1>1, <2>2, <3>2 DEF runMicrotask
  <2> QED BY <2>1, <2>2
<1>3. /\ PlacedIn(pending, stack', lookups, sends, settled, issued)
      /\ stack' \in Seq(TidyFrame)
      /\ stack \in Seq(LastFrame) => stack' \in Seq(LastFrame)
  <2>1. CASE stack' = stack
    BY <1>1, <2>1
  <2>2. CASE \E kind \in UserKinds : stack' = Call(kind, stack)
    <3>1. PICK kind \in UserKinds : stack' = Call(kind, stack)
      BY <2>2
    <3>2. PlacedIn(pending, stack', lookups, sends, settled, issued)
      BY <1>1, <3>1, OthersMove
    <3> QED BY <1>1, <3>1, <3>2, CallsStay
  <2> QED BY <1>2, <2>1, <2>2
<1>4. Matched'
  BY <1>1, MatchedStays
<1> QED BY <1>1, <1>3, <1>4 DEF Traced, Placed, LastFlush

\* The report of a failed bind takes the queue for its flush; a closed socket has
\* none.
LEMMA BindErrorTraced ==
    ASSUME Inductive, Traced, runBindError
    PROVE  Traced'
<1>1. /\ pending \in Seq(Fn) /\ stack = <<>> /\ <<>> \in Seq(Frame)
      /\ <<>> \in Seq(TidyFrame) /\ <<>> \in Seq(LastFrame)
      /\ PlacedIn(pending, <<>>, lookups, sends, settled, issued) /\ Matched
      /\ UNCHANGED <<sends, h, lookups, issued, settled>>
      /\ pending' = <<>> /\ stack' = Push("failed", pending, <<>>)
      /\ "CLOSED" \in state' => "CLOSED" \in state
      /\ "failed" \in FlushKinds
  BY EmptySeq DEF Inductive, TypeOK, Traced, Placed, runBindError, FlushKinds
<1>2. PlacedIn(pending', stack', lookups, sends, settled, issued) /\ stack' \in Seq(TidyFrame)
  BY <1>1, QueueToFlush, FramesStay, FrameKinds
<1>3. ASSUME "CLOSED" \in state
      PROVE  sends = {} /\ stack' \in Seq(LastFrame)
  <2>1. pending = <<>> /\ sends = {}
    BY <1>3 DEF Traced, LastFlush
  <2>2. [kind |-> "failed", fns |-> <<>>] \in LastFrame
    BY EmptySeq DEF LastFrame, Frame, FlushKinds
  <2> QED BY <1>1, <2>1, <2>2, FramesStay, FrameKinds
<1>4. Matched'
  BY <1>1, MatchedStays
<1> QED BY <1>1, <1>2, <1>3, <1>4 DEF Traced, Placed, LastFlush

\* The answer to bind takes the queue or leaves it, as bind() does.
LEMMA LookupBindTraced ==
    ASSUME Inductive, Traced, NEW ok \in BOOLEAN, lookupBind(ok)
    PROVE  Traced'
<1>1. /\ TypeOK /\ pending \in Seq(Fn) /\ stack = <<>>
      /\ <<>> \in Seq(Frame) /\ <<>> \in Seq(TidyFrame)
      /\ PlacedIn(pending, <<>>, lookups, sends, settled, issued) /\ Matched
      /\ lookups' = lookups \ {"bind"} /\ UNCHANGED <<sends, issued, settled>>
  BY EmptySeq DEF Inductive, TypeOK, Traced, Placed, lookupBind, Idle
<1>2. PlacedIn(pending, <<>>, lookups', sends, settled, issued)
  BY <1>1, OtherLookups, OthersMove
<1>3. CASE UNCHANGED <<state, pending, h, stack>>
  BY <1>1, <1>2, <1>3, MatchedStays DEF Traced, Placed, LastFlush
<1>4. CASE ~Closing(state) /\ onbinderror(h, state, pending, <<>>)
  BY <1>1, <1>2, <1>4, MatchedStays, NotLast DEF Traced, Placed, onbinderror
<1>5. CASE ~Closing(state) /\ bindWith(bare_dgram_bind(h), state, paused, pending, <<>>)
  <2>1. /\ PlacedIn(pending', stack', lookups', sends, settled, issued)
        /\ stack' \in Seq(TidyFrame)
        /\ h'.queue = h.queue /\ h'.exiting = h.exiting
        /\ "CLOSED" \in state' => "CLOSED" \in state
    BY <1>1, <1>2, <1>5, BindWithTraces
  <2> QED BY <1>1, <1>5, <2>1, MatchedStays, NotLast DEF Traced, Placed
<1> QED BY <1>3, <1>4, <1>5 DEF lookupBind

\* The answer to connect moves no request.
LEMMA LookupConnectTraced ==
    ASSUME Inductive, Traced, NEW ok \in BOOLEAN, lookupConnect(ok)
    PROVE  Traced'
<1>1. /\ TypeOK /\ pending \in Seq(Fn) /\ stack = <<>> /\ stack' \in Seq(Frame)
      /\ <<>> \in Seq(Frame) /\ <<>> \in Seq(TidyFrame) /\ <<>> \in Seq(LastFrame)
      /\ PlacedIn(pending, <<>>, lookups, sends, settled, issued) /\ Matched
      /\ lookups' = lookups \ {"connect"} /\ UNCHANGED <<pending, sends, issued, settled>>
  BY EmptySeq, LookupsKeepType DEF Inductive, TypeOK, Traced, Placed, lookupConnect, Idle
<1>2. PlacedIn(pending, <<>>, lookups', sends, settled, issued)
  BY <1>1, OtherLookups, OthersMove
<1>3. \E o \in BOOLEAN : connectResolved(state, o, <<>>)
  BY DEF lookupConnect
<1>4. /\ PlacedIn(pending, stack', lookups', sends, settled, issued)
      /\ stack' \in Seq(TidyFrame)
      /\ h'.queue = h.queue /\ h'.exiting = h.exiting
      /\ "CLOSED" \in state' => "CLOSED" \in state
      /\ stack' = <<>> \/ stack' \in Unwound(<<>>)
  BY <1>1, <1>2, <1>3, ConnectTraces
<1>5. stack' \in Seq(LastFrame)
  BY <1>1, <1>4, FramesStay, FrameKinds
<1> QED BY <1>1, <1>4, <1>5, MatchedStays DEF Traced, Placed, LastFlush

\* The answer to a send takes the request from the lookups.
LEMMA LookupSendTraced ==
    ASSUME Inductive, Traced, NEW r \in Req, NEW ok \in BOOLEAN, lookupSend(r, ok)
    PROVE  Traced'
<1>1. /\ TypeOK /\ pending \in Seq(Fn) /\ stack = <<>>
      /\ <<>> \in Seq(TidyFrame) /\ <<>> \in Seq(LastFrame)
      /\ PlacedIn(pending, <<>>, lookups, sends, settled, issued) /\ Matched
      /\ r \in lookups /\ lookups' = lookups \ {r} /\ UNCHANGED <<state, pending, issued>>
  BY EmptySeq DEF Inductive, TypeOK, Traced, Placed, lookupSend, Idle
<1>2. r \in issued /\ PlacedIn(pending, <<>>, lookups', sends, settled, issued \ {r})
  <2>1. r \in issued
    BY <1>1 DEF PlacedIn, Somewhere
  <2> QED BY <1>1, <2>1, TakeFromSet
<1>3. \E o \in BOOLEAN : sendResolved(r, o, <<>>)
  BY DEF lookupSend
<1>4. /\ PlacedIn(pending, stack', lookups', sends', settled', issued)
      /\ Matched' /\ stack' \in Seq(TidyFrame)
      /\ Closing(state) => sends' = sends
      /\ Closing(state) => stack' \in Seq(LastFrame)
  BY <1>1, <1>2, <1>3, ResolveTraces
<1>5. "CLOSED" \in state => Closing(state)
  BY DEF Closing
<1> QED BY <1>1, <1>4, <1>5 DEF Traced, Placed, LastFlush

\* A completion takes its request from _sends and from the queue of the handle.
LEMMA OnSendTraced ==
    ASSUME Inductive, Traced, NEW err \in BOOLEAN, onsend(err)
    PROVE  Traced'
<1>1. PICK r : r = Head(h.queue)
  OBVIOUS
<1>2. /\ pending \in Seq(Fn) /\ stack = <<>>
      /\ <<>> \in Seq(TidyFrame) /\ <<>> \in Seq(LastFrame)
      /\ PlacedIn(pending, <<>>, lookups, sends, settled, issued) /\ Matched
      /\ h \in Handle /\ h.queue \in Seq(Req) /\ h.queue # <<>>
      /\ UNCHANGED <<state, pending, lookups, issued>>
  BY EmptySeq
     DEF Inductive, TypeOK, Handle, Traced, Placed, onsend, Idle, CanCompleteSend
<1>3. h'.queue = Tail(h.queue) /\ h'.exiting = h.exiting
  BY <1>2 DEF onsend, bare_dgram__on_send, Handle
<1>4. ASSUME ~h.exiting
      PROVE  /\ r \in Req /\ r \in sends
             /\ sends \ {r} = Elements(Tail(h.queue)) /\ Distinct(Tail(h.queue))
  <2>1. sends = Elements(h.queue) /\ Distinct(h.queue)
    BY <1>2, <1>4 DEF Matched
  <2> QED BY <1>1, <1>2, <2>1, TailElements, HeadTailProperties
<1>5. CASE h.exiting /\ UNCHANGED <<sends, settled, stack>>
  BY <1>2, <1>3, <1>5 DEF Traced, Placed, Matched, LastFlush
<1>6. CASE /\ ~h.exiting
           /\ sends' = sends \ {r}
           /\ settled' = settled \cup {r}
           /\ stack' = IF r \in WithCb THEN Call("callback", <<>>)
                       ELSE IF err /\ ~Closing(state) THEN Call("error", <<>>)
                       ELSE <<>>
  <2>1. r \in issued
    BY <1>2, <1>4, <1>6 DEF PlacedIn, Somewhere
  <2>2. PlacedIn(pending, <<>>, lookups, sends', settled, issued \ {r})
    BY <1>2, <1>4, <1>6, TakeFromSet
  <2>3. callback(r, <<>>) \/ onsenderror(r, <<>>)
    BY <1>6 DEF callback, onsenderror
  <2>4. /\ PlacedIn(pending, stack', lookups, sends', settled', issued)
        /\ stack' \in Seq(TidyFrame) /\ stack' \in Seq(LastFrame)
    BY <1>2, <2>1, <2>2, <2>3, ReportTraces
  <2>5. Matched'
    BY <1>3, <1>4, <1>6 DEF Matched
  <2>6. sends = {} => sends' = {}
    BY <1>6
  <2> QED BY <1>2, <2>4, <2>5, <2>6 DEF Traced, Placed, LastFlush
<1> QED BY <1>1, <1>4, <1>5, <1>6 DEF onsend

\* _onclose finds no request in _sends, for the handle has none left, and takes
\* the queue for the last flush.
LEMMA OnCloseTraced ==
    ASSUME Inductive, Traced, onclose
    PROVE  Traced'
<1>1. /\ pending \in Seq(Fn) /\ stack = <<>> /\ h \in Handle /\ <<>> \in Seq(Frame)
      /\ <<>> \in Seq(TidyFrame) /\ <<>> \in Seq(LastFrame)
      /\ PlacedIn(pending, <<>>, lookups, sends, settled, issued) /\ Matched
      /\ h' = bare_dgram__on_close(h) /\ UNCHANGED <<lookups, issued, settled>>
      /\ "closed" \in FlushKinds
  BY EmptySeq DEF Inductive, TypeOK, Traced, Placed, onclose, Idle, FlushKinds
<1>2. h'.queue = h.queue /\ h'.exiting = h.exiting
  BY <1>1 DEF bare_dgram__on_close, Handle
<1>3. CASE UNCHANGED <<state, pending, sends, stack>>
  BY <1>1, <1>2, <1>3, StillTraced
<1>4. CASE /\ ~(h.exiting \/ h'.loop = "aborted")
           /\ sends' = {} /\ pending' = <<>>
           /\ stack' = Push("closed", pending, <<>>)
  <2>1. ~Revived(h)
    BY <1>1, <1>4 DEF bare_dgram__on_close, Handle
  <2>2. h.queue = <<>>
    BY <2>1 DEF onclose, CanClose
  <2>3. sends = {}
    BY <1>1, <1>4, <2>2 DEF Matched, Elements
  <2>4. PlacedIn(pending', stack', lookups, sends', settled, issued)
    BY <1>1, <1>4, <2>3, QueueToFlush
  <2>5. stack' \in Seq(TidyFrame) /\ stack' \in Seq(LastFrame)
    BY <1>1, <1>4, FramesStay, FrameKinds
  <2>6. Matched'
    BY <1>1, <1>2, <1>4, <2>3, MatchedStays
  <2> QED BY <1>1, <1>4, <2>4, <2>5, <2>6 DEF Traced, Placed, LastFlush
<1> QED BY <1>3, <1>4 DEF onclose

\* After a teardown nobody looks at the queue.
LEMMA OnTeardownTraced ==
    ASSUME Inductive, Traced, onteardown
    PROVE  Traced'
<1>1. h \in Handle /\ h' = bare_dgram__on_teardown(h)
  BY DEF Inductive, TypeOK, onteardown
<1>2. h'.exiting
  BY <1>1 DEF bare_dgram__on_teardown, uv_close, Handle
<1> QED BY <1>2 DEF Traced, Placed, Matched, LastFlush, onteardown

-----------------------------------------------------------------------------

\* A new socket has no request.
LEMMA InitTraced == Init => Traced
<1> SUFFICES ASSUME Init PROVE Traced
  OBVIOUS
<1>1. /\ pending = <<>> /\ stack = <<>> /\ lookups = {} /\ sends = {} /\ settled = {}
      /\ issued = {} /\ state = {} /\ h.queue = <<>>
  BY DEF Init, bare_dgram_init
<1>2. Placed
  BY <1>1, NoFns, NoFrames DEF Placed, PlacedIn, AtMostOne, Somewhere
<1>3. Matched
  BY <1>1 DEF Matched, Elements, Distinct
<1>4. stack \in Seq(TidyFrame)
  BY <1>1, EmptySeq
<1> QED BY <1>1, <1>2, <1>3, <1>4 DEF Traced, LastFlush

\* Every step moves a request from one place to the next.
LEMMA StepTraces == Inductive /\ Traced /\ [Next]_vars => Traced'
<1> SUFFICES ASSUME Inductive, Traced, [Next]_vars PROVE Traced'
  OBVIOUS
<1>1. CASE UserCall
  BY <1>1, BindTraced, ConnectTraced, SendTraced, ResumeTraced, OtherCallsTraced, IpcAcceptTraced
     DEF UserCall
<1>2. CASE flushNext \/ flushError \/ flushDone \/ Return \/ Throw
  BY <1>2, FlushNextTraced, FlushErrorTraced, FrameGoesTraced
<1>3. CASE \/ runMicrotask \/ runBindError \/ userTurn
           \/ \E err \in BOOLEAN : onmessage(err)
  BY <1>3, EventsTraced, BindErrorTraced
<1>4. CASE \/ \E ok \in BOOLEAN : lookupBind(ok) \/ lookupConnect(ok)
           \/ \E r \in Req, ok \in BOOLEAN : lookupSend(r, ok)
  BY <1>4, LookupBindTraced, LookupConnectTraced, LookupSendTraced
<1>5. CASE (\E err \in BOOLEAN : onsend(err)) \/ onclose \/ onteardown
  BY <1>5, OnSendTraced, OnCloseTraced, OnTeardownTraced
<1>6. CASE UNCHANGED vars
  BY <1>6, StillTraced DEF vars
<1> QED BY <1>1, <1>2, <1>3, <1>4, <1>5, <1>6 DEF Next

\* The requests are traced in every reachable state.
LEMMA TracedInvariant == Spec => []Traced
BY InitTraced, StepTraces, InductiveInvariant, PTL DEF Spec

-----------------------------------------------------------------------------
(* The properties *)

\* Places lists where a request is.
LEMMA PlacesOf ==
    ASSUME NEW r
    PROVE  /\ \A x \in Places(r) :
                 \/ \E i \in DOMAIN pending : pending[i] = r /\ x = <<"pending", 0, i>>
                 \/ \E k \in DOMAIN stack : \E i \in DOMAIN stack[k].fns :
                       stack[k].fns[i] = r /\ x = <<"flush", k, i>>
                 \/ r \in lookups /\ x = <<"lookup", 0, 0>>
                 \/ r \in sends /\ x = <<"sends", 0, 0>>
                 \/ r \in settled /\ x = <<"settled", 0, 0>>
           /\ Somewhere(pending, stack, lookups, sends, settled, r) => Places(r) # {}
<1> DEFINE Queued == {<<"pending", 0, i>> : i \in {j \in DOMAIN pending : pending[j] = r}}
           FlushedIn(k) == {<<"flush", k, i>> : i \in {j \in DOMAIN stack[k].fns : stack[k].fns[j] = r}}
           Flushed == UNION {FlushedIn(k) : k \in DOMAIN stack}
           Resolved == IF r \in lookups THEN {<<"lookup", 0, 0>>} ELSE {}
           Sent == IF r \in sends THEN {<<"sends", 0, 0>>} ELSE {}
           Told == IF r \in settled THEN {<<"settled", 0, 0>>} ELSE {}
<1>1. Places(r) = Queued \cup Flushed \cup Resolved \cup Sent \cup Told
  BY DEF Places
<1>2. \A x \in Queued : \E i \in DOMAIN pending : pending[i] = r /\ x = <<"pending", 0, i>>
  OBVIOUS
<1>3. \A x \in Flushed : \E k \in DOMAIN stack : \E i \in DOMAIN stack[k].fns :
         stack[k].fns[i] = r /\ x = <<"flush", k, i>>
  OBVIOUS
<1>4. /\ \A x \in Resolved : r \in lookups /\ x = <<"lookup", 0, 0>>
      /\ \A x \in Sent : r \in sends /\ x = <<"sends", 0, 0>>
      /\ \A x \in Told : r \in settled /\ x = <<"settled", 0, 0>>
  OBVIOUS
<1>5. InFns(pending, r) => Queued # {}
  BY DEF InFns
<1>6. InStack(stack, r) => Flushed # {}
  <2>1. ASSUME NEW k \in DOMAIN stack, NEW i \in DOMAIN stack[k].fns, stack[k].fns[i] = r
        PROVE  Flushed # {}
    <3>1. <<"flush", k, i>> \in FlushedIn(k)
      BY <2>1
    <3>2. FlushedIn(k) \in {FlushedIn(l) : l \in DOMAIN stack}
      OBVIOUS
    <3> HIDE DEF FlushedIn
    <3> QED BY <3>1, <3>2
  <2> QED BY <2>1 DEF InStack, InFns
<1>7. /\ r \in lookups => Resolved # {}
      /\ r \in sends => Sent # {}
      /\ r \in settled => Told # {}
  OBVIOUS
<1> HIDE DEF Queued, Flushed, Resolved, Sent, Told
<1>8. \A x \in Places(r) : x \in Queued \/ x \in Flushed \/ x \in Resolved \/ x \in Sent \/ x \in Told
  BY <1>1
<1>9. Queued # {} \/ Flushed # {} \/ Resolved # {} \/ Sent # {} \/ Told # {} => Places(r) # {}
  BY <1>1
<1>10. Somewhere(pending, stack, lookups, sends, settled, r) => Places(r) # {}
  BY <1>5, <1>6, <1>7, <1>9 DEF Somewhere
<1> QED BY <1>2, <1>3, <1>4, <1>8, <1>10

\* The outcome of a send is reported at most once: in no interleaving of the
\* callbacks is its request in two of the queues of index.js, or still in one after
\* it was reported.
THEOREM ReportedOnce == Spec => []SettledOnce
<1>1. ASSUME Traced, NEW r \in Req
      PROVE  Cardinality(Places(r)) <= 1
  <2>1. AtMostOne(pending, stack, lookups, sends, settled, r)
    BY <1>1 DEF Traced, Placed, PlacedIn
  <2>2. ASSUME NEW x \in Places(r), NEW y \in Places(r)
        PROVE  x = y
    <3> DEFINE Queued(z) == \E i \in DOMAIN pending : pending[i] = r /\ z = <<"pending", 0, i>>
               Flushed(z) == \E k \in DOMAIN stack : \E i \in DOMAIN stack[k].fns :
                                stack[k].fns[i] = r /\ z = <<"flush", k, i>>
    <3>1. \A z \in {x, y} :
             \/ Queued(z)
             \/ Flushed(z)
             \/ r \in lookups /\ z = <<"lookup", 0, 0>>
             \/ r \in sends /\ z = <<"sends", 0, 0>>
             \/ r \in settled /\ z = <<"settled", 0, 0>>
      BY PlacesOf
    <3>2. \A z : Queued(z) => InFns(pending, r)
      BY DEF InFns
    <3>3. \A z : Flushed(z) => InStack(stack, r)
      BY DEF InStack, InFns
    <3>4. Queued(x) /\ Queued(y) => x = y
      BY <2>1 DEF AtMostOne, OnceFns
    <3>5. ASSUME Flushed(x), Flushed(y)
          PROVE  x = y
      <4>1. PICK k \in DOMAIN stack : \E i \in DOMAIN stack[k].fns :
               stack[k].fns[i] = r /\ x = <<"flush", k, i>>
        BY <3>5
      <4>2. PICK l \in DOMAIN stack : \E i \in DOMAIN stack[l].fns :
               stack[l].fns[i] = r /\ y = <<"flush", l, i>>
        BY <3>5
      <4>3. InFns(stack[k].fns, r) /\ InFns(stack[l].fns, r)
        BY <4>1, <4>2 DEF InFns
      <4>4. k = l /\ OnceFns(stack[k].fns, r)
        BY <2>1, <4>3 DEF AtMostOne, OnceStack
      <4> QED BY <4>1, <4>2, <4>4 DEF OnceFns
    <3> HIDE DEF Queued, Flushed
    <3> QED BY <2>1, <3>1, <3>2, <3>3, <3>4, <3>5 DEF AtMostOne
  <2>3. Places(r) = {} \/ \E x : Places(r) = {x}
    BY <2>2
  <2>4. Cardinality(Places(r)) = 0 \/ Cardinality(Places(r)) = 1
    BY <2>3, FS_EmptySet, FS_Singleton
  <2> QED BY <2>4
<1>2. Traced => SettledOnce
  BY <1>1 DEF SettledOnce
<1> QED BY <1>2, TracedInvariant, PTL

\* A send that was accepted is never forgotten between the queue of a bind, its
\* flush, the lookup and the handle, provided that nothing throws in the middle of
\* what index.js does.
THEOREM NeverLost ==
    ASSUME Throws = FALSE, LookupThrows = FALSE, OsFaults = FALSE
    PROVE  Spec => []NoRequestLost
<1>1. ASSUME TypeOK, Traced, NEW r \in issued
      PROVE  Places(r) # {}
  <2>1. Reliable /\ r \in Req
    BY <1>1 DEF Reliable, TypeOK
  <2>2. Somewhere(pending, stack, lookups, sends, settled, r)
    BY <1>1, <2>1 DEF Traced, Placed, PlacedIn
  <2> QED BY <2>2, PlacesOf
<1>2. TypeOK /\ Traced => NoRequestLost
  BY <1>1 DEF NoRequestLost
<1> QED BY <1>2, TypeCorrect, TracedInvariant, PTL

\* _sends and the queue of libuv hold the same requests, so no completion is taken
\* for that of another request and the close callback drops none.
THEOREM SendsKnown == Spec => []SendsMatchQueue
<1>1. ASSUME TypeOK, Traced, ~h.exiting
      PROVE  sends = {h.queue[i] : i \in DOMAIN h.queue} /\ Cardinality(sends) = Len(h.queue)
  <2>1. sends = Elements(h.queue) /\ Distinct(h.queue)
    BY <1>1 DEF Traced, Matched
  <2>2. h.queue \in Seq(Req) /\ Len(h.queue) \in Nat /\ DOMAIN h.queue = 1..Len(h.queue)
    BY <1>1 DEF TypeOK, Handle
  <2>3. h.queue = [i \in 1..Len(h.queue) |-> h.queue[i]]
    BY <2>2
  <2>4. h.queue \in [1..Len(h.queue) -> sends]
    BY <2>1, <2>2, <2>3 DEF Elements
  <2>5. h.queue \in Bijection(1..Len(h.queue), sends)
    <3>1. h.queue \in Injection(1..Len(h.queue), sends)
      BY <2>1, <2>2, <2>4 DEF Injection, IsInjective, Distinct
    <3>2. h.queue \in Surjection(1..Len(h.queue), sends)
      BY <2>1, <2>2, <2>4 DEF Surjection, Elements
    <3> QED BY <3>1, <3>2 DEF Bijection
  <2>6. Cardinality(sends) = Len(h.queue)
    BY <2>2, <2>5, FS_CountingElements DEF ExistsBijection
  <2> QED BY <2>1, <2>6 DEF Elements
<1>2. TypeOK /\ Traced => SendsMatchQueue
  BY <1>1 DEF SendsMatchQueue
<1> QED BY <1>2, TypeCorrect, TracedInvariant, PTL

\* When 'close' is emitted only a send that waits for its lookup is still open, and
\* the native handle is gone, under the same provision.
THEOREM ClosedTold ==
    ASSUME Throws = FALSE, LookupThrows = FALSE, OsFaults = FALSE
    PROVE  Spec => []CloseSettles
<1>1. ASSUME Inductive, Traced, HasClosed
      PROVE  Unsettled \subseteq lookups /\ h.loop = "closed"
  <2>1. /\ "CLOSED" \in state /\ \A k \in DOMAIN stack : stack[k].kind # "closed"
        /\ h.loop = "closed"
    BY <1>1 DEF HasClosed, Inductive, Lifecycle
  <2>2. pending = <<>> /\ sends = {} /\ stack \in Seq(LastFrame)
    BY <1>1, <2>1 DEF Traced, LastFlush
  <2>3. ASSUME NEW r \in Unsettled
        PROVE  r \in lookups
    <3>1. r \in Req /\ r \in issued /\ r \notin settled /\ Reliable
      BY <1>1, <2>3 DEF Unsettled, Inductive, TypeOK, Reliable
    <3>2. Somewhere(pending, stack, lookups, sends, settled, r)
      BY <1>1, <3>1 DEF Traced, Placed, PlacedIn
    <3>3. ~InFns(pending, r)
      BY <2>2, NoFns
    <3>4. ASSUME NEW k \in DOMAIN stack
          PROVE  ~InFns(stack[k].fns, r)
      <4>1. stack[k] \in LastFrame
        BY <2>2, ElementOfSeq, LenProperties
      <4>2. stack[k].fns = <<>>
        BY <2>1, <4>1 DEF LastFrame
      <4> QED BY <4>2, NoFns
    <3> QED BY <2>2, <3>1, <3>2, <3>3, <3>4 DEF Somewhere, InStack
  <2> QED BY <2>1, <2>3
<1>2. Inductive /\ Traced => CloseSettles
  BY <1>1 DEF CloseSettles
<1> QED BY <1>2, InductiveInvariant, TracedInvariant, PTL

-----------------------------------------------------------------------------
(* After close() *)

\* While the socket closes no callback hands a datagram to the handle.
LEMMA FlushKeepsQueue ==
    ASSUME Inductive, Closing(state), flushNext
    PROVE  h'.queue = h.queue
<1> DEFINE fn == Head(Head(stack).fns)
           rest == Push("bound", Tail(Head(stack).fns), Tail(stack))
<1>1. h \in Handle /\ state \ {"CONNECTING"} = state
  BY DEF Inductive, TypeOK, StateBits
<1>2. CASE resolveSend(fn, rest)
  BY <1>2 DEF resolveSend, sendResolved
<1>3. CASE resolveConnect(state, rest)
  BY <1>1, <1>3 DEF resolveConnect, connectResolved
<1>4. CASE \E res \in resumed(h, state, paused) : h' = res.h
  BY <1>1, <1>4, ResumedKeeps
<1> QED BY <1>2, <1>3, <1>4 DEF flushNext

\* The queue of the handle only grows while the socket is open and runs JavaScript.
LEMMA QueueGrows ==
    ASSUME Inductive, Next, h'.queue # h.queue
    PROVE  \/ ~Closing(state) /\ (stack # <<>> \/ (Idle /\ ~h.exiting))
           \/ h.queue # <<>> /\ h'.queue = Tail(h.queue)
<1>1. TypeOK /\ h \in Handle
  BY DEF Inductive, TypeOK
<1>2. CASE UserCall
  <2>1. stack # <<>>
    BY <1>2 DEF UserCall, InUserCode
  <2>2. CASE bind \/ connect \/ \E r \in Req : send(r)
    BY <2>1, <2>2 DEF bind, connect, send
  <2>3. CASE resume
    BY <2>1, <2>3 DEF resume
  <2>4. CASE ipcAccept
    <3>1. PICK res \in bare_dgram_open(h) : onbind(res.h, state, paused, pending, stack)
      BY <2>4 DEF ipcAccept
    <3>2. res.h \in Handle /\ res.h.queue = h.queue
      BY <1>1, OpenResult, CallsKeepQueue DEF TypeOK, Result
    <3>3. h'.queue = res.h.queue
      BY <3>1, <3>2, ResumedKeeps DEF onbind
    <3> QED BY <3>2, <3>3
  <2>5. CASE disconnect \/ pause \/ setOption \/ ref \/ unref \/ close
    BY <1>1, <2>5, OtherCallsKeepQueue
  <2> QED BY <1>2, <2>2, <2>3, <2>4, <2>5 DEF UserCall
<1>3. CASE flushNext
  BY <1>3, FlushKeepsQueue DEF flushNext, InFlush
<1>4. CASE \/ flushError \/ flushDone \/ Return \/ Throw \/ userTurn
           \/ runMicrotask \/ runBindError
           \/ \E err \in BOOLEAN : onmessage(err)
  BY <1>4 DEF flushError, flushDone, Return, Throw, userTurn, runMicrotask, runBindError, onmessage
<1>5. CASE \/ \E ok \in BOOLEAN : lookupBind(ok) \/ lookupConnect(ok)
           \/ \E r \in Req, ok \in BOOLEAN : lookupSend(r, ok)
  <2>1. Closing(state) => Closing(state \ {"CONNECTING"})
    BY DEF Closing
  <2>2. Closing(state) => h' = h
    <3>1. CASE \E ok \in BOOLEAN : lookupBind(ok)
      BY <3>1 DEF lookupBind
    <3>2. CASE \E ok \in BOOLEAN : lookupConnect(ok)
      BY <2>1, <3>2 DEF lookupConnect, connectResolved
    <3>3. CASE \E r \in Req, ok \in BOOLEAN : lookupSend(r, ok)
      BY <3>3 DEF lookupSend, sendResolved
    <3> QED BY <1>5, <3>1, <3>2, <3>3
  <2> QED BY <1>5, <2>2 DEF lookupBind, lookupConnect, lookupSend
<1>6. CASE \E err \in BOOLEAN : onsend(err)
  BY <1>1, <1>6 DEF onsend, CanCompleteSend, bare_dgram__on_send, Handle
<1>7. CASE onclose \/ onteardown
  BY <1>1, <1>7, CallsKeepQueue DEF onclose, onteardown
<1> QED BY <1>2, <1>3, <1>4, <1>5, <1>6, <1>7 DEF Next

\* No datagram reaches the handle of a socket that was closed, however long ago it
\* was accepted.
THEOREM ClosedSendsNothing == Spec => NoSendAfterClose
<1>1. Inductive /\ [Next]_vars =>
         [Len(h'.queue) > Len(h.queue) => ~h.closing /\ h.loop = "active"]_vars
  <2> SUFFICES ASSUME Inductive, Next, Len(h'.queue) > Len(h.queue)
               PROVE  ~h.closing /\ h.loop = "active"
    OBVIOUS
  <2>1. h.queue \in Seq(Req)
    BY DEF Inductive, TypeOK, Handle
  <2>2. ~(h.queue # <<>> /\ h'.queue = Tail(h.queue)) /\ h'.queue # h.queue
    <3>1. Len(h.queue) \in Nat /\ (h.queue # <<>> => Len(Tail(h.queue)) = Len(h.queue) - 1)
      BY <2>1, LenProperties
    <3>2. Len(h'.queue) # Len(h.queue) /\ ~(Len(h'.queue) = Len(h.queue) - 1)
      BY <3>1
    <3> QED BY <3>1, <3>2
  <2>3. ~Closing(state) /\ (stack # <<>> \/ (Idle /\ ~h.exiting))
    BY <2>2, QueueGrows
  <2> QED BY <2>3, OpenIsActive DEF Inductive, Lifecycle
<1> QED BY <1>1, InductiveInvariant, PTL DEF Spec, NoSendAfterClose

-----------------------------------------------------------------------------
(* The function of connect is followed like a request.  In these lemmas     *)
(* nothing throws and nothing fails.                                        *)

\* It stays where it is when others are queued and when user code is called.
LEMMA ConnectStays ==
    ASSUME NEW p \in Seq(Fn), NEW s \in Seq(Frame), NEW l
    PROVE  /\ \A fn : InFns(Append(p, fn), "connect") <=> InFns(p, "connect") \/ fn = "connect"
           /\ \A kind \in UserKinds : InStack(Call(kind, s), "connect") <=> InStack(s, "connect")
           /\ \A kind \in FlushKinds :
                 HasConnect(p, s, l) => HasConnect(<<>>, Push(kind, p, s), l)
<1>1. PICK q : q = "connect"
  OBVIOUS
<1>2. \A fn : InFns(Append(p, fn), q) <=> InFns(p, q) \/ fn = q
  BY AppendFns
<1>3. \A kind \in UserKinds : InStack(Call(kind, s), q) <=> InStack(s, q)
  BY CallStack
<1>4. \A kind \in FlushKinds : InStack(Push(kind, p, s), q) <=> InFns(p, q) \/ InStack(s, q)
  BY PushStack
<1> QED BY <1>1, <1>2, <1>3, <1>4 DEF HasConnect

LEMMA CallKeepsConnect ==
    ASSUME NEW kind \in UserKinds, NEW s \in Seq(Frame)
    PROVE  InStack(Call(kind, s), "connect") <=> InStack(s, "connect")
<1>1. PICK q : q = "connect"
  OBVIOUS
<1>2. InStack(Call(kind, s), q) <=> InStack(s, q)
  BY CallStack
<1> QED BY <1>1, <1>2

\* It is taken for the flush at the end of a bind.
LEMMA OnBindOwns ==
    ASSUME Reliable, NEW hh \in Handle, NEW st, ~Closing(st), NEW pz, NEW pend \in Seq(Fn),
           NEW rest \in Seq(Frame), NEW l, onbind(hh, st, pz, pend, rest)
    PROVE  /\ HasConnect(pend, rest, l) => HasConnect(pending', stack', l)
           /\ "CONNECTING" \in state' => "CONNECTING" \in st
<1> DEFINE st1 == (st \cup {"BOUND"}) \ {"BINDING"}
<1>1. PICK res \in resumed(hh, st1, pz) :
        /\ state' = res.state
        /\ IF res.err THEN pending' = pend /\ stack' \in Unwound(rest)
           ELSE pending' = <<>> /\ stack' = Push("bound", pend, rest)
  BY DEF onbind, Reliable
<1>2. ~res.err /\ ("CONNECTING" \in res.state => "CONNECTING" \in st1)
  <2>1. res.err => OsFaults
    BY ResumedKeeps
  <2>2. res.state \in {st1, st1 \cup {"READING"}}
    BY DEF resumed
  <2> QED BY <2>1, <2>2 DEF Reliable
<1>3. pending' = <<>> /\ stack' = Push("bound", pend, rest) /\ "bound" \in FlushKinds
  BY <1>1, <1>2 DEF FlushKinds
<1> QED BY <1>1, <1>2, <1>3, ConnectStays

\* Or it stays queued if the bind fails.
LEMMA BindWithOwns ==
    ASSUME TypeOK, Reliable, NEW results \in {bare_dgram_bind(h), bare_dgram_open(h)},
           NEW st, ~Closing(st), NEW pz, NEW pend \in Seq(Fn), NEW rest \in Seq(Frame), NEW l,
           bindWith(results, st, pz, pend, rest)
    PROVE  /\ HasConnect(pend, rest, l) => HasConnect(pending', stack', l)
           /\ "CONNECTING" \in state' => "CONNECTING" \in st
<1>1. PICK res \in results :
        IF res.err THEN onbinderror(res.h, st, pend, rest)
                   ELSE onbind(res.h, st, pz, pend, rest)
  BY DEF bindWith
<1>2. res.h \in Handle
  BY BindResult, OpenResult DEF TypeOK, Result
<1>3. CASE res.err
  BY <1>1, <1>3 DEF onbinderror
<1>4. CASE ~res.err
  BY <1>1, <1>2, <1>4, OnBindOwns
<1> QED BY <1>3, <1>4

\* What is queued with it does not push it out.
LEMMA BindMaybeOwns ==
    ASSUME TypeOK, Reliable, NEW fn \in Fn, NEW st, ~Closing(st), NEW pz, bindMaybe(fn, st, pz),
           fn = "connect" \/ ("CONNECTING" \in st => HasConnect(pending, stack, lookups))
    PROVE  "CONNECTING" \in state' => HasConnect(pending', stack', lookups')
<1>1. /\ pending \in Seq(Fn) /\ stack \in Seq(Frame) /\ Append(pending, fn) \in Seq(Fn)
      /\ lookups' = lookups
  BY AppendProperties DEF bindMaybe, TypeOK
<1>2. "CONNECTING" \in st => HasConnect(Append(pending, fn), stack, lookups)
  BY <1>1, ConnectStays DEF HasConnect
<1>3. CASE state' = st /\ pending' = Append(pending, fn) /\ stack' = stack
  BY <1>1, <1>2, <1>3
<1>4. CASE bindWith(bare_dgram_bind(h), st \cup {"BINDING"}, pz, Append(pending, fn), stack)
  <2>1. PICK pend, st1 : pend = Append(pending, fn) /\ st1 = st \cup {"BINDING"}
    OBVIOUS
  <2>2. /\ HasConnect(pend, stack, lookups) => HasConnect(pending', stack', lookups)
        /\ "CONNECTING" \in state' => "CONNECTING" \in st1
    BY <1>1, <1>4, <2>1, OpenAdds, BindWithOwns
  <2> QED BY <1>1, <1>2, <2>1, <2>2
<1> QED BY <1>3, <1>4 DEF bindMaybe

\* A step that leaves CONNECTING and the function where they are.
LEMMA OwnerStays ==
    ASSUME ConnectOwned, "CONNECTING" \in state' => "CONNECTING" \in state,
           HasConnect(pending, stack, lookups) => HasConnect(pending', stack', lookups')
    PROVE  ConnectOwned'
BY DEF ConnectOwned, Reliable

\* Sending to an address leaves both alone.
LEMMA ResolveOwns ==
    ASSUME NEW r \in Req, NEW rest \in Seq(Frame), Reliable,
           \/ resolveSend(r, rest)
           \/ \E addressed \in BOOLEAN : handOver(r, addressed, rest)
           \/ \E ok \in BOOLEAN : sendResolved(r, ok, rest)
    PROVE  InStack(rest, "connect") => InStack(stack', "connect")
<1>1. stack' = rest \/ \E kind \in UserKinds : stack' = Call(kind, rest)
  BY DEF resolveSend, sendResolved, handOver, callback, onsenderror, UserKinds, Reliable
<1>2. CASE \E kind \in UserKinds : stack' = Call(kind, rest)
  BY <1>2, CallKeepsConnect
<1> QED BY <1>1, <1>2

\* connect() queues the function or asks for a lookup; the answer ends CONNECTING.
LEMMA ResolveConnectOwns ==
    ASSUME Reliable, NEW st, NEW rest,
           \/ resolveConnect(st, rest)
           \/ \E ok \in BOOLEAN : connectResolved(st, ok, rest)
    PROVE  "CONNECTING" \in state' => "connect" \in lookups'
BY DEF resolveConnect, connectResolved, Reliable

\* The calls of the program keep its owner.
LEMMA CallsOwn ==
    ASSUME Inductive, ConnectOwned, Reliable, UserCall
    PROVE  ConnectOwned'
<1>1. /\ TypeOK /\ pending \in Seq(Fn) /\ stack \in Seq(Frame)
      /\ "CONNECTING" \in state => HasConnect(pending, stack, lookups)
  BY DEF Inductive, TypeOK, ConnectOwned
<1>2. CASE bind
  <2>1. CASE /\ \/ bindWith(bare_dgram_open(h), state \cup {"BINDING"}, paused, pending, stack)
                \/ bindWith(bare_dgram_bind(h), state \cup {"BINDING"}, paused, pending, stack)
             /\ lookups' = lookups
    <3>1. PICK st : st = state \cup {"BINDING"}
      OBVIOUS
    <3>2. /\ HasConnect(pending, stack, lookups) => HasConnect(pending', stack', lookups)
          /\ "CONNECTING" \in state' => "CONNECTING" \in st
      <4>0. ~Closing(st)
        BY <1>2, <3>1, OpenAdds DEF bind
      <4>1. CASE bindWith(bare_dgram_open(h), st, paused, pending, stack)
        BY <1>1, <4>0, <4>1, BindWithOwns
      <4>2. CASE bindWith(bare_dgram_bind(h), st, paused, pending, stack)
        BY <1>1, <4>0, <4>2, BindWithOwns
      <4> QED BY <2>1, <3>1, <4>1, <4>2
    <3> QED BY <2>1, <3>1, <3>2, OwnerStays
  <2>2. CASE /\ lookups \subseteq lookups' /\ state' = state \cup {"BINDING"}
             /\ UNCHANGED <<pending, stack>>
    BY <2>2, OwnerStays DEF HasConnect
  <2> QED BY <1>2, <2>1, <2>2 DEF bind, onbinderror
<1>3. CASE "connect" \in Calls /\ connect
  <2>1. CASE resolveConnect(state \cup {"CONNECTING"}, stack)
    BY <2>1, ResolveConnectOwns DEF ConnectOwned, HasConnect
  <2>2. CASE bindMaybe("connect", state \cup {"CONNECTING"}, paused)
    <3>1. "connect" \in Fn /\ ~Closing(state \cup {"CONNECTING"})
      BY <1>3, OpenAdds DEF Fn, connect
    <3> QED BY <1>1, <2>2, <3>1, BindMaybeOwns DEF ConnectOwned
  <2> QED BY <1>3, <2>1, <2>2 DEF connect
<1>4. CASE \E r \in Req : send(r)
  <2>1. PICK r \in Req : send(r)
    BY <1>4
  <2>2. CASE bindMaybe(r, state, paused)
    <3>1. r \in Fn /\ ~Closing(state)
      BY <2>1 DEF Fn, send
    <3> QED BY <1>1, <2>2, <3>1, BindMaybeOwns DEF ConnectOwned
  <2>3. CASE handOver(r, FALSE, stack) /\ UNCHANGED <<state, pending, lookups, micro>>
    <3>1. InStack(stack, "connect") => InStack(stack', "connect")
      BY <1>1, <2>3, ResolveOwns
    <3> QED BY <2>3, <3>1, OwnerStays DEF HasConnect
  <2>4. CASE resolveSend(r, stack) /\ UNCHANGED <<state, pending, micro>>
    <3>1. InStack(stack, "connect") => InStack(stack', "connect")
      BY <1>1, <2>4, ResolveOwns
    <3>2. lookups \subseteq lookups'
      BY <2>4 DEF resolveSend
    <3> QED BY <2>4, <3>1, <3>2, OwnerStays DEF HasConnect
  <2> QED BY <2>1, <2>2, <2>3, <2>4 DEF send
<1>5. CASE "resume" \in Calls /\ resume
  <2>1. CASE ~Closing(state) /\ bindMaybe("resume", state, FALSE)
    <3>1. "resume" \in Fn
      BY <1>5 DEF Fn
    <3> QED BY <1>1, <2>1, <3>1, BindMaybeOwns DEF ConnectOwned
  <2>2. CASE /\ state' \in {state, state \cup {"READING"}}
             /\ UNCHANGED <<pending, stack, lookups>>
    BY <2>2, OwnerStays
  <2>3. CASE /\ \E res \in resumed(h, state, FALSE) : state' = res.state /\ h' = res.h
             /\ UNCHANGED <<pending, stack, lookups>>
    <3>1. state' \in {state, state \cup {"READING"}}
      BY <2>3 DEF resumed
    <3> QED BY <2>2, <2>3, <3>1
  <2>4. CASE UNCHANGED <<state, pending, stack, lookups>>
    BY <2>2, <2>4
  <2> QED BY <1>5, <2>1, <2>3, <2>4 DEF resume
<1>6. CASE disconnect \/ pause \/ setOption \/ ref \/ unref \/ close
  <2>1. /\ "CONNECTING" \in state' => "CONNECTING" \in state
        /\ UNCHANGED <<pending, stack, lookups>>
    BY <1>6 DEF disconnect, pause, setOption, ref, unref, close
  <2> QED BY <2>1, OwnerStays
<1>7. CASE ipcAccept
  <2>1. PICK res \in bare_dgram_open(h) : onbind(res.h, state, paused, pending, stack)
    BY <1>7 DEF ipcAccept
  <2>2. res.h \in Handle /\ lookups' = lookups
    BY <1>1, <1>7, OpenResult DEF ipcAccept, TypeOK, Result
  <2>3. CASE ~Closing(state)
    BY <1>1, <2>1, <2>2, <2>3, OnBindOwns, OwnerStays
  <2>4. CASE Closing(state)
    BY <2>1, <2>4 DEF onbind, resumed, Inductive, StateBits, ConnectOwned
  <2> QED BY <2>3, <2>4
<1> QED BY <1>2, <1>3, <1>4, <1>5, <1>6, <1>7 DEF UserCall

\* A flush takes it from its frame only to call it, which asks for the lookup or
\* gives up; other frames that go are empty.
LEMMA FlushOwns ==
    ASSUME Inductive, Traced, ConnectOwned, Reliable,
           flushNext \/ flushError \/ flushDone \/ Return \/ Throw
    PROVE  ConnectOwned'
<1>1. /\ TypeOK /\ pending \in Seq(Fn) /\ stack \in Seq(Frame) /\ stack # <<>>
      /\ "CONNECTING" \in state => HasConnect(pending, stack, lookups)
  BY DEF Inductive, TypeOK, ConnectOwned, flushNext, flushError, flushDone, Return, Throw,
     InUserCode, InFlush
<1>2. PICK q : q = "connect"
  OBVIOUS
<1>3. PICK kind, fns, rest : kind = Head(stack).kind /\ fns = Head(stack).fns /\ rest = Tail(stack)
  OBVIOUS
<1>4. /\ kind \in UserKinds \cup FlushKinds /\ fns \in Seq(Fn) /\ rest \in Seq(Frame)
      /\ fns # <<>> => Tail(fns) \in Seq(Fn) /\ Push(kind, Tail(fns), rest) \in Seq(Frame)
  BY <1>1, <1>3, TopFrame, HeadTailProperties
<1>5. InStack(stack, q) <=> InFns(fns, q) \/ InStack(rest, q)
  <2>1. PICK s : s = Push(kind, fns, rest)
    OBVIOUS
  <2>2. InStack(s, q) <=> InFns(fns, q) \/ InStack(rest, q)
    BY <1>4, <2>1, PushStack
  <2>3. s = stack
    BY <1>1, <1>3, <2>1, TopStack
  <2> QED BY <2>2, <2>3
<1>6. ASSUME fns # <<>>, Head(fns) # q
      PROVE  InStack(stack, q) => InStack(Push(kind, Tail(fns), rest), q)
  <2>1. InFns(fns, q) => InFns(Tail(fns), q)
    BY <1>4, <1>6, TailFns
  <2>2. PICK s : s = Push(kind, Tail(fns), rest)
    OBVIOUS
  <2>3. InStack(s, q) <=> InFns(Tail(fns), q) \/ InStack(rest, q)
    BY <1>4, <1>6, <2>2, PushStack
  <2> QED BY <1>5, <2>1, <2>2, <2>3
<1>7. CASE flushNext
  <2>1. PICK fn, next : fn = Head(fns) /\ next = Push(kind, Tail(fns), rest)
    OBVIOUS
  <2>2. fns # <<>> /\ kind = "bound" /\ next \in Seq(Frame) /\ pending' = pending
    BY <1>3, <1>4, <1>7, <2>1 DEF flushNext, InFlush
  <2>3. CASE fn \in Req /\ resolveSend(fn, next) /\ state' = state
    <3>1. fn # q
      BY <1>2, <2>3, DgramSocketAssumption
    <3>2. InStack(stack, q) => InStack(next, q)
      BY <1>6, <2>1, <2>2, <3>1
    <3>3. InStack(next, "connect") => InStack(stack', "connect")
      BY <2>2, <2>3, ResolveOwns
    <3>4. lookups \subseteq lookups'
      BY <2>3 DEF resolveSend
    <3> QED BY <1>2, <2>2, <2>3, <3>2, <3>3, <3>4, OwnerStays DEF HasConnect
  <2>4. CASE resolveConnect(state, next)
    BY <2>4, ResolveConnectOwns DEF ConnectOwned, HasConnect
  <2>5. CASE /\ fn = "resume"
             /\ \E res \in resumed(h, state, paused) :
                   /\ state' = res.state /\ h' = res.h
                   /\ IF res.err THEN stack' \in Unwound(next) ELSE stack' = next
             /\ lookups' = lookups
    <3>1. PICK res \in resumed(h, state, paused) :
            /\ state' = res.state /\ h' = res.h
            /\ IF res.err THEN stack' \in Unwound(next) ELSE stack' = next
      BY <2>5
    <3>2. ~res.err
      BY <1>1, ResumedKeeps DEF Reliable, TypeOK
    <3>3. res.state \in {state, state \cup {"READING"}}
      BY DEF resumed
    <3>4. InStack(stack, q) => InStack(next, q)
      BY <1>2, <1>6, <2>1, <2>2, <2>5
    <3> QED BY <1>2, <2>2, <2>5, <3>1, <3>2, <3>3, <3>4, OwnerStays DEF HasConnect
  <2> QED BY <1>3, <1>7, <2>1, <2>2, <2>3, <2>4, <2>5 DEF flushNext
<1>8. CASE flushError
  <2>1. PICK fn, next : fn = Head(fns) /\ next = Push(kind, Tail(fns), rest)
    OBVIOUS
  <2>2. fns # <<>> /\ next \in Seq(Frame) /\ UNCHANGED <<pending, lookups>>
    BY <1>3, <1>4, <1>8, <2>1 DEF flushError
  <2>3. stack' = next \/ stack' = Call("callback", next)
    BY <1>3, <1>8, <2>1 DEF flushError, callback
  <2>4. CASE fn = "connect"
    <3>1. state' = state \ {"CONNECTING"}
      BY <1>3, <1>8, <2>1, <2>4 DEF flushError
    <3> QED BY <3>1 DEF ConnectOwned
  <2>5. CASE fn # "connect"
    <3>1. InStack(stack, q) => InStack(next, q)
      BY <1>2, <1>6, <2>1, <2>2, <2>5
    <3>2. InStack(next, "connect") => InStack(stack', "connect")
      BY <2>2, <2>3, CallKeepsConnect DEF UserKinds
    <3>3. state' = state
      BY <1>3, <1>8, <2>1, <2>5 DEF flushError
    <3> QED BY <1>2, <2>2, <3>1, <3>2, <3>3, OwnerStays DEF HasConnect
  <2> QED BY <2>4, <2>5
<1>9. CASE flushDone \/ Return
  <2>1. fns = <<>>
    <3>1. CASE flushDone
      BY <1>3, <3>1 DEF flushDone
    <3>2. CASE Return
      <4>1. Head(stack) \in TidyFrame /\ kind \in UserKinds
        BY <1>1, <1>3, <3>2, FramesStay, FrameKinds DEF Return, InUserCode, Traced
      <4> QED BY <1>3, <4>1 DEF TidyFrame
    <3> QED BY <1>9, <3>1, <3>2
  <2>2. InStack(stack, q) => InStack(rest, q)
    BY <1>5, <2>1, NoFns
  <2>3. stack' = rest \/ \E user \in {"error", "close"} : stack' = Call(user, rest)
    BY <1>3, <1>9 DEF flushDone, Return
  <2>4. InStack(rest, "connect") => InStack(stack', "connect")
    BY <1>4, <2>3, CallKeepsConnect DEF UserKinds
  <2>5. UNCHANGED <<state, pending, lookups>>
    BY <1>9 DEF flushDone, Return
  <2> QED BY <1>2, <2>2, <2>4, <2>5, OwnerStays DEF HasConnect
<1>10. ~Throw
  BY DEF Throw, Reliable
<1> QED BY <1>7, <1>8, <1>9, <1>10

\* The microtasks and the event loop keep its owner, or end CONNECTING.
LEMMA LoopOwns ==
    ASSUME Inductive, ConnectOwned, Reliable, Next, stack = <<>>
    PROVE  ConnectOwned'
<1>1. /\ TypeOK /\ pending \in Seq(Fn) /\ stack \in Seq(Frame) /\ <<>> \in Seq(Frame)
      /\ "CONNECTING" \in state => HasConnect(pending, stack, lookups)
      /\ ~InStack(stack, "connect")
  BY EmptySeq, NoFrames DEF Inductive, TypeOK, ConnectOwned
<1>2. CASE \/ runMicrotask \/ userTurn \/ onteardown
           \/ \E err \in BOOLEAN : onmessage(err) \/ onsend(err)
  <2>1. UNCHANGED <<state, pending, lookups>>
    BY <1>2 DEF runMicrotask, userTurn, onteardown, onmessage, onsend
  <2> QED BY <1>1, <2>1, OwnerStays DEF HasConnect
<1>3. CASE runBindError \/ onclose
  <2>1. /\ "CONNECTING" \in state' => "CONNECTING" \in state
        /\ lookups' = lookups
        /\ \/ UNCHANGED <<pending, stack>>
           \/ \E kind \in FlushKinds : pending' = <<>> /\ stack' = Push(kind, pending, <<>>)
    BY <1>3 DEF runBindError, onclose, FlushKinds
  <2>2. HasConnect(pending, <<>>, lookups) => HasConnect(pending', stack', lookups)
    <3>1. CASE \E kind \in FlushKinds : pending' = <<>> /\ stack' = Push(kind, pending, <<>>)
      <4>1. PICK kind \in FlushKinds : pending' = <<>> /\ stack' = Push(kind, pending, <<>>)
        BY <3>1
      <4>2. PICK p, s, l : p = pending /\ s = <<>> /\ l = lookups
        OBVIOUS
      <4>3. HasConnect(p, s, l) => HasConnect(<<>>, Push(kind, p, s), l)
        BY <1>1, <4>2, ConnectStays
      <4> QED BY <2>1, <4>1, <4>2, <4>3
    <3> QED BY <2>1, <3>1
  <2> QED BY <1>1, <2>1, <2>2, OwnerStays
<1>4. CASE \E ok \in BOOLEAN : lookupBind(ok)
  <2>1. lookups' = lookups \ {"bind"}
    BY <1>4 DEF lookupBind
  <2>2. CASE ~Closing(state) /\ bindWith(bare_dgram_bind(h), state, paused, pending, <<>>)
    <3>1. /\ HasConnect(pending, <<>>, lookups) => HasConnect(pending', stack', lookups)
          /\ "CONNECTING" \in state' => "CONNECTING" \in state
      BY <1>1, <2>2, BindWithOwns
    <3> QED BY <1>1, <2>1, <3>1, OwnerStays DEF HasConnect
  <2>3. CASE UNCHANGED <<state, pending, stack>>
    BY <1>1, <2>1, <2>3, OwnerStays DEF HasConnect
  <2> QED BY <1>1, <1>4, <2>2, <2>3 DEF lookupBind, onbinderror
<1>5. CASE \E ok \in BOOLEAN : lookupConnect(ok)
  <2>1. "CONNECTING" \notin state'
    BY <1>5 DEF lookupConnect, connectResolved
  <2> QED BY <2>1 DEF ConnectOwned
<1>6. CASE \E r \in Req, ok \in BOOLEAN : lookupSend(r, ok)
  <2>1. UNCHANGED <<state, pending>> /\ ("connect" \in lookups => "connect" \in lookups')
    BY <1>6, DgramSocketAssumption DEF lookupSend
  <2> QED BY <1>1, <2>1, OwnerStays DEF HasConnect
<1>7. ~(UserCall \/ Return \/ Throw \/ flushNext \/ flushError \/ flushDone)
  BY DEF UserCall, InUserCode, Return, Throw, flushNext, flushError, InFlush, flushDone
<1> QED BY <1>2, <1>3, <1>4, <1>5, <1>6, <1>7 DEF Next

\* A socket never stays connecting with nothing left to call that would end it,
\* provided that nothing throws or fails in the middle of what index.js does.
THEOREM ConnectingEnds ==
    ASSUME Throws = FALSE, LookupThrows = FALSE, OsFaults = FALSE
    PROVE  Spec => []ConnectingHasOwner
<1>1. Init => ConnectOwned
  BY DEF Init, ConnectOwned
<1>2. Inductive /\ Traced /\ ConnectOwned /\ [Next]_vars => ConnectOwned'
  <2> SUFFICES ASSUME Inductive, Traced, ConnectOwned, [Next]_vars PROVE ConnectOwned'
    OBVIOUS
  <2>1. Reliable
    BY DEF Reliable
  <2>2. CASE UNCHANGED vars
    BY <2>2, OwnerStays DEF vars
  <2>3. CASE Next /\ stack # <<>>
    <3>1. UserCall \/ flushNext \/ flushError \/ flushDone \/ Return \/ Throw
      BY <2>3 DEF Next, Idle, runMicrotask, runBindError, userTurn, lookupBind, lookupConnect,
         lookupSend, onmessage, onsend, onclose, onteardown
    <3> QED BY <2>1, <3>1, CallsOwn, FlushOwns
  <2> QED BY <2>1, <2>2, <2>3, LoopOwns
<1>3. ConnectOwned => ConnectingHasOwner
  BY DEF ConnectOwned, Reliable, HasConnect, InFns, InStack, ConnectingHasOwner
<1> QED BY <1>1, <1>2, <1>3, InductiveInvariant, TracedInvariant, PTL DEF Spec

=============================================================================
