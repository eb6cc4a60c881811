--------------------------- MODULE MCSendArguments ---------------------------
(***************************************************************************)
(* Constants of the runs of SendArguments.                                 *)
(***************************************************************************)
EXTENDS SendArguments

\* Inside the message, at its end, beyond it, negative, next to the wrap of a
\* word and beyond it.
AroundTheLimits == -2..(Size + 1) \cup (Word - 1)..(Word + 1)

AllPorts == {0, 1, MaxPort, MaxPort + 1}

\* A segment of any digits, up to four, between others; too few and too many.
DottedHosts ==
    [kind : {"dotted"},
     segments : {<<<<1>>, s, <<0>>, <<2, 5, 5>>>> : s \in UNION {[1..n -> Digits] : n \in 1..4}}
                    \cup {[i \in 1..n |-> <<1>>] : n \in 2..5}]

\* More fields than any address has, with and without a zone.
ColonHosts ==
    [kind : {"colons"}, fields : UNION {[1..n -> {Empty, Group, IPv4}] : n \in 2..10},
     zone : {"none", "empty", "letters"}]

SomeHosts == DottedHosts \cup ColonHosts

=============================================================================
