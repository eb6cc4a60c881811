------------------------------ MODULE IPAddress ------------------------------
(***************************************************************************)
(* isIP, which decides whether an address goes to the native handle as it  *)
(* is or to the lookup.                                                    *)
(*                                                                         *)
(* The two regular expressions have no repetition without a bound, so they *)
(* are finite sets: IPv4Segment of sequences of digits, IPv6Pattern of     *)
(* sequences of fields, the parts of a text between its colons.            *)
(*                                                                         *)
(* A text is dotted, segments of digits with dots between them; or it has  *)
(* colons, between which a field is empty, a group of hexadecimal digits   *)
(* or a dotted IPv4 address, and behind a percent sign a zone; or it is a  *)
(* name.                                                                   *)
(***************************************************************************)
EXTENDS Naturals, Sequences

-----------------------------------------------------------------------------
(* The patterns *)

Digits == 0..9

\* Mutant: the last alternative ends at 259.
IPv4SegmentLoose ==
    {<<d>> : d \in Digits} \cup {<<d, e>> : d \in 1..9, e \in Digits}
        \cup {<<1, d, e>> : d, e \in Digits} \cup {<<2, d, e>> : d \in 0..5, e \in Digits}

IPv4Segment ==
    {<<d>> : d \in Digits} \cup {<<d, e>> : d \in 1..9, e \in Digits}
        \cup {<<1, d, e>> : d, e \in Digits} \cup {<<2, d, e>> : d \in 0..4, e \in Digits}
        \cup {<<2, 5, e>> : e \in 0..5}

Empty == "empty"
Group == "group"
IPv4 == "ipv4"

Groups(n) == [i \in 1..n |-> Group]

\* Mutant: the longest texts of each alternative have a group too many.
AfterLong(k) ==
    {<<Empty>> \o Groups(j) : j \in 1..(8 - k)}
        \cup {<<Empty>> \o Groups(j) \o <<IPv4>> : j \in {n \in 0..5 : n + k <= 5}}
        \cup {<<Empty, Empty>>}

\* What may follow k groups, where it begins with the second of two colons.
After(k) ==
    {<<Empty>> \o Groups(j) : j \in 1..(7 - k)}
        \cup {<<Empty>> \o Groups(j) \o <<IPv4>> : j \in {n \in 0..5 : n + k <= 5}}
        \cup {<<Empty, Empty>>}

\* The alternatives of the pattern, from seven groups to none.
IPv6Pattern ==
    {Groups(8), Groups(6) \o <<IPv4>>}
        \cup (UNION {{Groups(k) \o rest : rest \in After(k)} : k \in 1..7})
        \cup {<<Empty>> \o rest : rest \in After(0)}

v4Str(segments) == Len(segments) = 4 /\ \A i \in 1..4 : segments[i] \in IPv4Segment

isIPv4(t) == t.kind = "dotted" /\ v4Str(t.segments)
isIPv6(t) == t.kind = "colons" /\ t.fields \in IPv6Pattern /\ t.zone # "empty"

isIP(t) == CASE isIPv4(t) -> 4 [] isIPv6(t) -> 6 [] OTHER -> 0

-----------------------------------------------------------------------------
(* The reference: RFC 4291, section 2.2 *)

\* The digits of a number below 1000, without zeros before them.
Decimal(n) ==
    IF n < 10 THEN <<n>>
    ELSE IF n < 100 THEN <<n \div 10, n % 10>>
    ELSE <<n \div 100, (n \div 10) % 10, n % 10>>

\* Eight groups, the last two of which may be an IPv4 address.
Whole == {Groups(8), Groups(6) \o <<IPv4>>}

\* One side of "::": nothing there is an empty field.
Side(fields) == IF fields = <<>> THEN <<Empty>> ELSE fields

\* One run of groups, of one or more, is left out and "::" stands for it.
LeftOut(w, i, j) == Side(SubSeq(w, 1, i)) \o <<Empty>> \o Side(SubSeq(w, j, Len(w)))

Compressed ==
    UNION {{LeftOut(w, ij[1], ij[2]) :
                ij \in {p \in (0..8) \X (2..9) : p[1] + 2 <= p[2] /\ p[2] <= Len(w) + 1}} :
           w \in Whole}

\* What an address is, in place of the two patterns.
IsDotted(segments) ==
    /\ Len(segments) = 4
    /\ \A i \in 1..4 : segments[i] \in {Decimal(n) : n \in 0..255}

IsColons(fields, zone) == fields \in Whole \cup Compressed /\ zone # "empty"

=============================================================================
