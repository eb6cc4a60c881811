---------------------------- MODULE MCAddressing ----------------------------
(***************************************************************************)
(* Texts for the runs of Addressing.                                       *)
(***************************************************************************)
EXTENDS Addressing

Text(text, length, bytes) == [text |-> text, chars |-> length, bytes |-> bytes]
Name == [kind |-> "name"]

\* Addresses of each family, one as long as they may be and one longer, by a
\* zone; a name that is short, one that is long, and one only long in bytes.
SomeTexts ==
    {Text(Dotted(<<1, 0>>, <<0>>, <<2, 5, 5>>, <<1>>), 1, 1),
     Text(Colons(Groups(6) \o <<IPv4>>), MaxLength, MaxLength),
     Text([Colons(<<Group, Empty, Group>>) EXCEPT !.zone = "letters"], MaxLength + 1, MaxLength + 1),
     Text(Name, 1, 1), Text(Name, 1, MaxLength + 1), Text(Name, MaxLength + 1, MaxLength + 1)}

=============================================================================
