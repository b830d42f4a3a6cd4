------------------------------- MODULE Utils -------------------------------
(***************************************************************************)
(* parse_ipv4(), parse_integer() and reverse_byte_order() (src/utils.cpp,  *)
(* include/exios/utils.hpp), with which the sockets turn an address into   *)
(* the bytes of a sockaddr_in.                                             *)
(*                                                                         *)
(* An address is given by its fields, the strings between the dots that    *)
(* std::find() looks for, and a field by its characters: digits, or Junk   *)
(* for any other.  An integer of n bytes is the sequence of its bytes, the *)
(* least significant first, as the targets keep it in memory.              *)
(***************************************************************************)
EXTENDS Integers, Sequences, SequencesExt

CONSTANTS
    Junk,         \* a character that is neither a digit nor a dot
    Fields,       \* the fields that addresses are made of
    MaxFields     \* bound: the fields of an address

ASSUME FieldAssumption ==
    /\ Junk \notin 0 .. 9
    /\ Fields \subseteq Seq(0 .. 9 \cup {Junk})
    /\ MaxFields \in Nat \ {0}

VARIABLES
    address,      \* the fields of the argument
    saved,        \* the field that starts at `saved'
    octets,       \* what was written through out_p; the array has 4 elements
    num_octets,
    outcome       \* "parsing", "address", or the exception that was thrown

vars == <<address, saved, octets, num_octets, outcome>>

NumOctets == 4

Init == /\ address \in UNION {[1 .. n -> Fields] : n \in 1 .. MaxFields}
        /\ saved = 1
        /\ octets = <<>>
        /\ num_octets = 0
        /\ outcome = "parsing"

----------------------------------------------------------------------------
(* parse_integer<std::uint8_t>() succeeds; it keeps the low eight bits. *)
IsInteger(field) == field # <<>> /\ ~Contains(field, Junk)

parse_integer(field) ==
    FoldLeft(LAMBDA outval, c : (outval * 10 + c) % 256, 0, field)

(* The array element *out_p after a call that may have failed half-way. *)
WrittenOctet(field) ==
    LET junk == SelectInSeq(field, LAMBDA c : c = Junk)
    IN  parse_integer(IF junk = 0 THEN field ELSE SubSeq(field, 1, junk - 1))

(* The call of parse_integer(saved, p, *out_p++) *)
Octet ==
    /\ octets' = IF address[saved] = <<>> THEN octets
                 ELSE Append(octets, WrittenOctet(address[saved]))
    /\ UNCHANGED address

(* Seeded defect: the loop reads one octet too many. *)
AnotherOctetLate == saved < Len(address) /\ num_octets <= NumOctets

(* The loop condition: a dot follows and fewer than four octets are read. *)
AnotherOctet == saved < Len(address) /\ num_octets < NumOctets

ParseOctet ==
    /\ outcome = "parsing"
    /\ AnotherOctet
    /\ Octet
    /\ \/ /\ IsInteger(address[saved])
          /\ num_octets' = num_octets + 1
          /\ saved' = saved + 1
          /\ UNCHANGED outcome
       \/ /\ ~IsInteger(address[saved])
          /\ outcome' = "Invalid octet"
          /\ UNCHANGED <<saved, num_octets>>

TooManyOctets ==
    /\ outcome = "parsing"
    /\ ~AnotherOctet
    /\ saved < Len(address)
    /\ outcome' = "Too many octets"
    /\ UNCHANGED <<address, saved, octets, num_octets>>

(* Seeded defect: the number of octets is not tested. *)
LastOctetUntested ==
    /\ outcome = "parsing"
    /\ saved = Len(address)
    /\ Octet
    /\ num_octets' = num_octets + 1
    /\ outcome' = IF IsInteger(address[saved]) THEN "address"
                  ELSE "Invalid octet"
    /\ UNCHANGED saved

(* The octet after the last dot, and the final test *)
LastOctet ==
    /\ outcome = "parsing"
    /\ saved = Len(address)
    /\ Octet
    /\ \/ /\ IsInteger(address[saved])
          /\ num_octets' = num_octets + 1
          /\ outcome' = IF num_octets' = NumOctets THEN "address"
                        ELSE "Too few octets"
       \/ /\ ~IsInteger(address[saved])
          /\ outcome' = "Invalid octet"
          /\ UNCHANGED num_octets
    /\ UNCHANGED saved

Next == ParseOctet \/ TooManyOctets \/ LastOctet

Spec == Init /\ [][Next]_vars

----------------------------------------------------------------------------
(* Seeded defect: the first octet becomes the least significant byte. *)
ParsedUnshifted == SubSeq(octets, 1, NumOctets)

(* The value that parse_ipv4() returns: octets[0] << 24 | ... | octets[3] *)
Parsed == Reverse(SubSeq(octets, 1, NumOctets))

reverse_byte_order(val) == Reverse(val)

(* sin_addr.s_addr, as connect(), bind() and send_to() set it *)
SAddr == reverse_byte_order(Parsed)

----------------------------------------------------------------------------
(* Reference: the number a string of digits denotes, without a width. *)
Denotes(field) ==
    LET value[i \in 0 .. Len(field)] ==
            IF i = 0 THEN 0 ELSE 10 * value[i - 1] + field[i]
    IN  value[Len(field)]

(* Reference: four fields of digits, separated by dots. *)
DottedQuad(a) == Len(a) = NumOctets /\ \A i \in DOMAIN a : IsInteger(a[i])

(***************************************************************************)
(* parse_ipv4() returns a value for exactly the strings that are four      *)
(* fields of digits (whatever numbers they denote), and throws for all     *)
(* others.                                                                 *)
(***************************************************************************)
AcceptsDottedQuads ==
    outcome # "parsing" => ((outcome = "address") = DottedQuad(address))

(***************************************************************************)
(* For a dotted quad the bytes of s_addr in memory are the octets in the   *)
(* order they are written; a number that does not fit eight bits, such as  *)
(* 256, silently becomes its remainder.                                    *)
(***************************************************************************)
NetworkByteOrder ==
    outcome = "address" =>
        \A i \in 1 .. NumOctets : SAddr[i] = Denotes(address[i]) % 256

(***************************************************************************)
(* parse_ipv4() writes past its array of four octets only for five fields  *)
(* of which the first four are numbers and the fifth is not empty, and it  *)
(* never returns a value then.                                             *)
(***************************************************************************)
OverrunIsReported ==
    Len(octets) > NumOctets =>
        /\ Len(address) = NumOctets + 1
        /\ \A i \in 1 .. NumOctets : IsInteger(address[i])
        /\ address[NumOctets + 1] # <<>>
        /\ outcome \in {"Too few octets", "Invalid octet"}
============================================================================
