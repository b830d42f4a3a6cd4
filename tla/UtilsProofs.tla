---------------------------- MODULE UtilsProofs -----------------------------
(***************************************************************************)
(* Proofs about parse_ipv4(), for addresses of any fields.                 *)
(***************************************************************************)
EXTENDS Utils, DataLemmas

(* The fields that parse_integer() accepts *)
Numbers == {f \in Fields : IsInteger(f)}

(* What may be written to an element of the array *)
Octets == {WrittenOctet(f) : f \in Fields}

(* The fields before `saved' are numbers, and every octet that was written
   comes from the field in its place. *)
ParsedSoFar ==
    /\ address \in Seq(Fields) /\ num_octets \in Nat
    /\ saved \in 1 .. Len(address) /\ saved <= NumOctets + 1
    /\ \A i \in 1 .. saved - 1 : address[i] \in Numbers
    /\ octets \in Seq(Octets) /\ Len(octets) <= Len(address)
    /\ \A i \in 1 .. Len(octets) : octets[i] = WrittenOctet(address[i])

(* How far the function is when it returns or throws *)
HowItEnds ==
    /\ outcome = "parsing" => /\ num_octets = saved - 1
                              /\ Len(octets) = saved - 1
    /\ outcome = "address" => /\ Len(address) = NumOctets
                              /\ Len(octets) = NumOctets
                              /\ \A i \in 1 .. NumOctets :
                                    address[i] \in Numbers
    /\ outcome = "Too few octets" => /\ saved = Len(address)
                                     /\ Len(octets) = saved
                                     /\ saved # NumOctets
                                     /\ address[saved] \in Numbers
    /\ outcome = "Too many octets" => /\ Len(address) > NumOctets + 1
                                      /\ Len(octets) = NumOctets
    /\ outcome = "Invalid octet" =>
          /\ address[saved] \notin Numbers
          /\ saved <= NumOctets \/ saved = Len(address)
          /\ \/ Len(octets) = saved - 1
             \/ Len(octets) = saved /\ address[saved] # <<>>
    /\ outcome \in {"parsing", "address", "Too few octets",
                    "Too many octets", "Invalid octet"}

ParseInv == ParsedSoFar /\ HowItEnds

(* The effect of one call of parse_integer() on the array *)
LEMMA OctetEffect ==
    ASSUME ParsedSoFar, Octet, Len(octets) = saved - 1
    PROVE  /\ octets' \in Seq(Octets) /\ address' = address
           /\ \A i \in 1 .. Len(octets') :
                 octets'[i] = WrittenOctet(address[i])
           /\ address[saved] = <<>> => Len(octets') = saved - 1
           /\ address[saved] # <<>> => Len(octets') = saved
<1>1. /\ address \in Seq(Fields) /\ saved \in 1 .. Len(address)
      /\ Len(address) \in Nat /\ octets \in Seq(Octets)
      /\ Len(octets) \in Nat /\ address[saved] \in Fields
  BY ElementOfSeq, LenProperties DEF ParsedSoFar
<1>2. CASE address[saved] = <<>>
  BY <1>1, <1>2 DEF Octet, ParsedSoFar
<1>3. CASE address[saved] # <<>>
  <2> DEFINE e == WrittenOctet(address[saved])
  <2>1. e \in Octets /\ octets' = Append(octets, e) /\ address' = address
    BY <1>1, <1>3 DEF Octet, Octets
  <2> HIDE DEF e
  <2>2. /\ octets' \in Seq(Octets) /\ Len(octets') = saved
        /\ octets'[saved] = e
        /\ \A i \in 1 .. saved - 1 : octets'[i] = octets[i]
    BY <1>1, <2>1, AppendProperties
  <2>3. ASSUME NEW i \in 1 .. Len(octets')
        PROVE  octets'[i] = WrittenOctet(address[i])
    <3>1. CASE i = saved
      BY <2>2, <3>1 DEF e
    <3>2. CASE i \in 1 .. saved - 1
      BY <2>2, <3>2 DEF ParsedSoFar
    <3> QED
      BY <1>1, <2>2, <3>1, <3>2
  <2> QED
    BY <1>3, <2>1, <2>2, <2>3
<1> QED
  BY <1>2, <1>3

LEMMA ParseInit ==
    Init => ParseInv
<1> SUFFICES ASSUME Init PROVE ParseInv
  OBVIOUS
<1>1. PICK n \in 1 .. MaxFields : address \in [1 .. n -> Fields]
  BY DEF Init
<1>2. n \in Nat /\ n >= 1
  BY FieldAssumption
<1>3. address \in Seq(Fields) /\ Len(address) = n
  BY <1>1, <1>2
<1>4. octets \in Seq(Octets) /\ Len(octets) = 0
  BY DEF Init
<1> QED
  BY <1>2, <1>3, <1>4
  DEF Init, ParseInv, ParsedSoFar, HowItEnds, NumOctets

LEMMA ParseStep ==
    ParseInv /\ [Next]_vars => ParseInv'
<1> SUFFICES ASSUME ParseInv, [Next]_vars PROVE ParseInv'
  OBVIOUS
<1> USE DEF NumOctets
<1>t. /\ address \in Seq(Fields) /\ Len(address) \in Nat
      /\ num_octets \in Nat /\ saved <= NumOctets + 1
      /\ saved \in 1 .. Len(address) /\ saved \in Nat
      /\ octets \in Seq(Octets) /\ Len(octets) \in Nat
      /\ address[saved] \in Fields
  BY LenProperties, ElementOfSeq DEF ParseInv, ParsedSoFar
<1>n. /\ saved \in Nat /\ num_octets \in Nat /\ Len(address) \in Nat
      /\ saved <= 5 /\ 1 <= saved /\ saved <= Len(address)
  BY <1>t
<1>i. /\ address[saved] \in Numbers <=> IsInteger(address[saved])
      /\ address[saved] \in Numbers => address[saved] # <<>>
  BY <1>t DEF Numbers, IsInteger
<1>p. outcome = "parsing" => /\ num_octets = saved - 1
                             /\ Len(octets) = saved - 1
  BY DEF ParseInv, HowItEnds
<1>1. CASE ParseOctet
  <2>1. /\ outcome = "parsing" /\ num_octets = saved - 1
        /\ Len(octets) = saved - 1 /\ saved < Len(address)
        /\ saved <= NumOctets
    <3>1. outcome = "parsing" /\ AnotherOctet
      BY <1>1 DEF ParseOctet
    <3> QED
      BY <1>n, <1>p, <3>1 DEF AnotherOctet
  <2>o. Octet
    BY <1>1 DEF ParseOctet
  <2>2. /\ octets' \in Seq(Octets) /\ address' = address
        /\ \A i \in 1 .. Len(octets') : octets'[i] = WrittenOctet(address[i])
        /\ address[saved] = <<>> => Len(octets') = saved - 1
        /\ address[saved] # <<>> => Len(octets') = saved
    BY <2>o, <2>1, OctetEffect DEF ParseInv
  <2>3. CASE address[saved] \in Numbers
    <3>1. /\ saved' = saved + 1 /\ num_octets' = saved
          /\ outcome' = "parsing" /\ Len(octets') = saved
      <4>1. IsInteger(address[saved]) /\ address[saved] # <<>>
        BY <1>i, <2>3
      <4> QED
        BY <1>1, <1>t, <2>1, <2>2, <4>1 DEF ParseOctet
    <3>2. \A i \in 1 .. saved : address[i] \in Numbers
      BY <1>t, <2>3 DEF ParseInv, ParsedSoFar
    <3>8. ParsedSoFar'
      BY <1>n, <1>t, <2>1, <2>2, <3>1, <3>2 DEF ParseInv, ParsedSoFar
    <3>9. HowItEnds'
      BY <1>n, <1>t, <2>1, <2>2, <3>1, <3>2 DEF HowItEnds
    <3> QED
      BY <3>8, <3>9 DEF ParseInv
  <2>4. CASE address[saved] \notin Numbers
    <3>1. /\ outcome' = "Invalid octet" /\ saved' = saved
          /\ num_octets' = num_octets
      <4>1. ~IsInteger(address[saved])
        BY <1>i, <2>4
      <4> QED
        BY <1>1, <4>1 DEF ParseOctet
    <3>8. ParsedSoFar'
      BY <1>n, <1>t, <2>1, <2>2, <2>4, <3>1 DEF ParseInv, ParsedSoFar
    <3>9. HowItEnds'
      BY <1>n, <1>t, <2>1, <2>2, <2>4, <3>1 DEF HowItEnds
    <3> QED
      BY <3>8, <3>9 DEF ParseInv
  <2> QED
    BY <2>3, <2>4
<1>2. CASE TooManyOctets
  <2>1. /\ outcome = "parsing" /\ num_octets = saved - 1
        /\ Len(octets) = saved - 1 /\ saved < Len(address)
        /\ saved = NumOctets + 1 /\ outcome' = "Too many octets"
        /\ UNCHANGED <<address, saved, octets, num_octets>>
    <3>1. /\ outcome = "parsing" /\ ~AnotherOctet /\ saved < Len(address)
          /\ outcome' = "Too many octets"
          /\ UNCHANGED <<address, saved, octets, num_octets>>
      BY <1>2 DEF TooManyOctets
    <3>2. num_octets = saved - 1 /\ Len(octets) = saved - 1
      BY <1>p, <3>1
    <3>3. ~(num_octets < NumOctets)
      BY <3>1 DEF AnotherOctet
    <3>4. saved = NumOctets + 1
      BY <1>n, <3>2, <3>3
    <3> QED
      BY <3>1, <3>2, <3>4
  <2>2. ParsedSoFar'
    BY <2>1 DEF ParseInv, ParsedSoFar
  <2>3. Len(address') > NumOctets + 1 /\ Len(octets') = NumOctets
    <3>0. /\ saved = NumOctets + 1 /\ saved < Len(address)
          /\ Len(octets) = saved - 1
      BY <2>1
    <3>1. Len(address) > NumOctets + 1 /\ Len(octets) = NumOctets
      BY <1>n, <3>0
    <3> QED
      BY <2>1, <3>1
  <2>4. HowItEnds'
    BY <2>1, <2>3 DEF HowItEnds
  <2> QED
    BY <2>2, <2>4 DEF ParseInv
<1>3. CASE LastOctet
  <2>1. /\ outcome = "parsing" /\ num_octets = saved - 1
        /\ Len(octets) = saved - 1 /\ saved = Len(address)
        /\ saved <= NumOctets + 1 /\ saved' = saved
    BY <1>3, <1>t, <1>p DEF LastOctet
  <2>o. Octet
    BY <1>3 DEF LastOctet
  <2>2. /\ octets' \in Seq(Octets) /\ address' = address
        /\ \A i \in 1 .. Len(octets') : octets'[i] = WrittenOctet(address[i])
        /\ address[saved] = <<>> => Len(octets') = saved - 1
        /\ address[saved] # <<>> => Len(octets') = saved
    BY <2>o, <2>1, OctetEffect DEF ParseInv
  <2>3. CASE address[saved] \in Numbers
    <3>1. /\ num_octets' = saved /\ Len(octets') = saved
          /\ outcome' = IF saved = NumOctets THEN "address"
                        ELSE "Too few octets"
      <4>1. IsInteger(address[saved]) /\ address[saved] # <<>>
        BY <1>i, <2>3
      <4> QED
        <5>1. /\ num_octets' = num_octets + 1
              /\ outcome' = IF num_octets' = NumOctets THEN "address"
                            ELSE "Too few octets"
          BY <1>3, <4>1 DEF LastOctet
        <5>2. num_octets' = saved
          <6>1. num_octets = saved - 1 /\ num_octets' = num_octets + 1
            BY <2>1, <5>1
          <6> QED
            BY <1>n, <6>1
        <5> QED
          BY <2>2, <4>1, <5>1, <5>2
    <3>2. \A i \in 1 .. saved : address[i] \in Numbers
      BY <1>t, <2>3 DEF ParseInv, ParsedSoFar
    <3>8. ParsedSoFar'
      BY <1>n, <1>t, <2>1, <2>2, <2>3, <3>1, <3>2 DEF ParseInv, ParsedSoFar
    <3>9. HowItEnds'
      BY <1>n, <1>t, <2>1, <2>2, <2>3, <3>1, <3>2 DEF HowItEnds
    <3> QED
      BY <3>8, <3>9 DEF ParseInv
  <2>4. CASE address[saved] \notin Numbers
    <3>1. outcome' = "Invalid octet" /\ num_octets' = num_octets
      <4>1. ~IsInteger(address[saved])
        BY <1>i, <2>4
      <4> QED
        BY <1>3, <4>1 DEF LastOctet
    <3>8. ParsedSoFar'
      BY <1>n, <1>t, <2>1, <2>2, <2>4, <3>1 DEF ParseInv, ParsedSoFar
    <3>9. HowItEnds'
      BY <1>n, <1>t, <2>1, <2>2, <2>4, <3>1 DEF HowItEnds
    <3> QED
      BY <3>8, <3>9 DEF ParseInv
  <2> QED
    BY <2>3, <2>4
<1>4. CASE UNCHANGED vars
  BY <1>4 DEF vars, ParseInv, ParsedSoFar, HowItEnds
<1> QED
  BY <1>1, <1>2, <1>3, <1>4 DEF Next

LEMMA MoreThanFour ==
    \A n \in Nat : n > 4 => n # 4
  OBVIOUS

LEMMA ParseInvariant ==
    Spec => []ParseInv
  BY ParseInit, ParseStep, PTL DEF Spec

(***************************************************************************)
(* parse_ipv4() accepts exactly the dotted quads, for strings of any       *)
(* length.                                                                 *)
(***************************************************************************)
THEOREM DottedQuadsAccepted ==
    Spec => []AcceptsDottedQuads
<1>1. ASSUME ParseInv
      PROVE  AcceptsDottedQuads
  <2>1. /\ Len(address) \in Nat /\ DOMAIN address = 1 .. Len(address)
        /\ saved \in 1 .. Len(address)
        /\ \A i \in 1 .. Len(address) : address[i] \in Fields
    BY <1>1, LenProperties, ElementOfSeq DEF ParseInv, ParsedSoFar
  <2>d. DottedQuad(address) <=> /\ Len(address) = 4
                                /\ \A i \in 1 .. 4 : address[i] \in Numbers
    BY <2>1 DEF DottedQuad, Numbers, NumOctets
  <2>2. CASE outcome = "address"
    <3>1. DottedQuad(address)
      BY <1>1, <2>d, <2>2 DEF ParseInv, HowItEnds, NumOctets
    <3> QED
      BY <2>2, <3>1 DEF AcceptsDottedQuads
  <2>3. CASE outcome \notin {"address", "parsing"}
    <3>1. ~DottedQuad(address)
      <4>1. \/ Len(address) # 4
            \/ \E i \in 1 .. 4 : address[i] \notin Numbers
        <5>1. CASE outcome = "Invalid octet"
          <6>1. address[saved] \notin Numbers
            BY <1>1, <5>1 DEF ParseInv, HowItEnds
          <6>2. Len(address) = 4 => saved \in 1 .. 4
            BY <2>1
          <6> QED
            BY <6>1, <6>2
        <5>2. CASE outcome # "Invalid octet"
          <6>1. \/ Len(address) = saved /\ saved # 4
                \/ Len(address) > 4 + 1
            BY <1>1, <2>3, <5>2 DEF ParseInv, HowItEnds, NumOctets
          <6>2. Len(address) \in Nat
            BY <2>1
          <6>3. Len(address) > 4 + 1 => Len(address) > 4
            BY <6>2
          <6>4. Len(address) > 4 => Len(address) # 4
            BY <6>2, MoreThanFour
          <6> QED
            BY <6>1, <6>3, <6>4
        <5> QED
          BY <5>1, <5>2
      <4> QED
        BY <2>d, <4>1
    <3> QED
      BY <2>3, <3>1 DEF AcceptsDottedQuads, DottedQuad
  <2> QED
    BY <2>2, <2>3 DEF AcceptsDottedQuads
<1> QED
  BY <1>1, ParseInvariant, PTL

(***************************************************************************)
(* The write past the end of the array that a fifth field causes is always *)
(* followed by an exception.                                               *)
(***************************************************************************)
THEOREM OverrunsAreReported ==
    Spec => []OverrunIsReported
<1>1. ASSUME ParseInv
      PROVE  OverrunIsReported
  <2>n. /\ Len(octets) \in Nat /\ Len(address) \in Nat /\ saved \in Nat
        /\ saved <= 5 /\ saved <= Len(address)
    BY <1>1, LenProperties DEF ParseInv, ParsedSoFar, NumOctets
  <2>o. /\ outcome = "parsing" => Len(octets) = saved - 1
        /\ outcome \in {"address", "Too many octets"} => Len(octets) = 4
        /\ outcome = "Too few octets" =>
              /\ Len(octets) = saved /\ saved = Len(address)
              /\ address[saved] \in Numbers
        /\ outcome = "Invalid octet" =>
              /\ saved <= 4 \/ saved = Len(address)
              /\ \/ Len(octets) = saved - 1
                 \/ Len(octets) = saved /\ address[saved] # <<>>
        /\ outcome \in {"parsing", "address", "Too few octets",
                        "Too many octets", "Invalid octet"}
    BY <1>1 DEF ParseInv, HowItEnds, NumOctets
  <2>1. ASSUME Len(octets) > 4
        PROVE  /\ outcome \in {"Too few octets", "Invalid octet"}
               /\ Len(octets) = saved /\ saved = 5
    <3>1. outcome # "parsing"
      <4>1. Len(octets) # saved - 1
        BY <2>n, <2>1
      <4> QED
        BY <2>o, <4>1
    <3>2. outcome \notin {"address", "Too many octets"}
      <4>1. Len(octets) # 4
        BY <2>n, <2>1, MoreThanFour
      <4> QED
        BY <2>o, <4>1
    <3>3. outcome \in {"Too few octets", "Invalid octet"}
      BY <2>o, <3>1, <3>2
    <3>4. Len(octets) \in {saved - 1, saved}
      BY <2>o, <3>3
    <3>5. Len(octets) = saved /\ saved = 5
      BY <2>n, <2>1, <3>4
    <3> QED
      BY <3>3, <3>5
  <2>2. ASSUME Len(octets) > 4
        PROVE  Len(address) = 5 /\ address[5] # <<>>
    <3>1. CASE outcome = "Too few octets"
      BY <2>1, <2>2, <2>o, <3>1 DEF Numbers, IsInteger
    <3>2. CASE outcome = "Invalid octet"
      <4>1. saved <= 4 \/ saved = Len(address)
        BY <2>o, <3>2
      <4>2. \/ Len(octets) = saved - 1
            \/ Len(octets) = saved /\ address[saved] # <<>>
        BY <2>o, <3>2
      <4> QED
        <5>1. Len(octets) = saved /\ saved = 5
          BY <2>1, <2>2
        <5>2. Len(octets) # saved - 1 /\ ~(saved <= 4)
          BY <5>1
        <5> QED
          BY <4>1, <4>2, <5>1, <5>2
    <3> QED
      BY <2>1, <2>2, <3>1, <3>2
  <2>3. ASSUME Len(octets) > 4
        PROVE  \A i \in 1 .. 4 : IsInteger(address[i])
    <3>1. \A i \in 1 .. saved - 1 : address[i] \in Numbers
      BY <1>1 DEF ParseInv, ParsedSoFar
    <3>2. \A i \in 1 .. 4 : address[i] \in Numbers
      <4>1. saved = 5
        BY <2>1, <2>3
      <4> QED
        BY <3>1, <4>1
    <3> QED
      BY <3>2 DEF Numbers
  <2>4. 4 + 1 = 5
    OBVIOUS
  <2> QED
    BY <2>1, <2>2, <2>3, <2>4, Zenon DEF OverrunIsReported, NumOctets
<1> QED
  BY <1>1, ParseInvariant, PTL

----------------------------------------------------------------------------
(* Digits: what parse_integer() computes, compared with what the digits
   denote. *)

LEMMA MaxOfFinite ==
    ASSUME NEW S, IsFiniteSet(S), S \subseteq Int, S # {}
    PROVE  Max(S) \in S /\ \A y \in S : Max(S) >= y
<1> DEFINE HasMax(T) == \E x \in T : \A y \in T : x >= y
           Bad == {T \in SUBSET S : T # {} /\ ~HasMax(T)}
<1>1. Bad = {}
  <2> SUFFICES ASSUME Bad # {} PROVE FALSE
    OBVIOUS
  <2>1. PICK T \in Bad : \A U \in SUBSET T : U # T => U \notin Bad
    <3> Bad \in SUBSET SUBSET S
      OBVIOUS
    <3> HIDE DEF Bad
    <3> QED
      BY SmallestSubset
  <2>2. T \in SUBSET S /\ T # {} /\ ~HasMax(T)
    OBVIOUS
  <2>3. PICK x \in T : TRUE
    BY <2>2
  <2> DEFINE U == T \ {x}
  <2>4. U \in SUBSET T /\ U # T /\ U \in SUBSET S
    BY <2>2
  <2>5. U = {} \/ HasMax(U)
    BY <2>1, <2>4
  <2>6. CASE U = {}
    BY <2>2, <2>3, <2>6
  <2>7. CASE HasMax(U)
    <3>1. PICK m \in U : \A y \in U : m >= y
      BY <2>7
    <3>2. m \in Int /\ x \in Int /\ m \in T /\ \A y \in T : y \in Int
      BY <2>2, <2>4
    <3>3. CASE m >= x
      BY <2>2, <3>1, <3>2, <3>3
    <3>4. CASE x >= m
      <4>1. \A y \in T : x >= y
        BY <3>1, <3>2, <3>4
      <4> QED
        BY <2>2, <4>1
    <3> QED
      BY <3>2, <3>3, <3>4
  <2> QED
    BY <2>5, <2>6, <2>7
<1>2. HasMax(S)
  BY <1>1
<1> QED
  BY <1>2 DEF Max

LEMMA MaxOfRange ==
    ASSUME NEW k \in Nat, k >= 1
    PROVE  Max(1 .. k) = k /\ (1 .. k) \ {Max(1 .. k)} = 1 .. (k - 1)
<1>0. 1 \in Int /\ k \in Int
  OBVIOUS
<1>f. IsFiniteSet(1 .. k)
  BY <1>0, FS_Interval
<1>1. IsFiniteSet(1 .. k) /\ 1 .. k \subseteq Int /\ 1 .. k # {}
  BY <1>f
<1>2. Max(1 .. k) \in 1 .. k /\ \A y \in 1 .. k : Max(1 .. k) >= y
  BY <1>1, MaxOfFinite
<1>3. Max(1 .. k) = k
  BY <1>2
<1> QED
  BY <1>3

(* The functions that parse_integer() and its reference recurse with *)
Parsing(h, f) ==
    h = [s \in SUBSET DOMAIN f |->
            IF s = {} THEN 0
            ELSE (h[s \ {Max(s)}] * 10 + f[Max(s)]) % 256]

Denoting(v, f) ==
    v = [i \in 0 .. Len(f) |-> IF i = 0 THEN 0 ELSE 10 * v[i - 1] + f[i]]

LEMMA FoldIsChoice ==
    ASSUME NEW f
    PROVE  /\ parse_integer(f) = (CHOOSE h : Parsing(h, f))[DOMAIN f]
           /\ Denotes(f) = (CHOOSE v : Denoting(v, f))[Len(f)]
<1>1. parse_integer(f) = (CHOOSE h : Parsing(h, f))[DOMAIN f]
  BY DEF parse_integer, FoldLeft, MapThenFoldSet, Parsing
<1>2. Denotes(f) = (CHOOSE v : Denoting(v, f))[Len(f)]
  BY DEF Denotes, Denoting
<1> QED
  BY <1>1, <1>2

LEMMA ParsingExists ==
    ASSUME NEW f \in Seq(Int)
    PROVE  \E h \in [SUBSET DOMAIN f -> Int] : Parsing(h, f)
<1> DEFINE D == DOMAIN f
           c == [s \in SUBSET D |-> Max(s)]
           G == [p \in (SUBSET D) \X Int |->
                    (p[2] * 10 + f[Max(p[1])]) % 256]
<1>d. D = 1 .. Len(f) /\ Len(f) \in Nat /\ IsFiniteSet(D)
      /\ \A i \in D : i \in Int /\ f[i] \in Int
  <2>1. D = 1 .. Len(f) /\ Len(f) \in Nat
    BY LenProperties
  <2>2. 1 \in Int /\ Len(f) \in Int
    BY <2>1
  <2>3. IsFiniteSet(D)
    BY <2>1, <2>2, FS_Interval
  <2>4. \A i \in D : i \in Int /\ f[i] \in Int
    BY <2>1, ElementOfSeq
  <2> QED
    BY <2>1, <2>3, <2>4
<1> HIDE DEF D
<1>1. ASSUME NEW s \in SUBSET D, s # {}
      PROVE  c[s] = Max(s) /\ Max(s) \in s /\ f[Max(s)] \in Int
  <2>1. IsFiniteSet(s) /\ s \subseteq Int
    BY <1>d, FS_Subset
  <2>2. Max(s) \in s
    BY <1>1, <2>1, MaxOfFinite
  <2> QED
    BY <1>d, <2>2
<1>2. ASSUME NEW s \in SUBSET D, s # {}, NEW v \in Int
      PROVE  /\ G[<<s, v>>] = (v * 10 + f[Max(s)]) % 256
             /\ G[<<s, v>>] \in Int
  <2>1. G[<<s, v>>] = (v * 10 + f[Max(s)]) % 256
    OBVIOUS
  <2>2. \A a \in Int : a % 256 \in Int
    OBVIOUS
  <2>3. f[Max(s)] \in Int
    BY <1>1, <1>2
  <2>4. v * 10 + f[Max(s)] \in Int
    BY <2>3
  <2> QED
    BY <2>1, <2>2, <2>4
<1> HIDE DEF c, G
<1>3. Steps(D, Int, c, G)
  BY <1>1, <1>2 DEF Steps
<1>4. PICK h \in [SUBSET D -> Int] : Recursive(h, D, 0, c, G)
  <2>1. 0 \in Int
    OBVIOUS
  <2> QED
    BY <1>d, <1>3, <2>1, RecursionExists
<1>5. ASSUME NEW s \in SUBSET D
      PROVE  h[s] = IF s = {} THEN 0
                    ELSE (h[s \ {Max(s)}] * 10 + f[Max(s)]) % 256
  <2>1. h[s] = IF s = {} THEN 0 ELSE G[<<s, h[s \ {c[s]}]>>]
    BY <1>4 DEF Recursive
  <2>2. CASE s # {}
    <3>1. c[s] = Max(s) /\ h[s \ {Max(s)}] \in Int
      BY <1>1, <2>2
    <3>2. G[<<s, h[s \ {Max(s)}]>>]
              = (h[s \ {Max(s)}] * 10 + f[Max(s)]) % 256
      BY <1>2, <2>2, <3>1, ZenonT(60)
    <3> QED
      BY <2>1, <2>2, <3>1, <3>2
  <2> QED
    BY <2>1, <2>2
<1>6. h = [s \in SUBSET D |-> h[s]]
  OBVIOUS
<1>7. Parsing(h, f)
  BY <1>5, <1>6, ZenonT(60) DEF Parsing, D
<1> QED
  BY <1>7 DEF D

LEMMA DenotingExists ==
    ASSUME NEW f \in Seq(Int)
    PROVE  \E v : Denoting(v, f)
<1> DEFINE n == Len(f)
           D == 1 .. n
           c == [s \in SUBSET D |-> Max(s)]
           G == [p \in (SUBSET D) \X Int |-> 10 * p[2] + f[Max(p[1])]]
<1>d. n \in Nat /\ 1 \in Int /\ n \in Int
  BY LenProperties
<1>e. /\ IsFiniteSet(D)
      /\ \A i \in D : i \in Int /\ f[i] \in Int
  BY <1>d, FS_Interval, ElementOfSeq
<1>1. ASSUME NEW s \in SUBSET D, s # {}
      PROVE  c[s] = Max(s) /\ Max(s) \in s /\ f[Max(s)] \in Int
  <2> HIDE DEF D
  <2>1. IsFiniteSet(s) /\ s \subseteq Int
    BY <1>e, FS_Subset
  <2>2. Max(s) \in s
    BY <1>1, <2>1, MaxOfFinite
  <2> QED
    BY <1>e, <2>2
<1> HIDE DEF D
<1>2. ASSUME NEW s \in SUBSET D, s # {}, NEW v \in Int
      PROVE  /\ G[<<s, v>>] = 10 * v + f[Max(s)]
             /\ G[<<s, v>>] \in Int
  <2>1. G[<<s, v>>] = 10 * v + f[Max(s)]
    OBVIOUS
  <2>2. f[Max(s)] \in Int
    BY <1>1, <1>2
  <2> QED
    BY <2>1, <2>2
<1> HIDE DEF c, G
<1>3. Steps(D, Int, c, G)
  BY <1>1, <1>2 DEF Steps
<1>4. PICK h \in [SUBSET D -> Int] : Recursive(h, D, 0, c, G)
  <2>1. 0 \in Int
    OBVIOUS
  <2> QED
    BY <1>e, <1>3, <2>1, RecursionExists
<1> DEFINE v == [i \in 0 .. n |-> h[1 .. i]]
<1>5. ASSUME NEW i \in 0 .. n, i # 0
      PROVE  v[i] = 10 * v[i - 1] + f[i]
  <2>1. /\ i \in Nat /\ i >= 1 /\ i - 1 \in 0 .. n
        /\ 1 .. i \in SUBSET D /\ 1 .. i # {} /\ 1 .. (i - 1) \in SUBSET D
    <3>1. i \in Nat /\ i >= 1 /\ i - 1 \in 0 .. n
      BY <1>d, <1>5
    <3>2. /\ 1 \in 1 .. i /\ \A j \in 1 .. i : j \in 1 .. n
          /\ \A j \in 1 .. (i - 1) : j \in 1 .. n
      BY <1>d, <3>1
    <3> QED
      BY <3>1, <3>2 DEF D
  <2>2. Max(1 .. i) = i /\ (1 .. i) \ {Max(1 .. i)} = 1 .. (i - 1)
    BY <2>1, MaxOfRange
  <2>3. c[1 .. i] = Max(1 .. i)
    BY <1>1, <2>1
  <2>4. h[1 .. i] = G[<<1 .. i, h[1 .. (i - 1)]>>]
    BY <1>4, <2>1, <2>2, <2>3 DEF Recursive
  <2>5. h[1 .. (i - 1)] \in Int
    BY <2>1
  <2>6. G[<<1 .. i, h[1 .. (i - 1)]>>] = 10 * h[1 .. (i - 1)] + f[i]
    BY <1>2, <2>1, <2>2, <2>5
  <2> QED
    BY <2>1, <2>4, <2>6
<1>6. v[0] = 0
  <2>1. 0 \in 0 .. n /\ 1 .. 0 = {} /\ {} \in SUBSET D
    BY <1>d
  <2>2. h[{}] = 0
    BY <1>4, <2>1 DEF Recursive
  <2> QED
    BY <2>1, <2>2
<1>7. v = [i \in 0 .. n |-> v[i]]
  OBVIOUS
<1> HIDE DEF v
<1>8. Denoting(v, f)
  <2>1. \A i \in 0 .. n : v[i] = IF i = 0 THEN 0 ELSE 10 * v[i - 1] + f[i]
    BY <1>5, <1>6
  <2> QED
    BY <1>7, <2>1 DEF Denoting
<1> QED
  BY <1>8

LEMMA LowBits ==
    \A a, d \in Int : ((a % 256) * 10 + d) % 256 = (10 * a + d) % 256
  OBVIOUS

(* The octet that is written is the number the digits denote, modulo 2^8. *)
LEMMA OctetIsRemainder ==
    ASSUME NEW f \in Seq(Int)
    PROVE  parse_integer(f) = Denotes(f) % 256
<1> DEFINE h == CHOOSE k : Parsing(k, f)
           v == CHOOSE u : Denoting(u, f)
           n == Len(f)
           Right(k) == v[k] \in Int /\ h[1 .. k] = v[k] % 256
           Bad == {T \in SUBSET (1 .. n) :
                     \E k \in 0 .. n : T = 1 .. k /\ ~Right(k)}
<1>h. Parsing(h, f)
  BY ParsingExists
<1>v. Denoting(v, f)
  BY DenotingExists
<1>n. n \in Nat /\ DOMAIN f = 1 .. n /\ \A i \in 1 .. n : f[i] \in Int
  BY LenProperties, ElementOfSeq
<1>f. IsFiniteSet(1 .. n)
  <2>1. 1 \in Int /\ n \in Int
    BY <1>n
  <2> QED
    BY <2>1, FS_Interval
<1>c. parse_integer(f) = h[1 .. n] /\ Denotes(f) = v[n]
  BY <1>n, FoldIsChoice
<1> HIDE DEF h, v, n
<1>1. Right(0)
  <2>1. 0 \in 0 .. n /\ 1 .. 0 = {} /\ {} \in SUBSET (1 .. n)
    BY <1>n
  <2>2. h[{}] = 0
    BY <1>h, <1>n, <2>1 DEF Parsing
  <2>3. v[0] = 0
    BY <1>v, <2>1 DEF Denoting, n
  <2>4. 0 % 256 = 0 /\ 0 \in Int
    OBVIOUS
  <2> QED
    BY <2>1, <2>2, <2>3, <2>4
<1>2. ASSUME NEW k \in 1 .. n, Right(k - 1)
      PROVE  Right(k)
  <2>1. /\ k \in Nat /\ k >= 1 /\ k \in 0 .. n /\ k # 0
        /\ 1 .. k \in SUBSET (1 .. n) /\ 1 .. k # {} /\ f[k] \in Int
    <3>1. k \in Nat /\ k >= 1 /\ k \in 0 .. n /\ k # 0 /\ f[k] \in Int
      BY <1>n
    <3>2. 1 \in 1 .. k /\ \A i \in 1 .. k : i \in 1 .. n
      BY <1>n, <3>1
    <3> QED
      BY <3>1, <3>2
  <2>2. Max(1 .. k) = k /\ (1 .. k) \ {Max(1 .. k)} = 1 .. (k - 1)
    BY <2>1, MaxOfRange
  <2>3. h[1 .. k] = (h[1 .. (k - 1)] * 10 + f[k]) % 256
    <3>1. h[1 .. k] = (h[(1 .. k) \ {Max(1 .. k)}] * 10 + f[Max(1 .. k)])
                          % 256
      BY <1>h, <1>n, <2>1 DEF Parsing
    <3> QED
      BY <2>2, <3>1
  <2>4. v[k] = 10 * v[k - 1] + f[k]
    BY <1>v, <2>1 DEF Denoting, n
  <2>5. v[k - 1] \in Int /\ h[1 .. (k - 1)] = v[k - 1] % 256
    BY <1>2
  <2>6. v[k] \in Int
    BY <2>1, <2>4, <2>5
  <2>7. h[1 .. k] = (10 * v[k - 1] + f[k]) % 256
    <3> DEFINE a == v[k - 1]
               d == f[k]
    <3>1. a \in Int /\ d \in Int
      BY <2>1, <2>5
    <3>2. h[1 .. k] = ((a % 256) * 10 + d) % 256
      BY <2>3, <2>5
    <3> HIDE DEF a, d
    <3>3. h[1 .. k] = (10 * a + d) % 256
      BY <3>1, <3>2, LowBits
    <3> QED
      BY <3>3 DEF a, d
  <2> QED
    BY <2>4, <2>6, <2>7
<1> HIDE DEF Right
<1>3. Bad = {}
  <2> SUFFICES ASSUME Bad # {} PROVE FALSE
    OBVIOUS
  <2>1. PICK T \in Bad : \A U \in SUBSET T : U # T => U \notin Bad
    <3> Bad \in SUBSET SUBSET (1 .. n)
      OBVIOUS
    <3> HIDE DEF Bad
    <3> QED
      BY <1>f, SmallestSubset
  <2>2. PICK k \in 0 .. n : T = 1 .. k /\ ~Right(k)
    OBVIOUS
  <2>3. k \in 1 .. n
    BY <1>n, <1>1, <2>2
  <2>4. /\ k - 1 \in 0 .. n
        /\ 1 .. (k - 1) \in SUBSET T /\ 1 .. (k - 1) # T
        /\ 1 .. (k - 1) \in SUBSET (1 .. n)
    BY <1>n, <2>2, <2>3
  <2>5. Right(k - 1)
    BY <2>1, <2>4
  <2> QED
    BY <1>2, <2>2, <2>3, <2>5
<1>4. Right(n)
  <2>1. n \in 0 .. n /\ 1 .. n \in SUBSET (1 .. n)
    BY <1>n
  <2> QED
    BY <1>3, <2>1
<1> QED
  BY <1>c, <1>4 DEF Right

(***************************************************************************)
(* For every dotted quad, whatever the length of its fields, the address   *)
(* that connect(), bind() and send_to() use has the octets in the order in *)
(* which they are written, each reduced to its low eight bits.             *)
(***************************************************************************)
THEOREM BytesInNetworkOrder ==
    Spec => []NetworkByteOrder
<1>1. ASSUME ParseInv
      PROVE  NetworkByteOrder
  <2> SUFFICES ASSUME outcome = "address", NEW i \in 1 .. NumOctets
               PROVE  SAddr[i] = Denotes(address[i]) % 256
    BY DEF NetworkByteOrder
  <2>1. /\ Len(octets) = 4 /\ octets \in Seq(Octets) /\ i \in 1 .. 4
        /\ address[i] \in Numbers
        /\ octets[i] = WrittenOctet(address[i])
    BY <1>1 DEF ParseInv, ParsedSoFar, HowItEnds, NumOctets
  <2> DEFINE q == SubSeq(octets, 1, NumOctets)
  <2>2. q = octets
    BY <2>1 DEF NumOctets
  <2>3. SAddr[i] = octets[i]
    <3>1. SAddr = Reverse(Reverse(octets))
      BY <2>2 DEF SAddr, reverse_byte_order, Parsed
    <3>2. Len(Reverse(octets)) = 4
      BY <2>1 DEF Reverse
    <3>3. SAddr[i] = Reverse(octets)[(4 - i) + 1]
      BY <2>1, <3>1, <3>2 DEF Reverse
    <3>4. (4 - i) + 1 \in 1 .. 4 /\ (4 - ((4 - i) + 1)) + 1 = i
      BY <2>1
    <3>5. Reverse(octets)[(4 - i) + 1] = octets[i]
      BY <2>1, <3>4 DEF Reverse
    <3> QED
      BY <3>3, <3>5
  <2>4. WrittenOctet(address[i]) = parse_integer(address[i])
    <3>1. ~Contains(address[i], Junk)
      BY <2>1 DEF Numbers, IsInteger
    <3>2. {j \in 1 .. Len(address[i]) : address[i][j] = Junk} = {}
      BY <3>1 DEF Contains
    <3> QED
      BY <3>2 DEF WrittenOctet, SelectInSeq
  <2>5. address[i] \in Seq(Int)
    <3> DEFINE f == address[i]
    <3>1. f \in Seq(0 .. 9 \cup {Junk}) /\ ~Contains(f, Junk)
      BY <2>1, FieldAssumption DEF Numbers, IsInteger
    <3>2. \A j \in 1 .. Len(f) : f[j] \in Int
      BY <3>1, ElementOfSeq DEF Contains
    <3> HIDE DEF f
    <3>3. Len(f) \in Nat /\ f = [j \in 1 .. Len(f) |-> f[j]]
      BY <3>1, LenProperties
    <3>4. f \in Seq(Int)
      BY <3>2, <3>3
    <3> QED
      BY <3>4 DEF f
  <2> QED
    BY <2>1, <2>3, <2>4, <2>5, OctetIsRemainder
<1> QED
  BY <1>1, ParseInvariant, PTL
============================================================================
