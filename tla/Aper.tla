-------------------------------- MODULE Aper --------------------------------
(***************************************************************************)
(* The Aligned PER primitives of package sbcap.  A byte string is its      *)
(* sequence of bits, most significant first.  A bitWriter is the bits      *)
(* written so far, or None after an error; a bitReader is a record that    *)
(* also keeps what was got from it, and a read that fails leaves it not ok *)
(* for every read after it, as the early returns of the code do.           *)
(***************************************************************************)
EXTENDS Integers, Sequences, SequencesExt

CONSTANT None

-----------------------------------------------------------------------------
(* bitWriter *)

Bits(v, n) == [i \in 1..n |-> (v \div 2^(n - i)) % 2]

\* A sequence of octets, as bits.
Octets(s) == [i \in 1..8 * Len(s) |-> (s[(i + 7) \div 8] \div 2^((8 * Len(s) - i) % 8)) % 2]

PutBits(w, v, n) == IF w = None THEN None ELSE w \o Bits(v, n)

\* Padding up to the next octet boundary; also what bytes() adds at the end.
Align(w) == IF w = None THEN None ELSE PutBits(w, 0, (8 - (Len(w) % 8)) % 8)

PutOctets(w, b) == IF w = None \/ b = None THEN None ELSE w \o b

-----------------------------------------------------------------------------
(* bitReader *)

Reader(b) == [buf |-> b, at |-> 0, ok |-> TRUE, got |-> <<>>]

Fail(r) == [r EXCEPT !.ok = FALSE]

\* The number a sequence of bits stands for.
Number(b) ==
    LET value[i \in 0..Len(b)] == IF i = 0 THEN 0 ELSE 2 * value[i - 1] + b[i]
    IN  value[Len(b)]

Has(r, n) == r.ok /\ r.at + n <= Len(r.buf)

Ahead(r, n) == SubSeq(r.buf, r.at + 1, r.at + n)

Skip(r, n) == IF Has(r, n) THEN [r EXCEPT !.at = @ + n] ELSE Fail(r)

\* The next n bits are read, and v is got from them.
Take(r, n, v) == [r EXCEPT !.at = @ + n, !.got = Append(@, v)]

GetBits(r, n) == IF Has(r, n) THEN Take(r, n, Number(Ahead(r, n))) ELSE Fail(r)

\* A bit the codec supports as 0 only: no extension, option absent.
GetZero(r) == IF Has(r, 1) /\ Ahead(r, 1) = <<0>> THEN Skip(r, 1) ELSE Fail(r)

AlignReader(r) == Skip(r, (8 - (r.at % 8)) % 8)

\* Faulty variant: as many octets as there are.
ReadOctetsLenient(r, n) ==
    IF r.ok /\ r.at % 8 = 0
    THEN LET most == Min({8 * n, Len(r.buf) - r.at}) IN Take(r, most, Ahead(r, most))
    ELSE Fail(r)

ReadOctets(r, n) ==
    IF Has(r, 8 * n) /\ r.at % 8 = 0 THEN Take(r, 8 * n, Ahead(r, 8 * n)) ELSE Fail(r)

\* The last n things got make up one.
Combine(r, n, Make(_)) ==
    IF r.ok THEN [r EXCEPT !.got = Append(SubSeq(@, 1, Len(@) - n), Make(SubSeq(@, Len(@) - n + 1, Len(@))))]
    ELSE r

\* As many items in a row, each read by Get, as the number just got: it gives
\* way to the sequence of their values.
GetList(Get(_), r) ==
    LET after[i \in 0..Last(r.got)] ==
            IF i = 0 THEN r ELSE LET q == after[i - 1] IN IF q.ok THEN Get(q) ELSE q
    IN  IF r.ok THEN Combine(after[Last(r.got)], Last(r.got) + 1, Tail) ELSE r

\* What was got last, or None.
Finish(r) == IF r.ok THEN Last(r.got) ELSE None

\* The items of a list in a row, each written by Put.
PutEach(Put(_, _), w, list) ==
    LET after[i \in 0..Len(list)] ==
            IF i = 0 THEN w ELSE LET v == after[i - 1] IN IF v = None THEN None ELSE Put(v, list[i])
    IN  after[Len(list)]

-----------------------------------------------------------------------------
(* Constrained whole numbers *)

BitsFor(range) == CHOOSE n \in 0..8 : 2^n >= range /\ \A k \in 0..n - 1 : 2^k < range

PutConstrainedWholeNumber(w, lb, ub, v) ==
    LET range == ub - lb + 1
    IN  IF w = None \/ v < lb \/ v > ub \/ range > 65536 THEN None
        ELSE IF range = 1 THEN w
        ELSE IF range < 256 THEN PutBits(w, v - lb, BitsFor(range))
        ELSE PutBits(Align(w), v - lb, IF range = 256 THEN 8 ELSE 16)

Offset(r, lb) == Combine(r, 1, LAMBDA v : v[1] + lb)

\* The upper bound only says how many bits there are: it is not checked.
GetConstrainedWholeNumber(r, lb, ub) ==
    LET range == ub - lb + 1
    IN  IF range > 65536 THEN Fail(r)
        ELSE IF range = 1 THEN Take(r, 0, lb)
        ELSE IF range < 256 THEN Offset(GetBits(r, BitsFor(range)), lb)
        ELSE Offset(GetBits(AlignReader(r), IF range = 256 THEN 8 ELSE 16), lb)

-----------------------------------------------------------------------------
(* Open types *)

\* The length of a content of n octets, in one octet or, with a high bit set, in two.
Length(n) == IF n <= 127 THEN Bits(n, 8) ELSE Bits(n + 32768, 16)

\* A value of no bits becomes one zero octet.
Filled(content) == IF content = <<>> THEN Bits(0, 8) ELSE content

\* Length in octets, then the content.
PutOpenType(w, content) ==
    LET c == Filled(content)
    IN  IF w = None \/ content = None \/ Len(c) \div 8 > 16383 THEN None
        ELSE Align(w) \o Length(Len(c) \div 8) \o c

\* A length of one octet or of two; a fragmented content is not supported.
GetContent(r) ==
    LET first == Number(Ahead(r, 8))
    IN  IF Has(r, 8) /\ first < 128 THEN ReadOctets(Skip(r, 8), first)
        ELSE IF Has(r, 16) /\ first < 192 THEN ReadOctets(Skip(r, 16), Number(Ahead(r, 16)) - 32768)
        ELSE Fail(r)

GetOpenType(r) == GetContent(AlignReader(r))

=============================================================================
