---------------------------- MODULE Sbcap_proof ----------------------------
(***************************************************************************)
(* Proofs about the SBcAP codec, for values of any length: what is written *)
(* is read again, from the bits of a number to the elements of a PDU and   *)
(* to the cells and tracking areas in them; and a PDU that is cut short    *)
(* has no header.                                                          *)
(***************************************************************************)
EXTENDS Sbcap, WellFoundedInduction, TLAPS

\* Counting up: a set that has 0, and i if it has i - 1, has everything up to n.
LEMMA CountingUp ==
    ASSUME NEW n \in Nat, NEW S, 0 \in S, \A i \in 1..n : i - 1 \in S => i \in S
    PROVE  \A i \in 0..n : i \in S
  <1> DEFINE missed == {i \in Nat : i \in 0..n /\ i \notin S}
  <1> SUFFICES ASSUME missed # {} PROVE FALSE
    OBVIOUS
  <1>1. PICK k \in missed : \A i \in missed : <<i, k>> \notin OpToRel(<, Nat)
    BY WFMin, NatLessThanWellFounded
  <1>2. k \in 1..n /\ k \notin S
    <2>1. k # 0
      OBVIOUS
    <2>2. QED
      BY <2>1
  <1>3. k - 1 \in missed
    BY <1>2
  <1>4. k - 1 < k /\ k - 1 \in Nat /\ k \in Nat
    BY <1>2
  <1>5. QED
    BY <1>1, <1>3, <1>4 DEF OpToRel

-----------------------------------------------------------------------------
(* Bits *)

\* Powers of two, as far as they are needed.
LEMMA Doubling == \A k \in 0..27 : 2^(k + 1) = 2 * 2^k
  <1>1. \A k : k = 0 => 2^(k + 1) = 2 * 2^k OBVIOUS
  <1>2. \A k : k = 1 => 2^(k + 1) = 2 * 2^k OBVIOUS
  <1>3. \A k : k = 2 => 2^(k + 1) = 2 * 2^k OBVIOUS
  <1>4. \A k : k = 3 => 2^(k + 1) = 2 * 2^k OBVIOUS
  <1>5. \A k : k = 4 => 2^(k + 1) = 2 * 2^k OBVIOUS
  <1>6. \A k : k = 5 => 2^(k + 1) = 2 * 2^k OBVIOUS
  <1>7. \A k : k = 6 => 2^(k + 1) = 2 * 2^k OBVIOUS
  <1>8. \A k : k = 7 => 2^(k + 1) = 2 * 2^k OBVIOUS
  <1>9. \A k : k = 8 => 2^(k + 1) = 2 * 2^k OBVIOUS
  <1>10. \A k : k = 9 => 2^(k + 1) = 2 * 2^k OBVIOUS
  <1>11. \A k : k = 10 => 2^(k + 1) = 2 * 2^k OBVIOUS
  <1>12. \A k : k = 11 => 2^(k + 1) = 2 * 2^k OBVIOUS
  <1>13. \A k : k = 12 => 2^(k + 1) = 2 * 2^k OBVIOUS
  <1>14. \A k : k = 13 => 2^(k + 1) = 2 * 2^k OBVIOUS
  <1>15. \A k : k = 14 => 2^(k + 1) = 2 * 2^k OBVIOUS
  <1>16. \A k : k = 15 => 2^(k + 1) = 2 * 2^k OBVIOUS
  <1>17. \A k : k = 16 => 2^(k + 1) = 2 * 2^k OBVIOUS
  <1>18. \A k : k = 17 => 2^(k + 1) = 2 * 2^k OBVIOUS
  <1>19. \A k : k = 18 => 2^(k + 1) = 2 * 2^k OBVIOUS
  <1>20. \A k : k = 19 => 2^(k + 1) = 2 * 2^k OBVIOUS
  <1>21. \A k : k = 20 => 2^(k + 1) = 2 * 2^k OBVIOUS
  <1>22. \A k : k = 21 => 2^(k + 1) = 2 * 2^k OBVIOUS
  <1>23. \A k : k = 22 => 2^(k + 1) = 2 * 2^k OBVIOUS
  <1>24. \A k : k = 23 => 2^(k + 1) = 2 * 2^k OBVIOUS
  <1>25. \A k : k = 24 => 2^(k + 1) = 2 * 2^k OBVIOUS
  <1>26. \A k : k = 25 => 2^(k + 1) = 2 * 2^k OBVIOUS
  <1>27. \A k : k = 26 => 2^(k + 1) = 2 * 2^k OBVIOUS
  <1>28. \A k : k = 27 => 2^(k + 1) = 2 * 2^k OBVIOUS
  <1>29. \A k \in 0..6 : 2^(k + 1) = 2 * 2^k
    <2>1. \A k \in 0..6 : k = 0 \/ k = 1 \/ k = 2 \/ k = 3 \/ k = 4 \/ k = 5 \/ k = 6
      OBVIOUS
    <2>2. QED
      BY <1>1, <1>2, <1>3, <1>4, <1>5, <1>6, <1>7, <2>1, Zenon
  <1>30. \A k \in 7..13 : 2^(k + 1) = 2 * 2^k
    <2>1. \A k \in 7..13 : k = 7 \/ k = 8 \/ k = 9 \/ k = 10 \/ k = 11 \/ k = 12 \/ k = 13
      OBVIOUS
    <2>2. QED
      BY <1>8, <1>9, <1>10, <1>11, <1>12, <1>13, <1>14, <2>1, Zenon
  <1>31. \A k \in 14..20 : 2^(k + 1) = 2 * 2^k
    <2>1. \A k \in 14..20 : k = 14 \/ k = 15 \/ k = 16 \/ k = 17 \/ k = 18 \/ k = 19 \/ k = 20
      OBVIOUS
    <2>2. QED
      BY <1>15, <1>16, <1>17, <1>18, <1>19, <1>20, <1>21, <2>1, Zenon
  <1>32. \A k \in 21..27 : 2^(k + 1) = 2 * 2^k
    <2>1. \A k \in 21..27 : k = 21 \/ k = 22 \/ k = 23 \/ k = 24 \/ k = 25 \/ k = 26 \/ k = 27
      OBVIOUS
    <2>2. QED
      BY <1>22, <1>23, <1>24, <1>25, <1>26, <1>27, <1>28, <2>1, Zenon
  <1>33. \A k \in 0..27 : k \in 0..6 \/ k \in 7..13 \/ k \in 14..20 \/ k \in 21..27
    OBVIOUS
  <1>34. QED
    BY <1>29, <1>30, <1>31, <1>32, <1>33, ZenonT(60)

\* Powers of two, as far as a field is wide, are positive numbers.
LEMMA Powers == \A k \in 0..28 : 2^k \in Nat \ {0}
  <1> DEFINE S == {k \in 0..28 : 2^k \in Nat \ {0}}
  <1>1. 0 \in S
    <2>1. 2^0 = 1
      OBVIOUS
    <2>2. QED
      BY <2>1
  <1>2. ASSUME NEW i \in 1..28, i - 1 \in S PROVE i \in S
    <2>1. 2^(i - 1 + 1) = 2 * 2^(i - 1)
      <3>1. i - 1 \in 0..27
        OBVIOUS
      <3>2. QED
        BY <3>1, Doubling
    <2>2. i - 1 + 1 = i
      OBVIOUS
    <2>3. 2^i = 2 * 2^(i - 1)
      BY <2>1, <2>2
    <2>4. 2^(i - 1) \in Nat \ {0}
      BY <1>2
    <2>5. QED
      BY <2>3, <2>4
  <1> HIDE DEF S
  <1>3. \A i \in 0..28 : i \in S
    BY <1>1, <1>2, CountingUp
  <1>4. QED
    BY <1>3 DEF S

\* A number as bits.
LEMMA BitsAre ==
    ASSUME NEW v \in Nat, NEW n \in 0..28
    PROVE  /\ Bits(v, n) \in Seq({0, 1}) /\ Len(Bits(v, n)) = n
           /\ \A i \in 1..n : Bits(v, n)[i] = (v \div 2^(n - i)) % 2
  <1>1. \A i \in 1..n : (v \div 2^(n - i)) % 2 \in {0, 1}
    <2> TAKE i \in 1..n
    <2>1. 2^(n - i) \in Nat \ {0}
      <3>1. n - i \in 0..28
        OBVIOUS
      <3>2. QED
        BY <3>1, Powers
    <2>2. v \div 2^(n - i) \in Nat
      BY <2>1
    <2>3. QED
      BY <2>2
  <1>2. QED
    BY <1>1 DEF Bits

\* Half of a number, and the bit that is left.
LEMMA Halves ==
    ASSUME NEW v \in Nat, NEW d \in Nat \ {0}
    PROVE  2 * (v \div (2 * d)) + ((v \div d) % 2) = v \div d
  OBVIOUS

\* The bits of a number stand for it.
LEMMA NumberOfBits ==
    ASSUME NEW n \in 0..28, NEW v \in Nat, v < 2^n
    PROVE  Number(Bits(v, n)) = v
  <1> DEFINE b == Bits(v, n)
             Whole(f) == [i \in 0..n |-> IF i = 0 THEN 0 ELSE 2 * f[i - 1] + b[i]]
             value == CHOOSE f : f = Whole(f)
             F == [i \in 0..n |-> v \div 2^(n - i)]
  <1>1. Len(b) = n /\ \A i \in 1..n : b[i] = (v \div 2^(n - i)) % 2
    BY BitsAre
  <1>2. \A i \in 1..n : v \div 2^(n - i) = 2 * (v \div 2^(n - (i - 1))) + ((v \div 2^(n - i)) % 2)
    <2> TAKE i \in 1..n
    <2>1. n - i \in 0..27 /\ (n - i) + 1 = n - (i - 1) /\ n - i \in 0..28
      OBVIOUS
    <2>2. 2^(n - (i - 1)) = 2 * 2^(n - i)
      BY <2>1, Doubling
    <2>3. 2^(n - i) \in Nat \ {0}
      BY <2>1, Powers
    <2>4. QED
      BY <2>2, <2>3, Halves
  <1>3. v \div 2^(n - 0) = 0 /\ v \div 2^(n - n) = v
    <2>1. n - 0 = n /\ n - n = 0 /\ 2^0 = 1 /\ 2^n \in Nat \ {0}
      BY Powers
    <2>2. v \div 2^n = 0
      BY <2>1
    <2>3. v \div 1 = v
      OBVIOUS
    <2>4. QED
      BY <2>1, <2>2, <2>3
  <1> HIDE DEF b
  <1>4. F = Whole(F)
    <2>1. \A i \in 0..n : F[i] = IF i = 0 THEN 0 ELSE 2 * F[i - 1] + b[i]
      <3> TAKE i \in 0..n
      <3>1. CASE i = 0
        BY <1>3, <3>1
      <3>2. CASE i # 0
        <4>1. i \in 1..n /\ i - 1 \in 0..n
          BY <3>2
        <4>2. QED
          BY <1>1, <1>2, <3>2, <4>1
      <3>3. QED
        BY <3>1, <3>2
    <2>2. F = [i \in 0..n |-> F[i]]
      OBVIOUS
    <2> HIDE DEF F
    <2>3. QED
      BY <2>1, <2>2
  <1>5. value = Whole(value)
    BY <1>4
  <1>6. Number(b) = value[n]
    BY <1>1 DEF Number
  <1> HIDE DEF value
  <1>7. \A i \in 0..n : value[i] = IF i = 0 THEN 0 ELSE 2 * value[i - 1] + b[i]
    BY <1>5
  <1> DEFINE S == {i \in 0..n : value[i] = F[i]}
  <1>8. 0 \in S
    <2>1. 0 \in 0..n
      OBVIOUS
    <2>2. QED
      BY <1>3, <1>7, <2>1
  <1>9. ASSUME NEW i \in 1..n, i - 1 \in S PROVE i \in S
    <2>1. i \in 0..n /\ i - 1 \in 0..n /\ i # 0
      OBVIOUS
    <2>2. value[i] = 2 * value[i - 1] + b[i]
      BY <1>7, <2>1
    <2>3. F[i] = 2 * F[i - 1] + b[i]
      BY <1>1, <1>2, <2>1
    <2>4. QED
      BY <1>9, <2>1, <2>2, <2>3
  <1>10. n \in S
    <2> HIDE DEF S
    <2>1. n \in Nat
      OBVIOUS
    <2>2. \A i \in 0..n : i \in S
      BY <1>8, <1>9, <2>1, CountingUp
    <2>3. QED
      BY <2>1, <2>2
  <1>11. n \in 0..n
    OBVIOUS
  <1>12. QED
    BY <1>3, <1>6, <1>10, <1>11 DEF b

-----------------------------------------------------------------------------
(* Sequences of bits, and what stands where in them *)

Listed(s) == s \in Seq(ToSet(s))

\* A list of whatever elements is a list.
LEMMA ListsAre ==
    ASSUME NEW S, NEW s \in Seq(S)
    PROVE  Listed(s) /\ Len(s) \in Nat
  BY DEF ToSet, Listed

\* Its positions are counted from one to its length.
LEMMA ListLength ==
    ASSUME NEW s, Listed(s)
    PROVE  Len(s) \in Nat /\ DOMAIN s = 1..Len(s)
  BY DEF Listed

\* The bits of a number are a list as long as the field is wide.
LEMMA BitsListed ==
    \A n \in 0..28 : \A v \in Nat : Listed(Bits(v, n)) /\ Len(Bits(v, n)) = n
  BY BitsAre, ListsAre

\* Two lists, one after the other.
LEMMA Joined ==
    ASSUME NEW s, Listed(s), NEW t, Listed(t)
    PROVE  /\ Listed(s \o t) /\ Len(s \o t) = Len(s) + Len(t)
           /\ \A i \in 1..Len(s) : (s \o t)[i] = s[i]
           /\ \A i \in 1..Len(t) : (s \o t)[Len(s) + i] = t[i]
  <1>1. s \o t \in Seq(ToSet(s) \cup ToSet(t)) /\ Len(s) \in Nat /\ Len(t) \in Nat
    BY DEF Listed
  <1>2. Len(s \o t) = Len(s) + Len(t)
    BY DEF Listed
  <1>3. \A i \in 1..Len(s) : (s \o t)[i] = s[i]
    BY <1>1 DEF Listed
  <1>4. \A i \in 1..Len(t) : (s \o t)[Len(s) + i] = t[i]
    BY <1>1 DEF Listed
  <1>5. QED
    BY <1>1, <1>2, <1>3, <1>4, ListsAre

\* The order in which lists are joined does not matter.
LEMMA JoinedTwice ==
    ASSUME NEW s, Listed(s), NEW t, Listed(t), NEW u, Listed(u)
    PROVE  (s \o t) \o u = s \o (t \o u)
  BY SMTT(30) DEF Listed

\* Lists of the same length and elements are the same.
LEMMA SameList ==
    ASSUME NEW s, Listed(s), NEW t, Listed(t), Len(s) = Len(t), \A i \in 1..Len(s) : s[i] = t[i]
    PROVE  s = t
  BY DEF Listed

\* The bits of p are those of buf behind the first at.
Stands(p, buf, at) ==
    /\ at + Len(p) <= Len(buf)
    /\ \A i \in 1..Len(p) : buf[at + i] = p[i]

\* What is put behind w stands behind w.
LEMMA StandsBehind ==
    ASSUME NEW w, Listed(w), NEW p, Listed(p), NEW z, Listed(z)
    PROVE  Stands(p, w \o p \o z, Len(w))
  <1>1. /\ Listed(w \o p) /\ Len(w \o p) = Len(w) + Len(p) /\ Len(w) \in Nat /\ Len(p) \in Nat
        /\ \A i \in 1..Len(p) : (w \o p)[Len(w) + i] = p[i]
    BY Joined, ListLength
  <1>2. /\ Len(w \o p \o z) = Len(w) + Len(p) + Len(z) /\ Len(z) \in Nat
        /\ \A i \in 1..Len(w \o p) : (w \o p \o z)[i] = (w \o p)[i]
    BY <1>1, Joined, ListLength
  <1>3. \A i \in 1..Len(p) : Len(w) + i \in 1..Len(w \o p)
    BY <1>1
  <1>4. \A i \in 1..Len(p) : (w \o p \o z)[Len(w) + i] = p[i]
    BY <1>1, <1>2, <1>3
  <1>5. QED
    BY <1>1, <1>2, <1>4 DEF Stands

\* Where two parts stand one after the other, each stands.
LEMMA PartsStand ==
    ASSUME NEW p, Listed(p), NEW q, Listed(q), NEW buf, Listed(buf), NEW at \in Nat, Stands(p \o q, buf, at)
    PROVE  Stands(p, buf, at) /\ Stands(q, buf, at + Len(p))
  <1>1. /\ Len(p \o q) = Len(p) + Len(q) /\ Len(p) \in Nat /\ Len(q) \in Nat
        /\ \A i \in 1..Len(p) : (p \o q)[i] = p[i]
        /\ \A i \in 1..Len(q) : (p \o q)[Len(p) + i] = q[i]
    BY Joined, ListLength
  <1>2. Len(buf) \in Nat
    BY ListLength
  <1>3. Stands(p, buf, at)
    <2>1. \A i \in 1..Len(p) : i \in 1..Len(p \o q)
      BY <1>1
    <2>2. \A i \in 1..Len(p) : buf[at + i] = p[i]
      BY <1>1, <2>1 DEF Stands
    <2>3. QED
      BY <1>1, <1>2, <2>2 DEF Stands
  <1>4. Stands(q, buf, at + Len(p))
    <2>1. ASSUME NEW i \in 1..Len(q) PROVE buf[at + Len(p) + i] = q[i]
      <3>1. Len(p) + i \in 1..Len(p \o q) /\ at + (Len(p) + i) = at + Len(p) + i
        BY <1>1
      <3>2. buf[at + (Len(p) + i)] = (p \o q)[Len(p) + i]
        BY <3>1 DEF Stands
      <3>3. QED
        BY <1>1, <3>1, <3>2
    <2>2. QED
      BY <1>1, <1>2, <2>1 DEF Stands
  <1>5. QED
    BY <1>3, <1>4

-----------------------------------------------------------------------------
(* Reading *)

\* A reader that has not failed.
At(buf, at, got) == [buf |-> buf, at |-> at, ok |-> TRUE, got |-> got]

\* A reader has ahead what stands where it is.
LEMMA AheadIs ==
    ASSUME NEW buf, Listed(buf), NEW at \in Nat, NEW got, NEW p, Listed(p), Stands(p, buf, at)
    PROVE  Has(At(buf, at, got), Len(p)) /\ Ahead(At(buf, at, got), Len(p)) = p
  <1>1. Len(p) \in Nat /\ Len(buf) \in Nat /\ at + Len(p) <= Len(buf)
    BY ListLength DEF Stands
  <1>2. Ahead(At(buf, at, got), Len(p)) = SubSeq(buf, at + 1, at + Len(p))
    BY DEF Ahead, At
  <1> DEFINE s == SubSeq(buf, at + 1, at + Len(p))
  <1>3. s \in Seq(ToSet(buf)) /\ Len(s) = Len(p) /\ \A i \in 1..Len(s) : s[i] = buf[at + i]
    BY <1>1 DEF Listed
  <1> HIDE DEF s
  <1>4. Listed(s)
    BY <1>3, ListsAre
  <1>5. s = p
    BY <1>3, <1>4, SameList DEF Stands
  <1>6. QED
    BY <1>1, <1>2, <1>5 DEF Has, At, s

\* n bits are enough for v.
Fits(v, n) == n \in 0..28 /\ v \in Nat /\ v < 2^n

\* getBits reads the number whose bits stand ahead.
LEMMA BitsAreRead ==
    ASSUME NEW buf, Listed(buf), NEW at \in Nat, NEW got, NEW n, NEW v, Fits(v, n),
           Stands(Bits(v, n), buf, at)
    PROVE  GetBits(At(buf, at, got), n) = At(buf, at + n, Append(got, v))
  <1>1. Listed(Bits(v, n)) /\ Len(Bits(v, n)) = n
    BY BitsListed DEF Fits
  <1>2. Has(At(buf, at, got), n) /\ Ahead(At(buf, at, got), n) = Bits(v, n)
    BY <1>1, AheadIs
  <1>3. Number(Bits(v, n)) = v
    BY NumberOfBits DEF Fits
  <1>4. GetBits(At(buf, at, got), n) = Take(At(buf, at, got), n, v)
    BY <1>2, <1>3 DEF GetBits
  <1>5. QED
    BY <1>4 DEF Take, At

\* An octet boundary, and n octets.
Aligned(at) == at \in Nat /\ at % 8 = 0
OfOctets(p, n) == Listed(p) /\ n \in Nat /\ Len(p) = 8 * n

\* readOctets reads the octets that stand ahead.
LEMMA OctetsAreRead ==
    ASSUME NEW buf, Listed(buf), NEW at, Aligned(at), NEW got, NEW n, NEW p, OfOctets(p, n), Stands(p, buf, at)
    PROVE  ReadOctets(At(buf, at, got), n) = At(buf, at + 8 * n, Append(got, p))
  <1>1. Has(At(buf, at, got), 8 * n) /\ Ahead(At(buf, at, got), 8 * n) = p
    <2>1. Has(At(buf, at, got), Len(p)) /\ Ahead(At(buf, at, got), Len(p)) = p
      BY AheadIs DEF Aligned, OfOctets
    <2>2. QED
      BY <2>1 DEF OfOctets
  <1>2. ReadOctets(At(buf, at, got), n) = Take(At(buf, at, got), 8 * n, p)
    BY <1>1 DEF ReadOctets, At, Aligned
  <1>3. QED
    BY <1>2 DEF Take, At

\* An absent extension is read where a zero stands.
LEMMA ZeroIsRead ==
    ASSUME NEW buf, Listed(buf), NEW at \in Nat, NEW got, Stands(Bits(0, 1), buf, at)
    PROVE  GetZero(At(buf, at, got)) = At(buf, at + 1, got)
  <1>1. Listed(Bits(0, 1)) /\ Len(Bits(0, 1)) = 1
    BY BitsListed
  <1>2. Has(At(buf, at, got), 1) /\ Ahead(At(buf, at, got), 1) = Bits(0, 1)
    <2> DEFINE p == Bits(0, 1)
    <2> HIDE DEF p
    <2>1. Listed(p) /\ Stands(p, buf, at)
      BY <1>1 DEF p
    <2>2. Has(At(buf, at, got), Len(p)) /\ Ahead(At(buf, at, got), Len(p)) = p
      BY <2>1, AheadIs
    <2>3. QED
      BY <1>1, <2>2, Zenon DEF p
  <1>3. Bits(0, 1) = <<0>>
    <2>1. 2^0 = 1 /\ 1 - 1 = 0 /\ (0 \div 1) % 2 = 0
      OBVIOUS
    <2>2. (0 \div 2^(1 - 1)) % 2 = 0
      BY <2>1
    <2>3. \A i \in 1..1 : i = 1
      OBVIOUS
    <2>4. QED
      BY <2>2, <2>3 DEF Bits
  <1>4. QED
    BY <1>2, <1>3 DEF GetZero, Skip, At

Padding(n) == (8 - (n % 8)) % 8

\* Padding is less than an octet and ends on an octet boundary.
LEMMA PaddingIs ==
    ASSUME NEW n \in Nat
    PROVE  Padding(n) \in 0..7 /\ (n + Padding(n)) % 8 = 0 /\ (n % 8 = 0 => Padding(n) = 0)
  BY DEF Padding

\* A reader that is aligned skips the padding.
LEMMA PaddingIsRead ==
    ASSUME NEW buf, Listed(buf), NEW at \in Nat, NEW got, at + Padding(at) <= Len(buf)
    PROVE  AlignReader(At(buf, at, got)) = At(buf, at + Padding(at), got)
  BY DEF AlignReader, Padding, Skip, Has, At

\* None is no list of bits.
NoneIsNoList == \A s : Listed(s) => s # None

-----------------------------------------------------------------------------
(* Writing *)

\* No bits change nothing.
LEMMA NothingMore ==
    ASSUME NEW w, Listed(w), NEW v
    PROVE  w \o Bits(v, 0) = w
  <1>1. Bits(v, 0) = <<>>
    BY DEF Bits
  <1>2. w \o <<>> = w
    BY DEF Listed
  <1>3. QED
    BY <1>1, <1>2

\* Padding is written.
LEMMA PaddingIsWritten ==
    ASSUME NoneIsNoList, NEW w, Listed(w)
    PROVE  /\ Align(w) = w \o Bits(0, Padding(Len(w)))
           /\ Listed(Align(w)) /\ Len(Align(w)) = Len(w) + Padding(Len(w)) /\ Len(Align(w)) % 8 = 0
           /\ Len(w) % 8 = 0 => Align(w) = w
  <1>1. w # None /\ Len(w) \in Nat
    BY ListLength DEF NoneIsNoList
  <1>2. Align(w) = w \o Bits(0, Padding(Len(w)))
    BY <1>1 DEF Align, PutBits, Padding
  <1>3. Padding(Len(w)) \in 0..28 /\ Padding(Len(w)) \in 0..7
    BY <1>1, PaddingIs
  <1>4. Listed(Bits(0, Padding(Len(w)))) /\ Len(Bits(0, Padding(Len(w)))) = Padding(Len(w))
    BY <1>3, BitsListed
  <1>5. Listed(Align(w)) /\ Len(Align(w)) = Len(w) + Padding(Len(w))
    BY <1>2, <1>4, Joined
  <1>6. Len(Align(w)) % 8 = 0
    BY <1>1, <1>5, PaddingIs
  <1>7. Len(w) % 8 = 0 => Align(w) = w
    <2>1. Len(w) % 8 = 0 => Padding(Len(w)) = 0
      BY <1>1, PaddingIs
    <2>2. QED
      BY <1>2, <2>1, NothingMore
  <1>8. QED
    BY <1>2, <1>5, <1>6, <1>7

\* Two bits for three values.
LEMMA BitsForThree == BitsFor(3) = 2
  <1> DEFINE P(n) == 2^n >= 3 /\ \A k \in 0..n - 1 : 2^k < 3
  <1>1. 2^0 = 1 /\ 2^1 = 2 /\ 2^2 = 4
    OBVIOUS
  <1>2. P(2)
    <2>1. \A k \in 0..2 - 1 : k = 0 \/ k = 1
      OBVIOUS
    <2>2. QED
      BY <1>1, <2>1
  <1>3. \A n \in 0..8 : P(n) => n = 2
    <2> SUFFICES ASSUME NEW n \in 0..8, P(n), n # 2 PROVE FALSE
      OBVIOUS
    <2>1. CASE n = 0
      <3>1. 2^n = 1
        BY <1>1, <2>1
      <3>2. QED
        BY <3>1
    <2>2. CASE n = 1
      <3>1. 2^n = 2
        BY <1>1, <2>2
      <3>2. QED
        BY <3>1
    <2>3. CASE n > 2
      <3>1. 2 \in 0..n - 1 /\ ~(2^2 < 3)
        BY <1>1, <2>3
      <3>2. 2^2 < 3
        BY <3>1
      <3>3. QED
        BY <3>1, <3>2
    <2>4. QED
      BY <2>1, <2>2, <2>3
  <1>4. 2 \in 0..8
    OBVIOUS
  <1> HIDE DEF P
  <1>5. (CHOOSE n \in 0..8 : P(n)) = 2
    BY <1>2, <1>3, <1>4
  <1>6. QED
    BY <1>5 DEF BitsFor, P

\* One bit tells two values apart.
LEMMA BitsForTwo == BitsFor(2) = 1
  <1> DEFINE P(n) == 2^n >= 2 /\ \A k \in 0..n - 1 : 2^k < 2
  <1>1. 2^0 = 1 /\ 2^1 = 2
    OBVIOUS
  <1>2. P(1)
    <2>1. \A k \in 0..1 - 1 : k = 0
      OBVIOUS
    <2>2. QED
      BY <1>1, <2>1
  <1>3. \A n \in 0..8 : P(n) => n = 1
    <2> SUFFICES ASSUME NEW n \in 0..8, P(n), n # 1 PROVE FALSE
      OBVIOUS
    <2>1. CASE n = 0
      <3>1. 2^n = 1
        BY <1>1, <2>1
      <3>2. QED
        BY <3>1
    <2>2. CASE n > 1
      <3>1. 1 \in 0..n - 1 /\ ~(2^1 < 2)
        BY <1>1, <2>2
      <3>2. 2^1 < 2
        BY <3>1
      <3>3. QED
        BY <3>1, <3>2
    <2>3. QED
      BY <2>1, <2>2
  <1>4. 1 \in 0..8
    OBVIOUS
  <1> HIDE DEF P
  <1>5. (CHOOSE n \in 0..8 : P(n)) = 1
    BY <1>2, <1>3, <1>4
  <1>6. QED
    BY <1>5 DEF BitsFor, P

\* How a constrained whole number is written.
LEMMA SmallIsWritten ==
    ASSUME NoneIsNoList, NEW w, Listed(w), NEW v \in 0..2
    PROVE  PutConstrainedWholeNumber(w, 0, 2, v) = w \o Bits(v, 2)
  <1>1. w # None
    BY DEF NoneIsNoList
  <1>2. v - 0 = v /\ ~(v < 0 \/ v > 2) /\ 2 - 0 + 1 = 3 /\ ~(3 > 65536) /\ 3 # 1 /\ 3 < 256
    OBVIOUS
  <1>3. PutConstrainedWholeNumber(w, 0, 2, v) = PutBits(w, v, BitsFor(3))
    BY <1>1, <1>2 DEF PutConstrainedWholeNumber
  <1>4. QED
    BY <1>1, <1>3, BitsForThree DEF PutBits

\* One bit for two values.
LEMMA BitIsWritten ==
    ASSUME NoneIsNoList, NEW w, Listed(w), NEW v \in 0..1
    PROVE  PutConstrainedWholeNumber(w, 0, 1, v) = w \o Bits(v, 1)
  <1>1. w # None
    BY DEF NoneIsNoList
  <1>2. v - 0 = v /\ ~(v < 0 \/ v > 1) /\ 1 - 0 + 1 = 2 /\ ~(2 > 65536) /\ 2 # 1 /\ 2 < 256
    OBVIOUS
  <1>3. PutConstrainedWholeNumber(w, 0, 1, v) = PutBits(w, v, BitsFor(2))
    BY <1>1, <1>2 DEF PutConstrainedWholeNumber
  <1>4. QED
    BY <1>1, <1>3, BitsForTwo DEF PutBits

\* v is one of a larger range of numbers.
InRange(lb, ub, v) ==
    /\ lb \in Nat /\ ub \in Nat /\ v \in Nat
    /\ ub - lb >= 255 /\ ub - lb < 65536 /\ lb <= v /\ v <= ub

\* The bits of a number from a larger range.
Width(lb, ub) == IF ub - lb + 1 = 256 THEN 8 ELSE 16

\* A number from a large range is written behind the padding.
LEMMA LargeIsWritten ==
    ASSUME NoneIsNoList, NEW w, Listed(w), NEW lb, NEW ub, NEW v, InRange(lb, ub, v)
    PROVE  PutConstrainedWholeNumber(w, lb, ub, v) = Align(w) \o Bits(v - lb, Width(lb, ub))
  <1>1. w # None /\ Align(w) # None
    BY PaddingIsWritten DEF NoneIsNoList
  <1>2. /\ ~(v < lb \/ v > ub) /\ ~(ub - lb + 1 > 65536)
        /\ ub - lb + 1 # 1 /\ ~(ub - lb + 1 < 256)
    BY DEF InRange
  <1>3. PutConstrainedWholeNumber(w, lb, ub, v) = PutBits(Align(w), v - lb, Width(lb, ub))
    BY <1>1, <1>2, SMT DEF PutConstrainedWholeNumber, Width
  <1>4. QED
    BY <1>1, <1>3 DEF PutBits

\* Width is enough.
LEMMA WidthIsEnough ==
    ASSUME NEW lb, NEW ub, NEW v, InRange(lb, ub, v)
    PROVE  Width(lb, ub) \in {8, 16} /\ Fits(v - lb, Width(lb, ub))
  <1>1. \A x \in Nat : (x < 256 => Fits(x, 8)) /\ (x < 65536 => Fits(x, 16))
    <2>1. 2^8 = 256 /\ 2^16 = 65536
      OBVIOUS
    <2>2. QED
      BY <2>1 DEF Fits
  <1>2. v - lb \in Nat /\ v - lb < 65536
    BY DEF InRange
  <1>3. CASE ub - lb + 1 = 256
    <2>1. Width(lb, ub) = 8 /\ v - lb < 256
      BY <1>3 DEF Width, InRange
    <2>2. QED
      BY <1>1, <1>2, <2>1
  <1>4. CASE ub - lb + 1 # 256
    <2>1. Width(lb, ub) = 16
      BY <1>4 DEF Width
    <2>2. QED
      BY <1>1, <1>2, <2>1
  <1>5. QED
    BY <1>3, <1>4

-----------------------------------------------------------------------------
(* What begins how *)

\* buf begins with the bits of w.
Starts(w, buf) ==
    /\ Len(w) <= Len(buf)
    /\ \A i \in 1..Len(w) : buf[i] = w[i]

\* What begins with two parts begins with the first, and the second stands behind.
LEMMA StartsOn ==
    ASSUME NEW w, Listed(w), NEW p, Listed(p), NEW buf, Listed(buf), Starts(w \o p, buf)
    PROVE  Starts(w, buf) /\ Stands(p, buf, Len(w))
  <1>1. /\ Len(w \o p) = Len(w) + Len(p) /\ Len(p) \in Nat /\ Len(w) \in Nat /\ Len(buf) \in Nat
        /\ \A i \in 1..Len(w) : (w \o p)[i] = w[i]
        /\ \A i \in 1..Len(p) : (w \o p)[Len(w) + i] = p[i]
    BY Joined, ListLength
  <1>2. \A i \in 1..Len(w) : i \in 1..Len(w \o p)
    BY <1>1
  <1>3. \A i \in 1..Len(p) : Len(w) + i \in 1..Len(w \o p)
    BY <1>1
  <1>4. Starts(w, buf)
    BY <1>1, <1>2 DEF Starts
  <1>5. Len(w) + Len(p) <= Len(buf)
    BY <1>1 DEF Starts
  <1>6. \A i \in 1..Len(p) : buf[Len(w) + i] = p[i]
    BY <1>1, <1>3 DEF Starts
  <1>7. QED
    BY <1>4, <1>5, <1>6 DEF Stands

\* A list begins with itself.
LEMMA StartsItself ==
    ASSUME NEW w, Listed(w)
    PROVE  Starts(w, w)
  BY ListLength DEF Starts

\* It still begins so when it goes on.
LEMMA StartsFurther ==
    ASSUME NEW w, Listed(w), NEW p, Listed(p)
    PROVE  Starts(w, w \o p)
  BY Joined, ListLength DEF Starts

\* What begins with the beginning of a buffer begins the buffer.
LEMMA StartsThrough ==
    ASSUME NEW u, Listed(u), NEW w, Listed(w), NEW buf, Listed(buf), Starts(u, w), Starts(w, buf)
    PROVE  Starts(u, buf)
  <1>1. Len(u) \in Nat /\ Len(w) \in Nat /\ Len(buf) \in Nat
    BY ListLength
  <1>2. \A i \in 1..Len(u) : i \in 1..Len(w)
    BY <1>1 DEF Starts
  <1>3. QED
    BY <1>1, <1>2 DEF Starts

-----------------------------------------------------------------------------

\* What was got last gives way to what is made of it.
LEMMA LastIs ==
    ASSUME NEW got, Listed(got), NEW v
    PROVE  LET g == Append(got, v)
           IN  /\ Listed(g) /\ Len(g) = Len(got) + 1 /\ Len(got) \in Nat /\ g[Len(g)] = v /\ Last(g) = v
               /\ \A i \in 1..Len(got) : g[i] = got[i]
               /\ SubSeq(g, 1, Len(g) - 1) = got
               /\ SubSeq(g, Len(g) - 1 + 1, Len(g)) = <<v>>
  <1> DEFINE g == Append(got, v)
  <1>1. g \in Seq(ToSet(got) \cup {v}) /\ Len(g) = Len(got) + 1 /\ Len(got) \in Nat
    BY DEF Listed
  <1>2. g[Len(got) + 1] = v /\ \A i \in 1..Len(got) : g[i] = got[i]
    BY DEF Listed
  <1> HIDE DEF g
  <1>3. Listed(g)
    BY <1>1, ListsAre
  <1>4. SubSeq(g, 1, Len(got)) = got
    <2> DEFINE s == SubSeq(g, 1, Len(got))
    <2>1. s \in Seq(ToSet(g)) /\ Len(s) = Len(got)
      BY <1>1, <1>3 DEF Listed
    <2>2. \A i \in 1..Len(got) : s[i] = g[i]
      BY <1>1, <1>3 DEF Listed
    <2> HIDE DEF s
    <2>3. Listed(s)
      BY <2>1, ListsAre
    <2>4. s = got
      BY <1>2, <2>1, <2>2, <2>3, SameList
    <2>5. QED
      BY <2>4 DEF s
  <1>5. SubSeq(g, Len(g), Len(g)) = <<v>>
    <2> DEFINE s == SubSeq(g, Len(g), Len(g))
    <2>1. s \in Seq(ToSet(g)) /\ Len(s) = 1
      BY <1>1, <1>3 DEF Listed
    <2>2. s[1] = v
      BY <1>1, <1>2, <1>3 DEF Listed
    <2> HIDE DEF s
    <2>3. Listed(s) /\ s[1] = <<v>>[1]
      BY <2>1, <2>2, ListsAre
    <2>4. <<v>> \in Seq({v}) /\ Len(<<v>>) = 1
      OBVIOUS
    <2>5. s = <<v>>
      <3>1. \A i \in 1..1 : i = 1
        OBVIOUS
      <3>2. QED
        BY <2>1, <2>3, <2>4, <3>1, ListsAre, SameList
    <2>6. QED
      BY <2>5 DEF s
  <1>6. Last(g) = v /\ Len(g) - 1 = Len(got) /\ Len(g) - 1 + 1 = Len(g) /\ g[Len(g)] = v
    BY <1>1, <1>2 DEF Last
  <1>7. QED
    BY <1>1, <1>2, <1>3, <1>4, <1>5, <1>6 DEF g

\* w2 goes on from w.
GoesOn(w, w2) == Listed(w2) /\ Starts(w, w2)

\* A list with a part behind goes on from the list.
LEMMA AppendGoesOn ==
    ASSUME NEW w, Listed(w), NEW p, Listed(p)
    PROVE  /\ GoesOn(w, w \o p) /\ Len(w \o p) = Len(w) + Len(p)
           /\ \A buf : Listed(buf) /\ Starts(w \o p, buf) => Starts(w, buf) /\ Stands(p, buf, Len(w))
  <1>1. Listed(w \o p) /\ Len(w \o p) = Len(w) + Len(p) /\ Starts(w, w \o p)
    BY Joined, StartsFurther
  <1>2. \A buf : Listed(buf) /\ Starts(w \o p, buf) => Starts(w, buf) /\ Stands(p, buf, Len(w))
    BY StartsOn
  <1>3. QED
    BY <1>1, <1>2 DEF GoesOn

\* To go on and on is to go on.
LEMMA GoesOnThrough ==
    ASSUME NEW u, Listed(u), NEW w, NEW z, GoesOn(u, w), GoesOn(w, z)
    PROVE  GoesOn(u, z) /\ \A buf : Listed(buf) /\ Starts(z, buf) => Starts(w, buf) /\ Starts(u, buf)
  <1>1. Listed(w) /\ Listed(z) /\ Starts(u, w) /\ Starts(w, z)
    BY DEF GoesOn
  <1>2. Starts(u, z)
    BY <1>1, StartsThrough
  <1>3. \A buf : Listed(buf) /\ Starts(z, buf) => Starts(w, buf) /\ Starts(u, buf)
    BY <1>1, <1>2, StartsThrough
  <1>4. QED
    BY <1>1, <1>2, <1>3 DEF GoesOn

\* An aligned list goes on from the list, and an aligned reader reads to its end.
LEMMA AlignGoesOn ==
    ASSUME NoneIsNoList, NEW w, Listed(w)
    PROVE  /\ GoesOn(w, Align(w))
           /\ \A buf : Listed(buf) /\ Starts(Align(w), buf) => Starts(w, buf)
           /\ \A buf, got : Listed(buf) /\ Starts(Align(w), buf) =>
                 AlignReader(At(buf, Len(w), got)) = At(buf, Len(Align(w)), got)
  <1>1. /\ Align(w) = w \o Bits(0, Padding(Len(w))) /\ Listed(Align(w))
        /\ Len(Align(w)) = Len(w) + Padding(Len(w)) /\ Len(w) \in Nat
    BY PaddingIsWritten, ListLength
  <1>2. Listed(Bits(0, Padding(Len(w))))
    <2>1. Padding(Len(w)) \in 0..28
      <3>1. Padding(Len(w)) \in 0..7
        BY <1>1, PaddingIs
      <3>2. QED
        BY <3>1
    <2>2. QED
      BY <2>1, BitsListed
  <1>3. /\ GoesOn(w, Align(w))
        /\ \A buf : Listed(buf) /\ Starts(Align(w), buf) => Starts(w, buf)
    BY <1>1, <1>2, AppendGoesOn, Zenon
  <1>4. ASSUME NEW buf, NEW got, Listed(buf), Starts(Align(w), buf)
        PROVE  AlignReader(At(buf, Len(w), got)) = At(buf, Len(Align(w)), got)
    <2>1. Len(w) + Padding(Len(w)) <= Len(buf)
      BY <1>1, <1>4 DEF Starts
    <2>2. QED
      BY <1>1, <1>4, <2>1, PaddingIsRead
  <1>5. QED
    BY <1>3, <1>4

\* Bits that are written are read.
LEMMA BitsPass ==
    ASSUME NEW w, Listed(w), NEW n, NEW v, Fits(v, n)
    PROVE  /\ GoesOn(w, w \o Bits(v, n)) /\ Len(w \o Bits(v, n)) = Len(w) + n
           /\ \A buf : Listed(buf) /\ Starts(w \o Bits(v, n), buf) => Starts(w, buf)
           /\ \A buf, got : Listed(buf) /\ Starts(w \o Bits(v, n), buf) =>
                 GetBits(At(buf, Len(w), got), n) = At(buf, Len(w \o Bits(v, n)), Append(got, v))
  <1>1. Listed(Bits(v, n)) /\ Len(Bits(v, n)) = n
    BY BitsListed DEF Fits
  <1>2. /\ GoesOn(w, w \o Bits(v, n)) /\ Len(w \o Bits(v, n)) = Len(w) + n
        /\ \A buf : Listed(buf) /\ Starts(w \o Bits(v, n), buf) => Starts(w, buf) /\ Stands(Bits(v, n), buf, Len(w))
    BY <1>1, AppendGoesOn
  <1>3. Len(w) \in Nat
    BY ListLength
  <1>4. ASSUME NEW buf, NEW got, Listed(buf), Starts(w \o Bits(v, n), buf)
        PROVE  GetBits(At(buf, Len(w), got), n) = At(buf, Len(w \o Bits(v, n)), Append(got, v))
    <2>1. Stands(Bits(v, n), buf, Len(w))
      BY <1>2, <1>4
    <2>2. GetBits(At(buf, Len(w), got), n) = At(buf, Len(w) + n, Append(got, v))
      BY <1>3, <1>4, <2>1, BitsAreRead
    <2>3. QED
      BY <1>2, <2>2
  <1>5. QED
    BY <1>2, <1>4

\* The lower bound is added to what was read last.
LEMMA OffsetIs ==
    ASSUME NEW buf, NEW at, NEW got, Listed(got), NEW x, NEW lb
    PROVE  Offset(At(buf, at, Append(got, x)), lb) = At(buf, at, Append(got, x + lb))
  <1> DEFINE g == Append(got, x)
  <1>1. SubSeq(g, 1, Len(g) - 1) = got /\ SubSeq(g, Len(g) - 1 + 1, Len(g)) = <<x>>
    BY LastIs
  <1> HIDE DEF g
  <1>2. <<x>>[1] = x
    OBVIOUS
  <1>3. Offset(At(buf, at, g), lb) = At(buf, at, Append(got, x + lb))
    BY <1>1, <1>2 DEF Offset, Combine, At
  <1>4. QED
    BY <1>3 DEF g

\* One of three alternatives that is written is read.
LEMMA SmallPasses ==
    ASSUME NoneIsNoList, NEW w, Listed(w), NEW v \in 0..2
    PROVE  LET w2 == PutConstrainedWholeNumber(w, 0, 2, v)
           IN  /\ GoesOn(w, w2) /\ Len(w2) = Len(w) + 2
               /\ \A buf : Listed(buf) /\ Starts(w2, buf) => Starts(w, buf)
               /\ \A buf, got : Listed(buf) /\ Listed(got) /\ Starts(w2, buf) =>
                     GetConstrainedWholeNumber(At(buf, Len(w), got), 0, 2) = At(buf, Len(w2), Append(got, v))
  <1> DEFINE w2 == w \o Bits(v, 2)
  <1>1. PutConstrainedWholeNumber(w, 0, 2, v) = w2
    BY SmallIsWritten
  <1>2. /\ GoesOn(w, w2) /\ Len(w2) = Len(w) + 2
        /\ \A buf : Listed(buf) /\ Starts(w2, buf) => Starts(w, buf)
        /\ \A buf, got : Listed(buf) /\ Starts(w2, buf) =>
              GetBits(At(buf, Len(w), got), 2) = At(buf, Len(w2), Append(got, v))
    <2>1. Fits(v, 2)
      BY DEF Fits
    <2> HIDE DEF w2
    <2>2. QED
      BY <2>1, BitsPass, Zenon DEF w2
  <1> HIDE DEF w2
  <1>3. ASSUME NEW buf, NEW got, Listed(buf), Listed(got), Starts(w2, buf)
        PROVE  GetConstrainedWholeNumber(At(buf, Len(w), got), 0, 2) = At(buf, Len(w2), Append(got, v))
    <2>1. GetBits(At(buf, Len(w), got), BitsFor(3)) = At(buf, Len(w2), Append(got, v))
      BY <1>2, <1>3, BitsForThree
    <2>2. 2 - 0 + 1 = 3 /\ ~(3 > 65536) /\ 3 # 1 /\ 3 < 256 /\ v + 0 = v
      OBVIOUS
    <2>3. Offset(At(buf, Len(w2), Append(got, v)), 0) = At(buf, Len(w2), Append(got, v + 0))
      BY <1>3, OffsetIs
    <2>4. QED
      BY <2>1, <2>2, <2>3 DEF GetConstrainedWholeNumber
  <1>4. QED
    BY <1>1, <1>2, <1>3
\* One of two alternatives that is written is read.
LEMMA BitPasses ==
    ASSUME NoneIsNoList, NEW w, Listed(w), NEW v \in 0..1
    PROVE  LET w2 == PutConstrainedWholeNumber(w, 0, 1, v)
           IN  /\ GoesOn(w, w2) /\ Len(w2) = Len(w) + 1
               /\ \A buf : Listed(buf) /\ Starts(w2, buf) => Starts(w, buf)
               /\ \A buf, got : Listed(buf) /\ Listed(got) /\ Starts(w2, buf) =>
                     GetConstrainedWholeNumber(At(buf, Len(w), got), 0, 1) = At(buf, Len(w2), Append(got, v))
  <1> DEFINE w2 == w \o Bits(v, 1)
  <1>1. PutConstrainedWholeNumber(w, 0, 1, v) = w2
    BY BitIsWritten
  <1>2. /\ GoesOn(w, w2) /\ Len(w2) = Len(w) + 1
        /\ \A buf : Listed(buf) /\ Starts(w2, buf) => Starts(w, buf)
        /\ \A buf, got : Listed(buf) /\ Starts(w2, buf) =>
              GetBits(At(buf, Len(w), got), 1) = At(buf, Len(w2), Append(got, v))
    <2>1. Fits(v, 1)
      BY DEF Fits
    <2> HIDE DEF w2
    <2>2. QED
      BY <2>1, BitsPass, Zenon DEF w2
  <1> HIDE DEF w2
  <1>3. ASSUME NEW buf, NEW got, Listed(buf), Listed(got), Starts(w2, buf)
        PROVE  GetConstrainedWholeNumber(At(buf, Len(w), got), 0, 1) = At(buf, Len(w2), Append(got, v))
    <2>1. GetBits(At(buf, Len(w), got), BitsFor(2)) = At(buf, Len(w2), Append(got, v))
      BY <1>2, <1>3, BitsForTwo
    <2>2. 1 - 0 + 1 = 2 /\ ~(2 > 65536) /\ 2 # 1 /\ 2 < 256 /\ v + 0 = v
      OBVIOUS
    <2>3. Offset(At(buf, Len(w2), Append(got, v)), 0) = At(buf, Len(w2), Append(got, v + 0))
      BY <1>3, OffsetIs
    <2>4. QED
      BY <2>1, <2>2, <2>3 DEF GetConstrainedWholeNumber
  <1>4. QED
    BY <1>1, <1>2, <1>3

\* A number from a large range that is written is read.
LEMMA LargePasses ==
    ASSUME NoneIsNoList, NEW w, Listed(w), NEW lb, NEW ub, NEW v, InRange(lb, ub, v)
    PROVE  LET w2 == PutConstrainedWholeNumber(w, lb, ub, v)
           IN  /\ GoesOn(w, w2) /\ Len(w2) = Len(Align(w)) + Width(lb, ub)
               /\ \A buf : Listed(buf) /\ Starts(w2, buf) => Starts(w, buf)
               /\ \A buf, got : Listed(buf) /\ Listed(got) /\ Starts(w2, buf) =>
                     GetConstrainedWholeNumber(At(buf, Len(w), got), lb, ub) = At(buf, Len(w2), Append(got, v))
  <1> DEFINE n == Width(lb, ub)
             a == Align(w)
             w2 == a \o Bits(v - lb, n)
  <1>1. PutConstrainedWholeNumber(w, lb, ub, v) = w2
    BY LargeIsWritten
  <1>2. Fits(v - lb, n)
    BY WidthIsEnough
  <1>3. /\ GoesOn(w, a)
        /\ \A buf : Listed(buf) /\ Starts(a, buf) => Starts(w, buf)
        /\ \A buf, got : Listed(buf) /\ Starts(a, buf) =>
              AlignReader(At(buf, Len(w), got)) = At(buf, Len(a), got)
    BY AlignGoesOn
  <1> HIDE DEF n, a
  <1>4. Listed(a)
    BY <1>3 DEF GoesOn
  <1>5. /\ GoesOn(a, w2) /\ Len(w2) = Len(a) + n
        /\ \A buf : Listed(buf) /\ Starts(w2, buf) => Starts(a, buf)
        /\ \A buf, got : Listed(buf) /\ Starts(w2, buf) =>
              GetBits(At(buf, Len(a), got), n) = At(buf, Len(w2), Append(got, v - lb))
    BY <1>2, <1>4, BitsPass
  <1> HIDE DEF w2
  <1>6. GoesOn(w, w2) /\ \A buf : Listed(buf) /\ Starts(w2, buf) => Starts(w, buf)
    BY <1>3, <1>5, GoesOnThrough
  <1>7. ASSUME NEW buf, NEW got, Listed(buf), Listed(got), Starts(w2, buf)
        PROVE  GetConstrainedWholeNumber(At(buf, Len(w), got), lb, ub) = At(buf, Len(w2), Append(got, v))
    <2>1. GetBits(AlignReader(At(buf, Len(w), got)), n) = At(buf, Len(w2), Append(got, v - lb))
      <3>1. Starts(a, buf)
        BY <1>5, <1>7
      <3>2. AlignReader(At(buf, Len(w), got)) = At(buf, Len(a), got)
        BY <1>3, <1>7, <3>1
      <3>3. GetBits(At(buf, Len(a), got), n) = At(buf, Len(w2), Append(got, v - lb))
        BY <1>5, <1>7
      <3>4. QED
        BY <3>2, <3>3
    <2>2. ~(ub - lb + 1 > 65536) /\ ub - lb + 1 # 1 /\ ~(ub - lb + 1 < 256) /\ (v - lb) + lb = v
      BY DEF InRange
    <2>3. Offset(At(buf, Len(w2), Append(got, v - lb)), lb) = At(buf, Len(w2), Append(got, (v - lb) + lb))
      BY <1>7, OffsetIs
    <2>4. GetConstrainedWholeNumber(At(buf, Len(w), got), lb, ub) = Offset(GetBits(AlignReader(At(buf, Len(w), got)), n), lb)
      BY <2>2, SMT DEF GetConstrainedWholeNumber, n, Width
    <2>5. QED
      BY <2>1, <2>2, <2>3, <2>4
  <1>8. QED
    BY <1>1, <1>5, <1>6, <1>7 DEF n, a

\* Octets of a two-octet number: the first eight of its bits.
LEMMA HighBits ==
    ASSUME NEW x \in Nat
    PROVE  Starts(Bits(x \div 256, 8), Bits(x, 16))
  <1> DEFINE p == Bits(x \div 256, 8)
             q == Bits(x, 16)
             Same(i) == x \div 2^(16 - i) = (x \div 256) \div 2^(8 - i)
  <1>1. Len(p) = 8 /\ Len(q) = 16
    <2>0. 16 \in 0..28 /\ 8 \in 0..28 /\ x \div 256 \in Nat
      OBVIOUS
    <2>1. Len(Bits(x, 16)) = 16
      BY <2>0, BitsListed, Zenon
    <2>2. Len(Bits(x \div 256, 8)) = 8
      BY <2>0, BitsListed, Zenon
    <2>3. QED
      BY <2>1, <2>2
  <1>2. \A i \in 1..16 : q[i] = (x \div 2^(16 - i)) % 2
    BY DEF Bits
  <1>3. \A i \in 1..8 : p[i] = ((x \div 256) \div 2^(8 - i)) % 2
    BY DEF Bits
  <1> HIDE DEF p, q
  <1>4. \A i \in 1..8 : Same(i)
    <2>1. \A i : i = 1 => Same(i) OBVIOUS
    <2>2. \A i : i = 2 => Same(i) OBVIOUS
    <2>3. \A i : i = 3 => Same(i) OBVIOUS
    <2>4. \A i : i = 4 => Same(i) OBVIOUS
    <2>5. \A i : i = 5 => Same(i) OBVIOUS
    <2>6. \A i : i = 6 => Same(i) OBVIOUS
    <2>7. \A i : i = 7 => Same(i) OBVIOUS
    <2>8. \A i : i = 8 => Same(i) OBVIOUS
    <2> HIDE DEF Same
    <2>9. QED
      BY <2>1, <2>2, <2>3, <2>4, <2>5, <2>6, <2>7, <2>8
  <1>5. ASSUME NEW i \in 1..8 PROVE q[i] = p[i]
    <2>1. i \in 1..16
      OBVIOUS
    <2>2. q[i] = (x \div 2^(16 - i)) % 2
      BY <1>2, <2>1
    <2>3. p[i] = ((x \div 256) \div 2^(8 - i)) % 2
      BY <1>3
    <2>4. Same(i)
      <3> HIDE DEF Same
      <3>1. QED
        BY <1>4
    <2>5. QED
      BY <2>2, <2>3, <2>4, Zenon
  <1>6. Starts(p, q)
    BY <1>1, <1>5 DEF Starts
  <1>7. QED
    BY <1>6 DEF p, q

\* A value that can go into an open type.
Contained(c) == Listed(c) /\ Len(c) % 8 = 0 /\ Len(Filled(c)) \div 8 <= 16383

\* Its length in octets.
OctetCount(c) == Len(Filled(c)) \div 8

\* The octets of a content, filled up, are as many as are counted.
LEMMA FilledIs ==
    ASSUME NEW c, Contained(c)
    PROVE  /\ Listed(Filled(c)) /\ OctetCount(c) \in Nat /\ Len(Filled(c)) = 8 * OctetCount(c)
           /\ OctetCount(c) >= 1 /\ OctetCount(c) <= 16383
  <1>1. Listed(Filled(c)) /\ Len(Filled(c)) % 8 = 0 /\ Len(Filled(c)) > 0 /\ Len(Filled(c)) \in Nat
    <2>1. CASE c = <<>>
      <3> DEFINE b == Bits(0, 8)
      <3>1. Listed(b) /\ Len(b) = 8
        <4>1. 8 \in 0..28 /\ 0 \in Nat
          OBVIOUS
        <4>2. QED
          BY <4>1, BitsListed, Zenon
      <3> HIDE DEF b
      <3>2. Filled(c) = b
        BY <2>1 DEF Filled, b
      <3>3. \A n : n = 8 => n % 8 = 0 /\ n > 0 /\ n \in Nat
        OBVIOUS
      <3>4. QED
        BY <3>1, <3>2, <3>3, Zenon
    <2>2. CASE c # <<>>
      <3>1. Filled(c) = c /\ Listed(c) /\ Len(c) % 8 = 0
        BY <2>2 DEF Filled, Contained
      <3>2. Len(c) # 0 /\ Len(c) \in Nat
        <4>1. Len(c) \in Nat /\ DOMAIN c = 1..Len(c) /\ c \in Seq(ToSet(c))
          BY <3>1, ListLength DEF Listed
        <4>2. Len(c) = 0 => c = <<>>
          BY <4>1
        <4>3. QED
          BY <2>2, <4>1, <4>2
      <3>3. QED
        BY <3>1, <3>2
    <2>3. QED
      BY <2>1, <2>2
  <1>2. OctetCount(c) <= 16383
    BY DEF Contained, OctetCount
  <1>3. QED
    BY <1>1, <1>2 DEF OctetCount

\* The octets of a length.
LEMMA LengthIs ==
    ASSUME NEW n \in Nat, n <= 16383
    PROVE  /\ Listed(Length(n)) /\ Len(Length(n)) = IF n <= 127 THEN 8 ELSE 16
           /\ n <= 127 => Length(n) = Bits(n, 8) /\ Fits(n, 8)
           /\ n > 127 => Length(n) = Bits(n + 32768, 16) /\ Fits(n + 32768, 16)
  <1>1. \A x \in Nat : (x < 256 => Fits(x, 8)) /\ (x < 65536 => Fits(x, 16))
    <2>1. 2^8 = 256 /\ 2^16 = 65536
      OBVIOUS
    <2>2. QED
      BY <2>1 DEF Fits
  <1>2. \A x \in Nat : /\ Listed(Bits(x, 8)) /\ Len(Bits(x, 8)) = 8
                       /\ Listed(Bits(x, 16)) /\ Len(Bits(x, 16)) = 16
    <2>1. 8 \in 0..28 /\ 16 \in 0..28
      OBVIOUS
    <2>2. \A x \in Nat : Listed(Bits(x, 8)) /\ Len(Bits(x, 8)) = 8
      BY <2>1, BitsListed
    <2>3. \A x \in Nat : Listed(Bits(x, 16)) /\ Len(Bits(x, 16)) = 16
      BY <2>1, BitsListed
    <2>4. QED
      BY <2>2, <2>3
  <1>3. CASE n <= 127
    <2>1. Length(n) = Bits(n, 8)
      BY <1>3 DEF Length
    <2>2. Fits(n, 8) /\ ~(n > 127)
      BY <1>1, <1>3
    <2>3. Listed(Length(n)) /\ Len(Length(n)) = 8
      BY <1>2, <2>1
    <2>4. QED
      BY <1>3, <2>1, <2>2, <2>3
  <1>4. CASE ~(n <= 127)
    <2>1. Length(n) = Bits(n + 32768, 16)
      BY <1>4 DEF Length
    <2>2. n + 32768 \in Nat /\ n + 32768 < 65536
      OBVIOUS
    <2>3. Fits(n + 32768, 16)
      BY <1>1, <2>2
    <2>4. Listed(Length(n)) /\ Len(Length(n)) = 16
      BY <1>2, <2>1, <2>2
    <2>5. QED
      BY <1>4, <2>1, <2>3, <2>4
  <1>5. QED
    BY <1>3, <1>4

\* An open type is its length and its octets, from an octet boundary.
LEMMA OpenTypeIsWritten ==
    ASSUME NoneIsNoList, NEW w, Listed(w), NEW c, Contained(c)
    PROVE  PutOpenType(w, c) = (Align(w) \o Length(OctetCount(c))) \o Filled(c)
  <1>1. w # None /\ c # None
    BY DEF NoneIsNoList, Contained
  <1>2. ~(OctetCount(c) > 16383)
    BY FilledIs
  <1>3. QED
    BY <1>1, <1>2 DEF PutOpenType, OctetCount
\* A number that is ahead.
LEMMA NumberAhead ==
    ASSUME NEW buf, Listed(buf), NEW at \in Nat, NEW got, NEW n, NEW v, Fits(v, n), Stands(Bits(v, n), buf, at)
    PROVE  /\ Has(At(buf, at, got), n) /\ Number(Ahead(At(buf, at, got), n)) = v
           /\ Skip(At(buf, at, got), n) = At(buf, at + n, got)
  <1> DEFINE p == Bits(v, n)
  <1>1. Listed(p) /\ Len(p) = n /\ Number(p) = v
    BY BitsListed, NumberOfBits DEF Fits
  <1> HIDE DEF p
  <1>2. Stands(p, buf, at)
    BY DEF p
  <1>3. Has(At(buf, at, got), Len(p)) /\ Ahead(At(buf, at, got), Len(p)) = p
    BY <1>1, <1>2, AheadIs
  <1>4. Has(At(buf, at, got), n) /\ Ahead(At(buf, at, got), n) = p
    BY <1>1, <1>3
  <1>5. Skip(At(buf, at, got), n) = At(buf, at + n, got)
    BY <1>4 DEF Skip, At
  <1>6. QED
    BY <1>1, <1>4, <1>5

\* The first octet of a length in two.
LEMMA HighOctetAhead ==
    ASSUME NEW buf, Listed(buf), NEW at \in Nat, NEW got, NEW v, Fits(v, 16), Stands(Bits(v \div 256, 8), buf, at)
    PROVE  /\ Has(At(buf, at, got), 8) /\ Number(Ahead(At(buf, at, got), 8)) = v \div 256
  <1>1. v \in Nat /\ v < 65536
    <2>1. 2^16 = 65536
      OBVIOUS
    <2>2. QED
      BY <2>1 DEF Fits
  <1>2. Fits(v \div 256, 8)
    <2>1. 2^8 = 256
      OBVIOUS
    <2>2. v \div 256 \in Nat /\ v \div 256 < 256
      BY <1>1
    <2>3. QED
      BY <2>1, <2>2 DEF Fits
  <1>3. QED
    BY <1>2, NumberAhead

\* What a list begins with stands where the list does.
LEMMA FirstStands ==
    ASSUME NEW p, Listed(p), NEW q, Listed(q), Starts(q, p), NEW buf, Listed(buf), NEW at \in Nat, Stands(p, buf, at)
    PROVE  Stands(q, buf, at)
  <1>1. Len(p) \in Nat /\ Len(q) \in Nat /\ Len(buf) \in Nat
    BY ListLength
  <1>2. at + Len(q) <= Len(buf) /\ \A i \in 1..Len(q) : i \in 1..Len(p)
    BY <1>1 DEF Stands, Starts
  <1>3. \A i \in 1..Len(q) : buf[at + i] = p[i] /\ p[i] = q[i]
    BY <1>2 DEF Stands, Starts
  <1>4. QED
    BY <1>2, <1>3 DEF Stands

\* A length of n octets is read, and the content behind it is got.
LEMMA ContentIsRead ==
    ASSUME NEW buf, Listed(buf), NEW at \in Nat, at % 8 = 0, NEW got, NEW n \in Nat, n <= 16383,
           Stands(Length(n), buf, at)
    PROVE  GetContent(At(buf, at, got)) = ReadOctets(At(buf, at + Len(Length(n)), got), n)
  <1> DEFINE r == At(buf, at, got)
  <1>1. CASE n <= 127
    <2>1. Length(n) = Bits(n, 8) /\ Fits(n, 8) /\ Len(Length(n)) = 8
      BY <1>1, LengthIs
    <2>2. Stands(Bits(n, 8), buf, at)
      BY <2>1
    <2>3. Has(r, 8) /\ Number(Ahead(r, 8)) = n /\ Skip(r, 8) = At(buf, at + 8, got)
      BY <2>1, <2>2, NumberAhead
    <2>4. n < 128
      BY <1>1
    <2> HIDE DEF r
    <2>5. GetContent(r) = ReadOctets(Skip(r, 8), n)
      BY <2>3, <2>4 DEF GetContent
    <2>10. Len(Length(n)) = 8
      BY <2>1
    <2>11. at + Len(Length(n)) = at + 8
      BY <2>10
    <2>6. ReadOctets(Skip(r, 8), n) = ReadOctets(At(buf, at + Len(Length(n)), got), n)
      BY <2>3, <2>11
    <2>7. QED
      BY <2>5, <2>6 DEF r
  <1>2. CASE ~(n <= 127)
    <2> DEFINE x == n + 32768
    <2>1. Length(n) = Bits(x, 16) /\ Fits(x, 16) /\ Len(Length(n)) = 16 /\ Listed(Length(n)) /\ x \in Nat
      BY <1>2, LengthIs
    <2>2. Stands(Bits(x, 16), buf, at)
      BY <2>1
    <2>3. Stands(Bits(x \div 256, 8), buf, at)
      <3> DEFINE p == Bits(x, 16)
                 q == Bits(x \div 256, 8)
      <3>1. Listed(p) /\ Len(p) = 16 /\ Starts(q, p) /\ Stands(p, buf, at)
        BY <2>1, <2>2, HighBits
      <3>2. Listed(q) /\ Len(q) = 8
        <4>1. 8 \in 0..28 /\ x \div 256 \in Nat
          BY <2>1
        <4>2. QED
          BY <4>1, BitsListed
      <3> HIDE DEF p, q
      <3>5. Stands(q, buf, at)
        BY <3>1, <3>2, FirstStands
      <3>6. QED
        BY <3>5 DEF q
    <2>4. Has(r, 8) /\ Number(Ahead(r, 8)) = x \div 256
      BY <2>1, <2>3, HighOctetAhead
    <2>5. Has(r, 16) /\ Number(Ahead(r, 16)) = x /\ Skip(r, 16) = At(buf, at + 16, got)
      BY <2>1, <2>2, NumberAhead
    <2>6. ~(x \div 256 < 128) /\ x \div 256 < 192 /\ x - 32768 = n
      BY <1>2
    <2> HIDE DEF r, x
    <2>7. GetContent(r) = ReadOctets(Skip(r, 16), n)
      BY <2>4, <2>5, <2>6 DEF GetContent
    <2>10. Len(Length(n)) = 16
      BY <2>1
    <2>11. at + Len(Length(n)) = at + 16
      BY <2>10
    <2>8. ReadOctets(Skip(r, 16), n) = ReadOctets(At(buf, at + Len(Length(n)), got), n)
      BY <2>5, <2>11
    <2>9. QED
      BY <2>7, <2>8 DEF r
  <1>3. QED
    BY <1>1, <1>2
\* An open type that is written is read.
LEMMA OpenTypePasses ==
    ASSUME NoneIsNoList, NEW w, Listed(w), NEW c, Contained(c)
    PROVE  LET w2 == PutOpenType(w, c)
           IN  /\ GoesOn(w, w2) /\ Len(w2) % 8 = 0
               /\ Len(w2) = Len(Align(w)) + Len(Length(OctetCount(c))) + 8 * OctetCount(c)
               /\ \A buf : Listed(buf) /\ Starts(w2, buf) => Starts(w, buf)
               /\ \A buf, got : Listed(buf) /\ Listed(got) /\ Starts(w2, buf) =>
                     GetOpenType(At(buf, Len(w), got)) = At(buf, Len(w2), Append(got, Filled(c)))
  <1> DEFINE n == OctetCount(c)
             f == Filled(c)
             a == Align(w)
             l == Length(n)
             b == a \o l
             w2 == b \o f
  <1>1. PutOpenType(w, c) = w2
    BY OpenTypeIsWritten
  <1>2. Listed(f) /\ n \in Nat /\ Len(f) = 8 * n /\ n <= 16383
    BY FilledIs
  <1>3. /\ GoesOn(w, a)
        /\ \A buf : Listed(buf) /\ Starts(a, buf) => Starts(w, buf)
        /\ \A buf, got : Listed(buf) /\ Starts(a, buf) =>
              AlignReader(At(buf, Len(w), got)) = At(buf, Len(a), got)
    BY AlignGoesOn
  <1>4. Listed(a) /\ Len(a) % 8 = 0 /\ Len(a) \in Nat
    BY PaddingIsWritten, ListLength
  <1> HIDE DEF n, f, a
  <1>5. Listed(l) /\ Len(l) = IF n <= 127 THEN 8 ELSE 16
    BY <1>2, LengthIs
  <1>6. Len(l) \in Nat /\ Len(l) % 8 = 0
    <2> HIDE DEF l
    <2>1. Len(l) = 8 \/ Len(l) = 16
      BY <1>5
    <2>2. \A k : k = 8 \/ k = 16 => k \in Nat /\ k % 8 = 0
      OBVIOUS
    <2>3. QED
      BY <2>1, <2>2, Zenon
  <1> HIDE DEF l
  <1>7. /\ GoesOn(a, b) /\ Len(b) = Len(a) + Len(l)
        /\ \A buf : Listed(buf) /\ Starts(b, buf) => Starts(a, buf) /\ Stands(l, buf, Len(a))
    BY <1>4, <1>5, AppendGoesOn
  <1>8. Listed(b) /\ Len(b) \in Nat /\ Len(b) % 8 = 0
    BY <1>4, <1>6, <1>7 DEF GoesOn
  <1> HIDE DEF b
  <1>9. /\ GoesOn(b, w2) /\ Len(w2) = Len(b) + Len(f)
        /\ \A buf : Listed(buf) /\ Starts(w2, buf) => Starts(b, buf) /\ Stands(f, buf, Len(b))
    BY <1>2, <1>8, AppendGoesOn
  <1> HIDE DEF w2
  <1>10. GoesOn(w, b)
    BY <1>3, <1>7, GoesOnThrough
  <1>11. GoesOn(w, w2) /\ \A buf : Listed(buf) /\ Starts(w2, buf) => Starts(w, buf)
    BY <1>9, <1>10, GoesOnThrough
  <1>12. Len(w2) % 8 = 0 /\ Len(w2) = Len(a) + Len(l) + 8 * n /\ Len(w2) = Len(b) + 8 * n
    BY <1>2, <1>4, <1>6, <1>7, <1>8, <1>9
  <1>13. ASSUME NEW buf, NEW got, Listed(buf), Listed(got), Starts(w2, buf)
         PROVE  GetOpenType(At(buf, Len(w), got)) = At(buf, Len(w2), Append(got, f))
    <2>1. Starts(b, buf) /\ Stands(f, buf, Len(b)) /\ Starts(a, buf) /\ Stands(l, buf, Len(a))
      BY <1>7, <1>9, <1>13
    <2>2. AlignReader(At(buf, Len(w), got)) = At(buf, Len(a), got)
      BY <1>3, <1>13, <2>1
    <2>3. GetContent(At(buf, Len(a), got)) = ReadOctets(At(buf, Len(a) + Len(l), got), n)
      BY <1>2, <1>4, <1>13, <2>1, ContentIsRead DEF l
    <2>4. ReadOctets(At(buf, Len(b), got), n) = At(buf, Len(b) + 8 * n, Append(got, f))
      <3>1. Aligned(Len(b)) /\ OfOctets(f, n)
        BY <1>2, <1>8 DEF Aligned, OfOctets
      <3>2. QED
        BY <1>13, <2>1, <3>1, OctetsAreRead
    <2>5. QED
      BY <1>7, <1>12, <2>2, <2>3, <2>4, Zenon DEF GetOpenType
  <1>14. QED
    BY <1>1, <1>11, <1>12, <1>13 DEF n, f, a, l

-----------------------------------------------------------------------------
(* Reading what is cut short *)

\* A reader that has failed.
Failed(q) == "ok" \in DOMAIN q /\ q.ok = FALSE

\* A reader that fails has failed.
LEMMA FailFails ==
    ASSUME NEW q, "ok" \in DOMAIN q
    PROVE  Failed(Fail(q))
  BY DEF Failed, Fail

\* A reader anywhere can fail.
LEMMA AtHasOk ==
    ASSUME NEW buf, NEW at, NEW got
    PROVE  "ok" \in DOMAIN At(buf, at, got) /\ Failed(Fail(At(buf, at, got)))
  <1>1. "ok" \in DOMAIN At(buf, at, got)
    BY DEF At
  <1>2. QED
    BY <1>1, FailFails

\* A reader that has failed stays so.
LEMMA FailureStays ==
    ASSUME NEW q, Failed(q), NEW n, NEW lb, NEW ub
    PROVE  /\ ~q.ok /\ Failed(Fail(q)) /\ Failed(Skip(q, n)) /\ Failed(GetBits(q, n)) /\ Failed(GetZero(q))
           /\ Failed(Offset(q, lb)) /\ Failed(AlignReader(q))
           /\ Failed(GetContent(q)) /\ Failed(GetOpenType(q))
           /\ Failed(GetConstrainedWholeNumber(q, lb, ub))
  <1>1. ASSUME NEW r, Failed(r), NEW k
        PROVE  ~r.ok /\ ~Has(r, k) /\ Failed(Fail(r)) /\ Failed(Skip(r, k)) /\ Failed(GetBits(r, k)) /\ Failed(Take(r, k, lb))
    <2>2. ~r.ok /\ ~Has(r, k)
      BY <1>1 DEF Failed, Has
    <2>3. Failed(Fail(r))
      BY <1>1, FailFails DEF Failed
    <2>4. Failed(Take(r, k, lb))
      BY <1>1 DEF Failed, Take
    <2>5. QED
      BY <2>2, <2>3, <2>4 DEF Skip, GetBits
  <1>2. Failed(GetZero(q))
    BY <1>1 DEF GetZero
  <1>3. \A r : Failed(r) => Failed(Offset(r, lb)) /\ Failed(AlignReader(r))
    BY <1>1 DEF Offset, Combine, AlignReader
  <1>4. \A r : Failed(r) => Failed(GetContent(r))
    BY <1>1 DEF GetContent
  <1>5. Failed(GetOpenType(q))
    BY <1>3, <1>4 DEF GetOpenType
  <1>6. Failed(GetConstrainedWholeNumber(q, lb, ub))
    <2> DEFINE range == ub - lb + 1
               k == IF range = 256 THEN 8 ELSE 16
    <2>1. Failed(Fail(q)) /\ Failed(Take(q, 0, lb))
      BY <1>1
    <2>2. Failed(Offset(GetBits(q, BitsFor(range)), lb))
      BY <1>1, <1>3
    <2>3. Failed(Offset(GetBits(AlignReader(q), k), lb))
      <3> HIDE DEF k
      <3>1. Failed(GetBits(AlignReader(q), k))
        BY <1>1, <1>3
      <3>2. QED
        BY <1>3, <3>1
    <2>4. GetConstrainedWholeNumber(q, lb, ub) \in
            {Fail(q), Take(q, 0, lb), Offset(GetBits(q, BitsFor(range)), lb), Offset(GetBits(AlignReader(q), k), lb)}
      BY DEF GetConstrainedWholeNumber
    <2> HIDE DEF range, k
    <2>5. QED
      BY <2>1, <2>2, <2>3, <2>4
  <1>7. QED
    BY <1>1, <1>2, <1>3, <1>4, <1>5, <1>6

\* Too few bits are left.
LEMMA TooShort ==
    ASSUME NEW buf, NEW at, NEW got, NEW n, ~(at + n <= Len(buf))
    PROVE  /\ ~Has(At(buf, at, got), n)
           /\ Failed(GetBits(At(buf, at, got), n)) /\ Failed(Skip(At(buf, at, got), n))
  <1>1. ~Has(At(buf, at, got), n)
    BY DEF Has, At
  <1>2. QED
    BY <1>1, AtHasOk DEF GetBits, Skip

\* What a longer list begins with, a shorter beginning of it does too.
LEMMA BothStart ==
    ASSUME NEW u, Listed(u), NEW buf, Listed(buf), NEW e, Listed(e), Starts(u, e), Starts(buf, e),
           Len(u) <= Len(buf)
    PROVE  Starts(u, buf)
  <1>1. Len(u) \in Nat /\ Len(buf) \in Nat /\ \A i \in 1..Len(u) : i \in 1..Len(buf)
    BY ListLength
  <1>2. \A i \in 1..Len(u) : e[i] = u[i] /\ e[i] = buf[i]
    BY <1>1 DEF Starts
  <1>3. \A i \in 1..Len(u) : buf[i] = u[i]
    BY <1>2
  <1>4. QED
    BY <1>3 DEF Starts

\* buf is e without some of its last octets.
Cut(buf, e) == Listed(buf) /\ Starts(buf, e) /\ Len(buf) % 8 = 0 /\ Len(buf) < Len(e)

\* An open type that is cut short is not read.
LEMMA OpenTypeCut ==
    ASSUME NoneIsNoList, NEW w, Listed(w), NEW c, Contained(c), NEW buf, NEW got,
           Cut(buf, PutOpenType(w, c)), Len(Align(w)) <= Len(buf)
    PROVE  Failed(GetOpenType(At(buf, Len(w), got)))
  <1> DEFINE n == OctetCount(c)
             f == Filled(c)
             a == Align(w)
             l == Length(n)
             b == a \o l
             w2 == b \o f
  <1>0. Listed(buf)
    BY DEF Cut
  <1>1. PutOpenType(w, c) = w2
    BY OpenTypeIsWritten
  <1>2. Listed(f) /\ n \in Nat /\ Len(f) = 8 * n /\ n <= 16383
    BY FilledIs
  <1>3. /\ GoesOn(w, a)
        /\ \A g : Starts(a, buf) => AlignReader(At(buf, Len(w), g)) = At(buf, Len(a), g)
    BY <1>0, AlignGoesOn
  <1>4. Listed(a) /\ Len(a) % 8 = 0 /\ Len(a) \in Nat
    BY PaddingIsWritten, ListLength
  <1>5. Listed(l) /\ Len(l) = (IF n <= 127 THEN 8 ELSE 16) /\ Len(l) \in Nat
    BY <1>2, LengthIs, ListLength, SMTT(30)
  <1>6. Starts(buf, w2) /\ Len(a) <= Len(buf) /\ Len(buf) < Len(w2) /\ Len(buf) % 8 = 0 /\ Len(buf) \in Nat
    BY <1>0, <1>1, ListLength DEF Cut
  <1> HIDE DEF n, f, a, l
  <1>7. GoesOn(a, b) /\ Len(b) = Len(a) + Len(l)
    BY <1>4, <1>5, AppendGoesOn
  <1>8. Listed(b) /\ Len(b) \in Nat
    BY <1>4, <1>5, <1>7 DEF GoesOn
  <1> HIDE DEF b
  <1>9. GoesOn(b, w2) /\ Len(w2) = Len(b) + Len(f)
    BY <1>2, <1>8, AppendGoesOn
  <1>10. Listed(w2)
    BY <1>9 DEF GoesOn
  <1> HIDE DEF w2
  <1>11. Starts(a, w2) /\ Starts(b, w2) /\ Starts(a, b)
    BY <1>4, <1>7, <1>9, GoesOnThrough DEF GoesOn
  <1>12. Starts(a, buf)
    BY <1>0, <1>4, <1>6, <1>10, <1>11, BothStart
  <1>13. AlignReader(At(buf, Len(w), got)) = At(buf, Len(a), got)
    BY <1>3, <1>12
  <1> DEFINE r == At(buf, Len(a), got)
  <1>14. CASE Len(b) <= Len(buf)
    <2>1. Starts(b, buf)
      BY <1>0, <1>6, <1>8, <1>10, <1>11, <1>14, BothStart
    <2>2. Stands(l, buf, Len(a))
      BY <1>0, <1>4, <1>5, <2>1, AppendGoesOn DEF b
    <2>3. GetContent(r) = ReadOctets(At(buf, Len(a) + Len(l), got), n)
      BY <1>0, <1>2, <1>4, <2>2, ContentIsRead DEF l
    <2>4. ~(Len(a) + Len(l) + 8 * n <= Len(buf))
      <3>1. Len(w2) = Len(a) + Len(l) + 8 * n
        BY <1>2, <1>4, <1>5, <1>7, <1>9
      <3>2. Len(buf) < Len(a) + Len(l) + 8 * n
        BY <1>6, <3>1
      <3>3. Len(a) + Len(l) + 8 * n \in Nat /\ Len(buf) \in Nat
        <4>1. 8 * n \in Nat
          <5>1. n \in Nat
            BY <1>2
          <5>2. QED
            BY <5>1
        <4>2. Len(a) \in Nat /\ Len(l) \in Nat /\ Len(buf) \in Nat
          BY <1>4, <1>5, <1>6
        <4>3. QED
          BY <4>1, <4>2
      <3>4. QED
        BY <3>2, <3>3
    <2>5. Failed(ReadOctets(At(buf, Len(a) + Len(l), got), n))
      BY <2>4, TooShort, AtHasOk DEF ReadOctets
    <2>6. QED
      BY <1>13, <2>3, <2>5 DEF GetOpenType
  <1>15. CASE ~(Len(b) <= Len(buf)) /\ ~(Len(a) + 8 <= Len(buf))
    <2>1. ~(Len(a) + 16 <= Len(buf))
      BY <1>4, <1>6, <1>15
    <2>2. ~Has(r, 8) /\ ~Has(r, 16)
      BY <1>15, <2>1, TooShort
    <2>3. GetContent(r) = Fail(r)
      BY <2>2 DEF GetContent
    <2>4. QED
      BY <1>13, <2>3, AtHasOk DEF GetOpenType
  <1>16. CASE ~(Len(b) <= Len(buf)) /\ Len(a) + 8 <= Len(buf)
    <2>1. ~(n <= 127) /\ Len(l) = 16 /\ ~(Len(a) + 16 <= Len(buf))
      BY <1>4, <1>5, <1>6, <1>7, <1>16
    <2> DEFINE x == n + 32768
               q == Bits(x \div 256, 8)
    <2>2. x \in Nat /\ x \div 256 \in Nat /\ ~(x \div 256 < 128)
      BY <1>2, <2>1
    <2>3. l = Bits(x, 16) /\ Fits(x, 16)
      BY <1>2, <2>1, LengthIs DEF l
    <2>4. Listed(q) /\ Len(q) = 8 /\ Starts(q, l)
      <3> HIDE DEF x
      <3>1. 8 \in 0..28
        OBVIOUS
      <3>2. Listed(q) /\ Len(q) = 8
        BY <2>2, <3>1, BitsListed
      <3>3. Starts(q, l)
        BY <2>2, <2>3, HighBits
      <3>4. QED
        BY <3>2, <3>3
    <2> HIDE DEF x, q
    <2>5. Stands(q, buf, Len(a))
      <3>1. Stands(l, b, Len(a))
        BY <1>4, <1>5, <1>8, StartsItself, AppendGoesOn DEF b
      <3>2. Stands(q, b, Len(a))
        BY <1>4, <1>5, <1>8, <2>4, <3>1, FirstStands
      <3>3. \A i \in 1..8 : Len(a) + i \in 1..Len(buf) /\ Len(a) + i \in 1..Len(b)
        BY <1>4, <1>6, <1>7, <1>16, <2>1
      <3>4. ASSUME NEW i \in 1..Len(q) PROVE buf[Len(a) + i] = q[i]
        <4>1. i \in 1..8
          BY <2>4
        <4>2. b[Len(a) + i] = q[i]
          BY <3>2, <3>4 DEF Stands
        <4>3. w2[Len(a) + i] = b[Len(a) + i] /\ w2[Len(a) + i] = buf[Len(a) + i]
          BY <1>6, <1>11, <3>3, <4>1 DEF Starts
        <4>4. QED
          BY <4>2, <4>3
      <3>5. Len(a) + Len(q) <= Len(buf)
        BY <1>16, <2>4
      <3>6. QED
        BY <3>4, <3>5 DEF Stands
    <2>6. Has(r, 8) /\ Number(Ahead(r, 8)) = x \div 256
      BY <1>0, <1>4, <2>3, <2>5, HighOctetAhead DEF q
    <2>7. ~Has(r, 16)
      BY <2>1, TooShort
    <2>8. GetContent(r) = Fail(r)
      BY <2>2, <2>6, <2>7 DEF GetContent
    <2>9. QED
      BY <1>13, <2>8, AtHasOk DEF GetOpenType
  <1>17. QED
    BY <1>14, <1>15, <1>16

-----------------------------------------------------------------------------
(* The envelope *)

\* What a buffer begins with stands at its beginning.
LEMMA StartsAtZero ==
    ASSUME NEW p, Listed(p), NEW buf, Listed(buf), Starts(p, buf)
    PROVE  Stands(p, buf, 0)
  <1>1. Len(p) \in Nat /\ Len(buf) \in Nat /\ Len(p) <= Len(buf) /\ \A i \in 1..Len(p) : buf[i] = p[i]
    BY ListLength DEF Starts
  <1>2. \A i \in 1..Len(p) : 0 + i = i
    BY <1>1
  <1>3. QED
    BY <1>1, <1>2 DEF Stands

\* A zero bit is one bit.
LEMMA OneBit ==
    Listed(Bits(0, 1)) /\ Len(Bits(0, 1)) = 1
  <1>1. 1 \in 0..28 /\ 0 \in Nat
    OBVIOUS
  <1>2. QED
    BY <1>1, BitsListed, Zenon

\* A reader reads the zero a buffer begins with.
LEMMA FirstZero ==
    ASSUME NEW buf, Listed(buf), Starts(Bits(0, 1), buf)
    PROVE  GetZero(Reader(buf)) = At(buf, Len(Bits(0, 1)), <<>>)
  <1>1. Stands(Bits(0, 1), buf, 0)
    BY OneBit, StartsAtZero
  <1>2. Reader(buf) = At(buf, 0, <<>>)
    BY DEF Reader, At
  <1>3. GetZero(At(buf, 0, <<>>)) = At(buf, 0 + 1, <<>>)
    <2>1. 0 \in Nat
      OBVIOUS
    <2>2. QED
      BY <1>1, <2>1, ZeroIsRead
  <1>4. 0 + 1 = Len(Bits(0, 1))
    BY OneBit
  <1>5. QED
    BY <1>2, <1>3, <1>4, Zenon

\* What can stand in the header of a PDU.
Heading(choice, procedure, criticality) ==
    choice \in 0..2 /\ InRange(0, 255, procedure) /\ criticality \in 0..2

\* The header, part by part.
Choosing(choice) == PutConstrainedWholeNumber(Bits(0, 1), 0, 2, choice)
Coding(choice, procedure) == PutConstrainedWholeNumber(Choosing(choice), 0, 255, procedure)
Enveloping(choice, procedure, criticality) ==
    PutConstrainedWholeNumber(Coding(choice, procedure), 0, 2, criticality)

\* The header of a PDU is written part by part, each going on from the one before.
LEMMA HeaderIsWritten ==
    ASSUME NoneIsNoList, NEW choice, NEW procedure, NEW criticality, Heading(choice, procedure, criticality)
    PROVE  LET u0 == Bits(0, 1)
               u1 == Choosing(choice)
               u2 == Coding(choice, procedure)
               u3 == Enveloping(choice, procedure, criticality)
           IN  /\ GoesOn(u0, u1) /\ GoesOn(u1, u2) /\ GoesOn(u2, u3)
               /\ Listed(u1) /\ Listed(u2) /\ Listed(u3)
               /\ Len(u1) = 3 /\ Len(u2) = 16 /\ Len(u3) = 18 /\ Len(Align(u3)) = 24
  <1> DEFINE u0 == Bits(0, 1)
             u1 == Choosing(choice)
             u2 == Coding(choice, procedure)
             u3 == Enveloping(choice, procedure, criticality)
  <1>1. choice \in 0..2 /\ InRange(0, 255, procedure) /\ criticality \in 0..2
    BY DEF Heading
  <1>2. Listed(u0) /\ Len(u0) = 1
    BY OneBit
  <1>3. GoesOn(u0, u1) /\ Len(u1) = Len(u0) + 2
    BY <1>1, <1>2, SmallPasses DEF Choosing
  <1> HIDE DEF u0
  <1>4. Listed(u1) /\ Len(u1) = 3
    BY <1>2, <1>3 DEF GoesOn
  <1> HIDE DEF u1
  <1>5. GoesOn(u1, u2) /\ Len(u2) = Len(Align(u1)) + Width(0, 255)
    BY <1>1, <1>4, LargePasses DEF Coding, u1
  <1>6. Width(0, 255) = 8
    BY DEF Width
  <1>7. Len(Align(u1)) = Len(u1) + Padding(Len(u1))
    BY <1>4, PaddingIsWritten
  <1>8. Padding(3) = 5 /\ Padding(18) = 6
    BY DEF Padding
  <1>9. Listed(u2) /\ Len(u2) = 16
    <2>1. Len(Align(u1)) = 8
      BY <1>4, <1>7, <1>8
    <2>2. QED
      BY <1>5, <1>6, <2>1 DEF GoesOn
  <1> HIDE DEF u2
  <1>10. GoesOn(u2, u3) /\ Len(u3) = Len(u2) + 2
    BY <1>1, <1>9, SmallPasses DEF Enveloping, u2
  <1>11. Listed(u3) /\ Len(u3) = 18
    BY <1>9, <1>10 DEF GoesOn
  <1> HIDE DEF u3
  <1>12. Len(Align(u3)) = Len(u3) + Padding(Len(u3))
    BY <1>11, PaddingIsWritten
  <1>13. Len(Align(u3)) = 24
    BY <1>8, <1>11, <1>12
  <1>14. QED
    BY <1>3, <1>4, <1>5, <1>9, <1>10, <1>11, <1>13 DEF u0, u1, u2, u3

\* A PDU as it is written.
LEMMA PduIsWritten ==
    ASSUME NoneIsNoList, NEW choice, NEW procedure, NEW criticality, Heading(choice, procedure, criticality),
           NEW ies, Contained(EncodeMessageBody(ies))
    PROVE  LET e == PutOpenType(Enveloping(choice, procedure, criticality), EncodeMessageBody(ies))
           IN  EncodePDU(choice, procedure, criticality, ies) = e /\ Listed(e) /\ Len(e) % 8 = 0
  <1> DEFINE u3 == Enveloping(choice, procedure, criticality)
             body == EncodeMessageBody(ies)
             e == PutOpenType(u3, body)
  <1>1. Listed(u3)
    BY HeaderIsWritten
  <1>2. EncodePDU(choice, procedure, criticality, ies) = Align(e)
    BY DEF EncodePDU, Enveloping, Coding, Choosing
  <1> HIDE DEF u3, body
  <1>3. Contained(body)
    BY DEF body
  <1>4. GoesOn(u3, e) /\ Len(e) % 8 = 0
    BY <1>1, <1>3, OpenTypePasses
  <1>5. Listed(e)
    BY <1>4 DEF GoesOn
  <1> HIDE DEF e
  <1>6. Align(e) = e
    BY <1>4, <1>5, PaddingIsWritten
  <1>7. QED
    BY <1>2, <1>4, <1>5, <1>6 DEF e, u3, body

\* Its header and its body are read.
LEMMA EnvelopeIsRead ==
    ASSUME NoneIsNoList, NEW choice, NEW procedure, NEW criticality, Heading(choice, procedure, criticality),
           NEW ies, Contained(EncodeMessageBody(ies))
    PROVE  \E at, got :
             /\ GetEnvelope(Reader(EncodePDU(choice, procedure, criticality, ies))) =
                  At(EncodePDU(choice, procedure, criticality, ies), at, got)
             /\ got[1] = choice /\ got[2] = procedure /\ got[4] = Filled(EncodeMessageBody(ies))
  <1> DEFINE u0 == Bits(0, 1)
             u1 == Choosing(choice)
             u2 == Coding(choice, procedure)
             u3 == Enveloping(choice, procedure, criticality)
             body == EncodeMessageBody(ies)
             f == Filled(body)
             e == PutOpenType(u3, body)
             g1 == Append(<<>>, choice)
             g2 == Append(g1, procedure)
             g3 == Append(g2, criticality)
             g4 == Append(g3, f)
  <1>1. choice \in 0..2 /\ InRange(0, 255, procedure) /\ criticality \in 0..2
    BY DEF Heading
  <1>2. EncodePDU(choice, procedure, criticality, ies) = e /\ Listed(e)
    BY PduIsWritten
  <1>3. /\ GoesOn(u0, u1) /\ GoesOn(u1, u2) /\ GoesOn(u2, u3) /\ Listed(u0)
        /\ Listed(u1) /\ Listed(u2) /\ Listed(u3)
    BY HeaderIsWritten, OneBit
  <1>4. Listed(<<>>) /\ Listed(g1) /\ Listed(g2) /\ Listed(g3)
    <2>1. Listed(<<>>)
      BY DEF Listed, ToSet
    <2> HIDE DEF g1, g2, g3
    <2>2. Listed(g1)
      BY <2>1, LastIs DEF g1
    <2>3. Listed(g2)
      BY <2>2, LastIs DEF g2
    <2>4. Listed(g3)
      BY <2>3, LastIs DEF g3
    <2>5. QED
      BY <2>1, <2>2, <2>3, <2>4
  <1>5. g4[1] = choice /\ g4[2] = procedure /\ g4[4] = f
    <2> HIDE DEF f, g1, g2, g3, g4
    <2>1. Len(<<>>) = 0
      OBVIOUS
    <2>2. Len(g1) = Len(<<>>) + 1 /\ g1[Len(g1)] = choice
      BY <1>4, LastIs DEF g1
    <2>3. Len(g2) = Len(g1) + 1 /\ g2[Len(g2)] = procedure /\ \A i \in 1..Len(g1) : g2[i] = g1[i]
      BY <1>4, LastIs DEF g2
    <2>4. Len(g3) = Len(g2) + 1 /\ \A i \in 1..Len(g2) : g3[i] = g2[i]
      BY <1>4, LastIs DEF g3
    <2>5. Len(g4) = Len(g3) + 1 /\ g4[Len(g4)] = f /\ \A i \in 1..Len(g3) : g4[i] = g3[i]
      BY <1>4, LastIs DEF g4
    <2>9. Len(g1) = 1 /\ Len(g2) = 2 /\ Len(g3) = 3 /\ Len(g4) = 4
      BY <2>1, <2>2, <2>3, <2>4, <2>5
    <2>6. 1 \in 1..1 /\ 1 \in 1..2 /\ 1 \in 1..3 /\ 2 \in 1..2 /\ 2 \in 1..3
      OBVIOUS
    <2>7. g4[1] = choice /\ g4[2] = procedure
      BY <2>2, <2>3, <2>4, <2>5, <2>6, <2>9
    <2>8. QED
      BY <2>5, <2>7, <2>9
  <1>6. /\ \A buf, got : Listed(buf) /\ Listed(got) /\ Starts(u1, buf) =>
              GetConstrainedWholeNumber(At(buf, Len(u0), got), 0, 2) = At(buf, Len(u1), Append(got, choice))
    BY <1>1, <1>3, SmallPasses DEF Choosing
  <1> HIDE DEF u1
  <1>7. /\ \A buf, got : Listed(buf) /\ Listed(got) /\ Starts(u2, buf) =>
              GetConstrainedWholeNumber(At(buf, Len(u1), got), 0, 255) = At(buf, Len(u2), Append(got, procedure))
    BY <1>1, <1>3, LargePasses DEF Coding, u1
  <1> HIDE DEF u2
  <1>8. /\ \A buf, got : Listed(buf) /\ Listed(got) /\ Starts(u3, buf) =>
              GetConstrainedWholeNumber(At(buf, Len(u2), got), 0, 2) = At(buf, Len(u3), Append(got, criticality))
    BY <1>1, <1>3, SmallPasses DEF Enveloping, u2
  <1> HIDE DEF u3, body, f
  <1>9. /\ GoesOn(u3, e)
        /\ \A buf, got : Listed(buf) /\ Listed(got) /\ Starts(e, buf) =>
              GetOpenType(At(buf, Len(u3), got)) = At(buf, Len(e), Append(got, f))
    <2>1. Contained(body)
      BY DEF body
    <2>2. QED
      BY <1>3, <2>1, OpenTypePasses DEF f
  <1> HIDE DEF e, u0
  <1>10. Starts(e, e) /\ Starts(u3, e) /\ Starts(u2, e) /\ Starts(u1, e) /\ Starts(u0, e)
    <2>1. Starts(e, e) /\ Starts(u3, e)
      BY <1>2, <1>9, StartsItself DEF GoesOn
    <2>2. Starts(u2, e)
      BY <1>2, <1>3, <2>1, StartsThrough DEF GoesOn
    <2>3. Starts(u1, e)
      BY <1>2, <1>3, <2>2, StartsThrough DEF GoesOn
    <2>4. Starts(u0, e)
      BY <1>2, <1>3, <2>3, StartsThrough DEF GoesOn
    <2>5. QED
      BY <2>1, <2>2, <2>3, <2>4
  <1> HIDE DEF g1, g2, g3, g4
  <1>11. GetZero(Reader(e)) = At(e, Len(u0), <<>>)
    BY <1>2, <1>10, FirstZero DEF u0
  <1>12. GetConstrainedWholeNumber(At(e, Len(u0), <<>>), 0, 2) = At(e, Len(u1), g1)
    BY <1>2, <1>4, <1>6, <1>10 DEF g1
  <1>13. GetConstrainedWholeNumber(At(e, Len(u1), g1), 0, 255) = At(e, Len(u2), g2)
    BY <1>2, <1>4, <1>7, <1>10 DEF g2
  <1>14. GetConstrainedWholeNumber(At(e, Len(u2), g2), 0, 2) = At(e, Len(u3), g3)
    BY <1>2, <1>4, <1>8, <1>10 DEF g3
  <1>15. GetOpenType(At(e, Len(u3), g3)) = At(e, Len(e), g4)
    BY <1>2, <1>4, <1>9, <1>10 DEF g4
  <1>16. GetEnvelope(Reader(e)) = At(e, Len(e), g4)
    BY <1>11, <1>12, <1>13, <1>14, <1>15 DEF GetEnvelope
  <1>17. QED
    BY <1>2, <1>5, <1>16 DEF f, body
\* Whole octets are none, one, two, or at least three.
LEMMA WholeOctets ==
    ASSUME NEW n \in Nat, n % 8 = 0
    PROVE  n = 0 \/ n = 8 \/ n = 16 \/ n >= 24
  OBVIOUS

\* As many bits as whole octets have are enough for the fields within them.
LEMMA WithinThree ==
    ASSUME NEW n \in Nat
    PROVE  /\ n >= 8 => 1 <= n /\ 3 <= n
           /\ n >= 16 => 16 <= n /\ n >= 8
           /\ n >= 24 => 18 <= n /\ 24 <= n /\ n >= 16
  OBVIOUS

\* A PDU that is cut short has no header.
LEMMA EnvelopeCut ==
    ASSUME NoneIsNoList, NEW choice, NEW procedure, NEW criticality, Heading(choice, procedure, criticality),
           NEW ies, Contained(EncodeMessageBody(ies)),
           NEW buf, Cut(buf, EncodePDU(choice, procedure, criticality, ies))
    PROVE  Failed(GetEnvelope(Reader(buf)))
  <1> DEFINE u0 == Bits(0, 1)
             u1 == Choosing(choice)
             u2 == Coding(choice, procedure)
             u3 == Enveloping(choice, procedure, criticality)
             body == EncodeMessageBody(ies)
             e == PutOpenType(u3, body)
             r0 == GetZero(Reader(buf))
             r1 == GetConstrainedWholeNumber(r0, 0, 2)
             r2 == GetConstrainedWholeNumber(r1, 0, 255)
             r3 == GetConstrainedWholeNumber(r2, 0, 2)
  <1>1. choice \in 0..2 /\ InRange(0, 255, procedure) /\ criticality \in 0..2
    BY DEF Heading
  <1>2. EncodePDU(choice, procedure, criticality, ies) = e /\ Listed(e)
    BY PduIsWritten
  <1>3. /\ GoesOn(u0, u1) /\ GoesOn(u1, u2) /\ GoesOn(u2, u3) /\ Listed(u0) /\ Len(u0) = 1
        /\ Listed(u1) /\ Listed(u2) /\ Listed(u3)
        /\ Len(u1) = 3 /\ Len(u2) = 16 /\ Len(u3) = 18 /\ Len(Align(u3)) = 24
    BY HeaderIsWritten, OneBit
  <1>27. Listed(u1)
    BY <1>3
  <1>4. Listed(buf) /\ Starts(buf, e) /\ Cut(buf, e)
    BY <1>2 DEF Cut
  <1>26. Len(buf) \in Nat /\ Len(buf) % 8 = 0
    BY <1>4, ListLength DEF Cut
  <1>5. ASSUME NEW got, Listed(got), Starts(u1, buf)
        PROVE  GetConstrainedWholeNumber(At(buf, Len(u0), got), 0, 2) = At(buf, Len(u1), Append(got, choice))
    BY <1>1, <1>3, <1>4, <1>5, SmallPasses, SMTT(30) DEF Choosing
  <1> HIDE DEF u1
  <1>6. ASSUME NEW got, Listed(got), Starts(u2, buf)
        PROVE  GetConstrainedWholeNumber(At(buf, Len(u1), got), 0, 255) = At(buf, Len(u2), Append(got, procedure))
    <2>1. /\ \A b, g : Listed(b) /\ Listed(g) /\ Starts(u2, b) =>
                GetConstrainedWholeNumber(At(b, Len(u1), g), 0, 255) = At(b, Len(u2), Append(g, procedure))
      BY <1>1, <1>27, LargePasses DEF Coding, u1
    <2> HIDE DEF u2
    <2>2. QED
      BY <1>4, <1>6, <2>1
  <1> HIDE DEF u2
  <1>7. ASSUME NEW got, Listed(got), Starts(u3, buf)
        PROVE  GetConstrainedWholeNumber(At(buf, Len(u2), got), 0, 2) = At(buf, Len(u3), Append(got, criticality))
    BY <1>1, <1>3, <1>4, <1>7, SmallPasses, ZenonT(60) DEF Enveloping, u2
  <1> HIDE DEF u3, body
  <1>8. Contained(body)
    BY DEF body
  <1>9. GoesOn(u3, e)
    BY <1>3, <1>8, OpenTypePasses
  <1>10. ASSUME NEW got, Len(Align(u3)) <= Len(buf)
         PROVE  Failed(GetOpenType(At(buf, Len(u3), got)))
    BY <1>3, <1>4, <1>8, <1>10, OpenTypeCut
  <1> HIDE DEF e, u0
  <1>11. Starts(u3, e) /\ Starts(u2, e) /\ Starts(u1, e) /\ Starts(u0, e)
    <2>1. Starts(u3, e)
      BY <1>9 DEF GoesOn
    <2>2. Starts(u2, e)
      BY <1>2, <1>3, <2>1, StartsThrough DEF GoesOn
    <2>3. Starts(u1, e)
      BY <1>2, <1>3, <2>2, StartsThrough DEF GoesOn
    <2>4. Starts(u0, e)
      BY <1>2, <1>3, <2>3, StartsThrough DEF GoesOn
    <2>5. QED
      BY <2>1, <2>2, <2>3, <2>4
  <1>12. GetEnvelope(Reader(buf)) = GetOpenType(r3)
    BY DEF GetEnvelope
  <1>13. Listed(<<>>) /\ Listed(Append(<<>>, choice)) /\ Listed(Append(Append(<<>>, choice), procedure))
    <2>1. Listed(<<>>)
      BY DEF Listed, ToSet
    <2>2. Listed(Append(<<>>, choice))
      BY <2>1, LastIs
    <2>3. QED
      BY <2>1, <2>2, LastIs
  <1> HIDE DEF r0, r1, r2, r3
  <1>14. Failed(r0) => Failed(r1)
    BY FailureStays DEF r1
  <1>15. Failed(r1) => Failed(r2)
    BY FailureStays DEF r2
  <1>16. Failed(r2) => Failed(r3)
    BY FailureStays DEF r3
  <1>17. Failed(r3) => Failed(GetEnvelope(Reader(buf)))
    BY <1>12, FailureStays
  <1>18. CASE Len(buf) = 0
    <2>1. ~Has(Reader(buf), 1)
      BY <1>18 DEF Reader, Has
    <2>2. r0 = Fail(Reader(buf))
      BY <2>1 DEF GetZero, r0
    <2>3. Reader(buf) = At(buf, 0, <<>>)
      BY DEF Reader, At
    <2>4. Failed(r0)
      BY <2>2, <2>3, AtHasOk
    <2>5. QED
      BY <1>14, <1>15, <1>16, <1>17, <2>4
  <1>19. Len(buf) >= 8 => Starts(u0, buf) /\ Starts(u1, buf) /\ r1 = At(buf, Len(u1), Append(<<>>, choice))
    <2> SUFFICES ASSUME Len(buf) >= 8
                 PROVE  Starts(u0, buf) /\ Starts(u1, buf) /\ r1 = At(buf, Len(u1), Append(<<>>, choice))
      OBVIOUS
    <2>1. Len(u0) <= Len(buf) /\ Len(u1) <= Len(buf)
      BY <1>3, <1>26, WithinThree
    <2>2. Starts(u0, buf) /\ Starts(u1, buf)
      BY <1>2, <1>3, <1>4, <1>11, <2>1, BothStart
    <2>3. r0 = At(buf, Len(u0), <<>>)
      BY <1>4, <2>2, FirstZero DEF r0, u0
    <2>4. QED
      BY <1>5, <1>13, <2>2, <2>3 DEF r1
  <1>20. CASE Len(buf) = 8
    <2> DEFINE g == Append(<<>>, choice)
    <2>1. r1 = At(buf, Len(u1), g)
      BY <1>19, <1>20
    <2>2. r2 = Offset(GetBits(AlignReader(r1), 8), 0)
      <3>1. 255 - 0 + 1 = 256 /\ ~(256 > 65536) /\ 256 # 1 /\ ~(256 < 256)
        OBVIOUS
      <3>2. QED
        BY <3>1 DEF r2, GetConstrainedWholeNumber
    <2>3. AlignReader(r1) = At(buf, Len(u1) + Padding(Len(u1)), g)
      <3>1. Len(u1) \in Nat /\ Len(u1) + Padding(Len(u1)) <= Len(buf)
        BY <1>3, <1>20 DEF Padding
      <3>2. QED
        BY <1>4, <2>1, <3>1, PaddingIsRead
    <2>4. ~(Len(u1) + Padding(Len(u1)) + 8 <= Len(buf))
      BY <1>3, <1>20 DEF Padding
    <2> HIDE DEF g
    <2>5. Failed(GetBits(AlignReader(r1), 8))
      BY <2>3, <2>4, TooShort
    <2>6. Failed(r2)
      BY <2>2, <2>5, FailureStays
    <2>7. QED
      BY <1>16, <1>17, <2>6
  <1>21. Len(buf) >= 16 => Starts(u2, buf) /\ r2 = At(buf, Len(u2), Append(Append(<<>>, choice), procedure))
    <2> SUFFICES ASSUME Len(buf) >= 16
                 PROVE  Starts(u2, buf) /\ r2 = At(buf, Len(u2), Append(Append(<<>>, choice), procedure))
      OBVIOUS
    <2>1. Len(u2) <= Len(buf) /\ Len(buf) >= 8
      BY <1>3, <1>26, WithinThree
    <2>2. Starts(u2, buf)
      BY <1>2, <1>3, <1>4, <1>11, <2>1, BothStart
    <2>3. QED
      BY <1>6, <1>13, <1>19, <2>1, <2>2 DEF r2
  <1>22. CASE Len(buf) = 16
    <2> DEFINE g == Append(Append(<<>>, choice), procedure)
    <2>1. r2 = At(buf, Len(u2), g)
      BY <1>21, <1>22
    <2>2. r3 = Offset(GetBits(r2, 2), 0)
      <3>1. 2 - 0 + 1 = 3 /\ ~(3 > 65536) /\ 3 # 1 /\ 3 < 256
        OBVIOUS
      <3>2. QED
        BY <3>1, BitsForThree DEF r3, GetConstrainedWholeNumber
    <2>3. ~(Len(u2) + 2 <= Len(buf))
      BY <1>3, <1>22
    <2> HIDE DEF g
    <2>4. Failed(GetBits(r2, 2))
      BY <2>1, <2>3, TooShort
    <2>5. Failed(r3)
      BY <2>2, <2>4, FailureStays
    <2>6. QED
      BY <1>17, <2>5
  <1>23. CASE Len(buf) >= 24
    <2>1. Len(u3) <= Len(buf) /\ Len(Align(u3)) <= Len(buf) /\ Len(buf) >= 16
      BY <1>3, <1>23, <1>26, WithinThree
    <2>2. Starts(u3, buf)
      BY <1>2, <1>3, <1>4, <1>11, <2>1, BothStart
    <2>3. r3 = At(buf, Len(u3), Append(Append(Append(<<>>, choice), procedure), criticality))
      BY <1>7, <1>13, <1>21, <2>1, <2>2 DEF r3
    <2>4. QED
      BY <1>10, <1>12, <2>1, <2>3
  <1>24. Len(buf) = 0 \/ Len(buf) = 8 \/ Len(buf) = 16 \/ Len(buf) >= 24
    BY <1>26, WholeOctets
  <1>25. QED
    BY <1>18, <1>20, <1>22, <1>23, <1>24

-----------------------------------------------------------------------------
(* What was got last, put together *)

\* The part of a list behind another.
LEMMA TailIs ==
    ASSUME NEW got, Listed(got), NEW p, Listed(p)
    PROVE  LET g == got \o p
           IN  /\ Listed(g) /\ Len(g) = Len(got) + Len(p)
               /\ SubSeq(g, 1, Len(g) - Len(p)) = got
               /\ SubSeq(g, Len(g) - Len(p) + 1, Len(g)) = p
  <1> DEFINE g == got \o p
  <1>1. /\ Listed(g) /\ Len(g) = Len(got) + Len(p)
        /\ \A i \in 1..Len(got) : g[i] = got[i]
        /\ \A i \in 1..Len(p) : g[Len(got) + i] = p[i]
    BY Joined
  <1>2. Len(got) \in Nat /\ Len(p) \in Nat
    BY ListLength
  <1> HIDE DEF g
  <1>3. Len(g) - Len(p) = Len(got) /\ Len(g) \in Nat
    BY <1>1, <1>2
  <1>4. SubSeq(g, 1, Len(got)) = got
    <2> DEFINE s == SubSeq(g, 1, Len(got))
    <2>1. s \in Seq(ToSet(g)) /\ Len(s) = Len(got) /\ \A i \in 1..Len(got) : s[i] = g[i]
      BY <1>1, <1>2 DEF Listed
    <2> HIDE DEF s
    <2>2. s = got
      BY <1>1, <2>1, ListsAre, SameList
    <2>3. QED
      BY <2>2 DEF s
  <1>5. SubSeq(g, Len(got) + 1, Len(g)) = p
    <2> DEFINE s == SubSeq(g, Len(got) + 1, Len(g))
    <2>1. s \in Seq(ToSet(g)) /\ Len(s) = Len(p)
      BY <1>1, <1>2 DEF Listed
    <2>2. \A i \in 1..Len(p) : s[i] = g[Len(got) + i]
      BY <1>1, <1>2 DEF Listed
    <2> HIDE DEF s
    <2>3. s = p
      BY <1>1, <2>1, <2>2, ListsAre, SameList
    <2>4. QED
      BY <2>3 DEF s
  <1>6. QED
    BY <1>1, <1>3, <1>4, <1>5 DEF g

\* What is appended twice is a list of two behind.
LEMMA TwoAppended ==
    ASSUME NEW got, Listed(got), NEW a, NEW b
    PROVE  /\ Append(Append(got, a), b) = got \o <<a, b>> /\ Listed(<<a, b>>) /\ Len(<<a, b>>) = 2
           /\ <<a, b>>[1] = a /\ <<a, b>>[2] = b
  <1>1. Append(Append(got, a), b) = got \o <<a, b>>
    BY DEF Listed
  <1>2. <<a, b>> \in Seq({a, b})
    OBVIOUS
  <1>3. QED
    BY <1>1, <1>2, ListsAre

\* What is appended three times is a list of three behind.
LEMMA ThreeAppended ==
    ASSUME NEW got, Listed(got), NEW a, NEW b, NEW c
    PROVE  /\ Append(Append(Append(got, a), b), c) = got \o <<a, b, c>>
           /\ Listed(<<a, b, c>>) /\ Len(<<a, b, c>>) = 3
           /\ <<a, b, c>>[1] = a /\ <<a, b, c>>[2] = b /\ <<a, b, c>>[3] = c
  <1>1. Append(Append(Append(got, a), b), c) = got \o <<a, b, c>>
    BY DEF Listed
  <1>2. <<a, b, c>> \in Seq({a, b, c})
    OBVIOUS
  <1>3. QED
    BY <1>1, <1>2, ListsAre

\* An element of its three parts.
LEMMA AsIEIs ==
    ASSUME NEW buf, NEW at, NEW got, Listed(got), NEW a, NEW b, NEW c
    PROVE  AsIE(At(buf, at, Append(Append(Append(got, a), b), c))) = At(buf, at, Append(got, IE(a, b, c)))
  <1> DEFINE p == <<a, b, c>>
             g == got \o p
  <1>1. /\ Append(Append(Append(got, a), b), c) = g /\ Listed(p) /\ Len(p) = 3
        /\ p[1] = a /\ p[2] = b /\ p[3] = c
    BY ThreeAppended, SMTT(30)
  <1> HIDE DEF p
  <1>2. /\ SubSeq(g, 1, Len(g) - Len(p)) = got
        /\ SubSeq(g, Len(g) - Len(p) + 1, Len(g)) = p
    BY <1>1, TailIs
  <1> HIDE DEF g
  <1>3. SubSeq(g, 1, Len(g) - 3) = got /\ SubSeq(g, Len(g) - 3 + 1, Len(g)) = p
    BY <1>1, <1>2, Zenon
  <1>4. AsIE(At(buf, at, g)) = At(buf, at, Append(got, IE(a, b, c)))
    BY <1>1, <1>3, ZenonT(60) DEF AsIE, Combine, At
  <1>5. QED
    BY <1>1, <1>4

\* A cell or a tracking area of its two parts.
LEMMA AsIdentityIs ==
    ASSUME NEW buf, NEW at, NEW got, Listed(got), NEW a, NEW b
    PROVE  AsIdentity(At(buf, at, Append(Append(got, a), b))) = At(buf, at, Append(got, Identity(a, b)))
  <1> DEFINE p == <<a, b>>
             g == got \o p
  <1>1. Append(Append(got, a), b) = g /\ Listed(p) /\ Len(p) = 2 /\ p[1] = a /\ p[2] = b
    BY TwoAppended, SMTT(30)
  <1> HIDE DEF p
  <1>2. /\ SubSeq(g, 1, Len(g) - Len(p)) = got
        /\ SubSeq(g, Len(g) - Len(p) + 1, Len(g)) = p
    BY <1>1, TailIs
  <1> HIDE DEF g
  <1>3. SubSeq(g, 1, Len(g) - 2) = got /\ SubSeq(g, Len(g) - 2 + 1, Len(g)) = p
    BY <1>1, <1>2, Zenon
  <1>4. AsIdentity(At(buf, at, g)) = At(buf, at, Append(got, Identity(a, b)))
    BY <1>1, <1>3 DEF AsIdentity, Combine, At
  <1>5. QED
    BY <1>1, <1>4

-----------------------------------------------------------------------------
(* Elements *)

\* Whole octets.
Whole(v) == Listed(v) /\ Len(v) % 8 = 0

\* What an element is made of; the value may have failed to encode.
Element(ie) == InRange(0, 65535, ie.id) /\ ie.criticality \in 0..2 /\ (ie.value = None \/ Whole(ie.value))

\* What can be put into an open type can be got from it.
LEMMA ContainedIfPut ==
    ASSUME NEW w, NEW c, c = None \/ Whole(c), PutOpenType(w, c) # None
    PROVE  Contained(c) /\ w # None
  <1>1. w # None /\ c # None /\ ~(Len(Filled(c)) \div 8 > 16383)
    BY DEF PutOpenType
  <1>2. Listed(c) /\ Len(c) % 8 = 0
    BY <1>1 DEF Whole
  <1>3. Len(Filled(c)) \in Nat
    <2>1. CASE c = <<>>
      <3>1. Filled(c) = Bits(0, 8) /\ 8 \in 0..28 /\ 0 \in Nat
        BY <2>1 DEF Filled
      <3>2. QED
        BY <3>1, BitsListed
    <2>2. CASE c # <<>>
      BY <1>2, <2>2, ListLength DEF Filled
    <2>3. QED
      BY <2>1, <2>2
  <1>4. Len(Filled(c)) \div 8 <= 16383
    <2>1. \A n \in Nat : ~(n \div 8 > 16383) => n \div 8 <= 16383
      OBVIOUS
    <2>2. QED
      BY <1>1, <1>3, <2>1
  <1>5. QED
    BY <1>1, <1>2, <1>4 DEF Contained

\* An element that is written is read; a value of no bits has become an octet.
LEMMA ElementPasses ==
    ASSUME NoneIsNoList, NEW w, Listed(w), NEW ie, Element(ie), PutIE(w, ie) # None
    PROVE  LET w2 == PutIE(w, ie)
           IN  /\ GoesOn(w, w2) /\ Contained(ie.value)
               /\ \A buf, got : Listed(buf) /\ Listed(got) /\ Starts(w2, buf) =>
                     GetIE(At(buf, Len(w), got)) =
                       At(buf, Len(w2), Append(got, IE(ie.id, ie.criticality, Filled(ie.value))))
  <1> DEFINE id == ie.id
             crit == ie.criticality
             c == ie.value
             f == Filled(c)
             u1 == PutConstrainedWholeNumber(w, 0, 65535, id)
             u2 == PutConstrainedWholeNumber(u1, 0, 2, crit)
             w2 == PutOpenType(u2, c)
  <1>1. InRange(0, 65535, id) /\ crit \in 0..2 /\ (c = None \/ Whole(c))
    BY DEF Element
  <1>2. PutIE(w, ie) = w2
    BY DEF PutIE
  <1> HIDE DEF id, crit, c
  <1>3. /\ GoesOn(w, u1)
        /\ \A buf, got : Listed(buf) /\ Listed(got) /\ Starts(u1, buf) =>
              GetConstrainedWholeNumber(At(buf, Len(w), got), 0, 65535) = At(buf, Len(u1), Append(got, id))
    BY <1>1, LargePasses
  <1>4. Listed(u1)
    BY <1>3 DEF GoesOn
  <1> HIDE DEF u1
  <1>5. /\ GoesOn(u1, u2)
        /\ \A buf, got : Listed(buf) /\ Listed(got) /\ Starts(u2, buf) =>
              GetConstrainedWholeNumber(At(buf, Len(u1), got), 0, 2) = At(buf, Len(u2), Append(got, crit))
    BY <1>1, <1>4, SmallPasses
  <1>6. Listed(u2)
    BY <1>5 DEF GoesOn
  <1> HIDE DEF u2
  <1>7. Contained(c)
    BY <1>1, <1>2, ContainedIfPut
  <1>8. /\ GoesOn(u2, w2)
        /\ \A buf, got : Listed(buf) /\ Listed(got) /\ Starts(w2, buf) =>
              GetOpenType(At(buf, Len(u2), got)) = At(buf, Len(w2), Append(got, f))
    BY <1>6, <1>7, OpenTypePasses
  <1> HIDE DEF w2, f
  <1>9. GoesOn(w, u2) /\ GoesOn(w, w2)
    BY <1>3, <1>4, <1>5, <1>6, <1>8, GoesOnThrough
  <1>10. ASSUME NEW buf, NEW got, Listed(buf), Listed(got), Starts(w2, buf)
         PROVE  GetIE(At(buf, Len(w), got)) = At(buf, Len(w2), Append(got, IE(id, crit, f)))
    <2>1. Starts(u2, buf)
      BY <1>4, <1>5, <1>8, <1>10, GoesOnThrough
    <2>2. Starts(u1, buf)
      BY <1>4, <1>5, <1>8, <1>10, GoesOnThrough
    <2> DEFINE g1 == Append(got, id)
               g2 == Append(g1, crit)
               g3 == Append(g2, f)
    <2>3. Listed(g1)
      BY <1>10, LastIs
    <2> HIDE DEF g1
    <2>4. Listed(g2)
      BY <2>3, LastIs
    <2> HIDE DEF g2
    <2>5. GetConstrainedWholeNumber(At(buf, Len(w), got), 0, 65535) = At(buf, Len(u1), g1)
      BY <1>3, <1>10, <2>2 DEF g1
    <2>6. GetConstrainedWholeNumber(At(buf, Len(u1), g1), 0, 2) = At(buf, Len(u2), g2)
      BY <1>5, <1>10, <2>1, <2>3 DEF g2
    <2>7. GetOpenType(At(buf, Len(u2), g2)) = At(buf, Len(w2), g3)
      BY <1>8, <1>10, <2>4
    <2>8. AsIE(At(buf, Len(w2), g3)) = At(buf, Len(w2), Append(got, IE(id, crit, f)))
      BY <1>10, AsIEIs DEF g1, g2
    <2> HIDE DEF g3
    <2>9. QED
      BY <2>5, <2>6, <2>7, <2>8 DEF GetIE
  <1>11. QED
    BY <1>2, <1>7, <1>9, <1>10 DEF id, crit, c, f

-----------------------------------------------------------------------------
(* Lists *)

\* The steps along a list: an element or an identifier is put, or got; or a
\* list is joined to those before it.
Step(how, alternative, list, i, v) ==
    IF how = "PutIE" THEN IF v = None THEN None ELSE PutIE(v, list[i])
    ELSE IF how = "GetIE" THEN IF v.ok THEN GetIE(v) ELSE v
    ELSE IF how = "PutId" THEN IF v = None THEN None ELSE PutId(alternative, v, list[i])
    ELSE IF how = "Join" THEN v \o list[i]
    ELSE IF v.ok THEN GetId(alternative, v) ELSE v

\* f takes k of the steps, from x on.
Walks(how, alternative, list, x, f, k) ==
    f[0] = x /\ \A i \in 1..k : f[i] = Step(how, alternative, list, i, f[i - 1])

\* All of them.
Walk(how, alternative, list, x, n, f) ==
    f = [i \in 0..n |-> IF i = 0 THEN x ELSE Step(how, alternative, list, i, f[i - 1])]

\* There is a way along a list.
LEMMA WalkExists ==
    ASSUME NEW how, NEW alternative, NEW list, NEW x, NEW n \in Nat
    PROVE  \E f : Walk(how, alternative, list, x, n, f)
  <1> DEFINE S == {k \in 0..n : \E f : Walks(how, alternative, list, x, f, k)}
  <1>1. 0 \in S
    <2> DEFINE f == [i \in 0..n |-> x]
    <2>1. f[0] = x
      OBVIOUS
    <2>2. Walks(how, alternative, list, x, f, 0)
      BY <2>1 DEF Walks
    <2> HIDE DEF f
    <2>3. QED
      BY <2>2
  <1>2. ASSUME NEW k \in 1..n, k - 1 \in S PROVE k \in S
    <2>1. k \in Nat /\ k - 1 \in 0..n /\ k \in 0..n /\ k # 0 /\ 0 \in 0..n
      OBVIOUS
    <2>2. PICK f : Walks(how, alternative, list, x, f, k - 1)
      BY <1>2
    <2> DEFINE h == [i \in 0..n |-> IF i = k THEN Step(how, alternative, list, k, f[k - 1]) ELSE f[i]]
    <2>3. h[k] = Step(how, alternative, list, k, f[k - 1]) /\ \A i \in 0..n : i # k => h[i] = f[i]
      BY <2>1
    <2> HIDE DEF h
    <2>4. h[0] = x
      BY <2>1, <2>2, <2>3 DEF Walks
    <2>5. ASSUME NEW i \in 1..k PROVE h[i] = Step(how, alternative, list, i, h[i - 1])
      <3>1. i - 1 \in 0..n /\ i - 1 # k /\ i \in 0..n
        OBVIOUS
      <3>2. h[i - 1] = f[i - 1]
        BY <2>3, <3>1
      <3>3. CASE i = k
        BY <2>3, <3>2, <3>3
      <3>4. CASE i # k
        <4>1. i \in 1..(k - 1)
          BY <3>4
        <4>2. f[i] = Step(how, alternative, list, i, f[i - 1]) /\ h[i] = f[i]
          BY <2>2, <2>3, <3>1, <3>4, <4>1 DEF Walks
        <4>3. QED
          BY <3>2, <4>2
      <3>5. QED
        BY <3>3, <3>4
    <2>6. Walks(how, alternative, list, x, h, k)
      BY <2>4, <2>5 DEF Walks
    <2>7. QED
      BY <2>1, <2>6
  <1>3. n \in S
    <2> HIDE DEF S
    <2>1. QED
      BY <1>1, <1>2, CountingUp
  <1>4. PICK f : Walks(how, alternative, list, x, f, n)
    BY <1>3
  <1> DEFINE h == [i \in 0..n |-> f[i]]
  <1>5. \A i \in 0..n : h[i] = f[i]
    OBVIOUS
  <1>6. \A i \in 0..n : i # 0 => i \in 1..n /\ i - 1 \in 0..n
    OBVIOUS
  <1>7. h = [i \in 0..n |-> IF i = 0 THEN x ELSE Step(how, alternative, list, i, h[i - 1])]
    <2>1. \A i \in 0..n : h[i] = IF i = 0 THEN x ELSE Step(how, alternative, list, i, h[i - 1])
      <3> HIDE DEF h
      <3>1. QED
        BY <1>4, <1>5, <1>6 DEF Walks
    <2>2. h = [i \in 0..n |-> h[i]]
      BY <1>5
    <2> HIDE DEF h
    <2>3. QED
      BY <2>1, <2>2
  <1>8. QED
    BY <1>7 DEF Walk

\* A walk over a list, step by step, is what is defined by its steps.
LEMMA WalkGoes ==
    ASSUME NEW how, NEW alternative, NEW list, NEW x, NEW n \in Nat, NEW f, Walk(how, alternative, list, x, n, f)
    PROVE  Walks(how, alternative, list, x, f, n)
  <1>1. \A i \in 0..n : f[i] = IF i = 0 THEN x ELSE Step(how, alternative, list, i, f[i - 1])
    BY DEF Walk
  <1>2. 0 \in 0..n /\ \A i \in 1..n : i \in 0..n /\ i # 0
    OBVIOUS
  <1>3. QED
    BY <1>1, <1>2 DEF Walks

\* Elements are put one after the other.
LEMMA PutIEsWalks ==
    ASSUME NEW w, NEW ies, Len(ies) \in Nat
    PROVE  \E f : Walk("PutIE", 0, ies, w, Len(ies), f) /\ PutIEs(w, ies) = f[Len(ies)]
  <1> DEFINE n == Len(ies)
             All(f) == [i \in 0..n |-> IF i = 0 THEN w
                                       ELSE IF f[i - 1] = None THEN None ELSE PutIE(f[i - 1], ies[i])]
             after == CHOOSE f : f = All(f)
  <1>1. PutIEs(w, ies) = after[n]
    BY DEF PutIEs, PutEach
  <1>2. \A f : Walk("PutIE", 0, ies, w, n, f) <=> f = All(f)
    BY DEF Walk, Step
  <1>3. PICK f : f = All(f)
    <2> HIDE DEF All, n
    <2>1. n \in Nat
      BY DEF n
    <2>2. QED
      BY <1>2, <2>1, WalkExists
  <1>4. after = All(after)
    <2> HIDE DEF All
    <2>1. QED
      BY <1>3
  <1> HIDE DEF after, All
  <1>5. QED
    BY <1>1, <1>2, <1>4

\* And so are cells or tracking areas.
LEMMA PutIdsWalks ==
    ASSUME NEW alternative, NEW w, NEW list, Len(list) \in Nat
    PROVE  \E f : Walk("PutId", alternative, list, w, Len(list), f) /\ PutIds(alternative, w, list) = f[Len(list)]
  <1> DEFINE n == Len(list)
             All(f) == [i \in 0..n |-> IF i = 0 THEN w
                                       ELSE IF f[i - 1] = None THEN None
                                       ELSE PutId(alternative, f[i - 1], list[i])]
             after == CHOOSE f : f = All(f)
  <1>1. PutIds(alternative, w, list) = after[n]
    BY DEF PutIds, PutEach
  <1>2. \A f : Walk("PutId", alternative, list, w, n, f) <=> f = All(f)
    BY DEF Walk, Step
  <1>3. PICK f : f = All(f)
    <2> HIDE DEF All, n
    <2>1. n \in Nat
      BY DEF n
    <2>2. QED
      BY <1>2, <2>1, WalkExists
  <1>4. after = All(after)
    <2> HIDE DEF All
    <2>1. QED
      BY <1>3
  <1> HIDE DEF after, All
  <1>5. QED
    BY <1>1, <1>2, <1>4

\* They are got one after the other.
LEMMA GetIEsWalks ==
    ASSUME NEW r, r.ok = TRUE, Last(r.got) \in Nat
    PROVE  \E f : /\ Walk("GetIE", 0, <<>>, r, Last(r.got), f)
                  /\ GetIEs(r) = Combine(f[Last(r.got)], Last(r.got) + 1, Tail)
  <1> DEFINE n == Last(r.got)
             All(f) == [i \in 0..n |-> IF i = 0 THEN r ELSE IF f[i - 1].ok THEN GetIE(f[i - 1]) ELSE f[i - 1]]
             after == CHOOSE f : f = All(f)
  <1>1. GetIEs(r) = Combine(after[n], n + 1, Tail)
    BY DEF GetIEs, GetList
  <1>2. \A f : Walk("GetIE", 0, <<>>, r, n, f) <=> f = All(f)
    BY DEF Walk, Step
  <1>3. PICK f : f = All(f)
    <2> HIDE DEF All, n
    <2>1. n \in Nat
      BY DEF n
    <2>2. QED
      BY <1>2, <2>1, WalkExists
  <1>4. after = All(after)
    <2> HIDE DEF All
    <2>1. QED
      BY <1>3
  <1> HIDE DEF after, All
  <1>5. QED
    BY <1>1, <1>2, <1>4

\* getIds walks as many steps as it has read that there are.
LEMMA GetIdsWalks ==
    ASSUME NEW alternative, NEW r, r.ok = TRUE, Last(r.got) \in Nat
    PROVE  \E f : /\ Walk("GetId", alternative, <<>>, r, Last(r.got), f)
                  /\ GetIds(alternative, r) = Combine(f[Last(r.got)], Last(r.got) + 1, Tail)
  <1> DEFINE n == Last(r.got)
             All(f) == [i \in 0..n |-> IF i = 0 THEN r
                                       ELSE IF f[i - 1].ok THEN GetId(alternative, f[i - 1]) ELSE f[i - 1]]
             after == CHOOSE f : f = All(f)
  <1>1. GetIds(alternative, r) = Combine(after[n], n + 1, Tail)
    BY DEF GetIds, GetList
  <1>2. \A f : Walk("GetId", alternative, <<>>, r, n, f) <=> f = All(f)
    BY DEF Walk, Step
  <1>3. PICK f : f = All(f)
    <2> HIDE DEF All, n
    <2>1. n \in Nat
      BY DEF n
    <2>2. QED
      BY <1>2, <2>1, WalkExists
  <1>4. after = All(after)
    <2> HIDE DEF All
    <2>1. QED
      BY <1>3
  <1> HIDE DEF after, All
  <1>5. QED
    BY <1>1, <1>2, <1>4

\* The first i of a list.
First(s, i) == [j \in 1..i |-> s[j]]

\* The first i elements of a list are i, and one more than the first i - 1.
LEMMA FirstIs ==
    ASSUME NEW s, Listed(s)
    PROVE  /\ \A i \in 0..Len(s) : Listed(First(s, i)) /\ Len(First(s, i)) = i
           /\ First(s, 0) = <<>> /\ First(s, Len(s)) = s
           /\ \A i \in 1..Len(s) : First(s, i) = Append(First(s, i - 1), s[i])
  <1>1. Len(s) \in Nat /\ s \in Seq(ToSet(s)) /\ s = [j \in 1..Len(s) |-> s[j]]
    BY DEF Listed
  <1>2. ASSUME NEW i \in 0..Len(s) PROVE Listed(First(s, i)) /\ Len(First(s, i)) = i
    <2>1. First(s, i) \in Seq(ToSet(s)) /\ Len(First(s, i)) = i
      <3>1. \A j \in 1..i : s[j] \in ToSet(s)
        BY <1>1
      <3>2. QED
        BY <1>1, <3>1 DEF First
    <2>2. QED
      BY <2>1, ListsAre
  <1>3. First(s, 0) = <<>>
    BY DEF First
  <1>4. First(s, Len(s)) = s
    BY <1>1 DEF First
  <1>5. ASSUME NEW i \in 1..Len(s) PROVE First(s, i) = Append(First(s, i - 1), s[i])
    <2> DEFINE f == First(s, i - 1)
    <2>1. i - 1 \in 0..Len(s) /\ i \in 0..Len(s) /\ i \in Nat
      BY <1>1
    <2>2. Listed(f) /\ Len(f) = i - 1
      BY <1>2, <2>1
    <2>3. \A j \in 1..(i - 1) : f[j] = s[j]
      BY DEF First
    <2> HIDE DEF f
    <2>4. /\ Listed(Append(f, s[i])) /\ Len(Append(f, s[i])) = Len(f) + 1
          /\ Append(f, s[i])[Len(Append(f, s[i]))] = s[i]
          /\ \A j \in 1..Len(f) : Append(f, s[i])[j] = f[j]
      BY <2>2, LastIs
    <2> DEFINE g == Append(f, s[i])
               h == First(s, i)
    <2>5. Listed(h) /\ Len(h) = i /\ \A j \in 1..i : h[j] = s[j]
      BY <1>2, <2>1 DEF First
    <2> HIDE DEF g, h
    <2>6. Listed(g) /\ Len(g) = i /\ g[i] = s[i] /\ \A j \in 1..(i - 1) : g[j] = s[j]
      BY <2>1, <2>2, <2>3, <2>4 DEF g
    <2>7. \A j \in 1..i : j = i \/ j \in 1..(i - 1)
      BY <2>1
    <2>8. h = g
      BY <2>5, <2>6, <2>7, SameList
    <2>9. QED
      BY <2>8 DEF f, g, h
  <1>6. QED
    BY <1>2, <1>3, <1>4, <1>5

\* One further.
LEMMA OneFurther ==
    ASSUME NEW g, Listed(g), NEW s, Listed(s), NEW i \in 1..Len(s)
    PROVE  /\ Listed(g \o First(s, i - 1)) /\ Listed(g \o First(s, i))
           /\ Append(g \o First(s, i - 1), s[i]) = g \o First(s, i)
  <1> DEFINE f == First(s, i - 1)
  <1>1. i - 1 \in 0..Len(s) /\ i \in 0..Len(s)
    BY ListLength
  <1>2. Listed(f) /\ Listed(First(s, i)) /\ First(s, i) = Append(f, s[i])
    BY <1>1, FirstIs
  <1> HIDE DEF f
  <1>3. Append(g \o f, s[i]) = g \o Append(f, s[i])
    BY <1>2, SMTT(30) DEF Listed
  <1>4. QED
    BY <1>2, <1>3, Joined DEF f

\* A count and what was counted give way to the latter.
LEMMA CountedIs ==
    ASSUME NEW buf, NEW at, NEW got, Listed(got), NEW s, Listed(s)
    PROVE  Combine(At(buf, at, Append(got, Len(s)) \o s), Len(s) + 1, Tail) = At(buf, at, Append(got, s))
  <1> DEFINE n == Len(s)
             p == <<n>> \o s
             g == got \o p
  <1>1. <<n>> \in Seq({n}) /\ Len(<<n>>) = 1 /\ n \in Nat
    BY ListLength
  <1>2. Listed(<<n>>)
    BY <1>1, ListsAre
  <1>3. Append(got, n) \o s = g
    <2>1. Append(got, n) = got \o <<n>>
      BY DEF Listed
    <2> HIDE DEF n
    <2>2. (got \o <<n>>) \o s = got \o (<<n>> \o s)
      BY <1>2, JoinedTwice
    <2>3. QED
      BY <2>1, <2>2
  <1>4. Listed(p) /\ Len(p) = 1 + n
    BY <1>1, <1>2, Joined
  <1>5. Tail(p) = s
    <2>1. s \in Seq(ToSet(s))
      BY DEF Listed
    <2>2. QED
      BY <1>1, <2>1
  <1> HIDE DEF p
  <1>6. SubSeq(g, 1, Len(g) - Len(p)) = got /\ SubSeq(g, Len(g) - Len(p) + 1, Len(g)) = p
    BY <1>4, TailIs
  <1>7. Len(p) = n + 1
    BY <1>1, <1>4
  <1> HIDE DEF g, n
  <1>8. SubSeq(g, 1, Len(g) - (n + 1)) = got /\ SubSeq(g, Len(g) - (n + 1) + 1, Len(g)) = p
    BY <1>6, <1>7, Zenon
  <1>9. Combine(At(buf, at, g), n + 1, Tail) = At(buf, at, Append(got, s))
    BY <1>5, <1>8 DEF Combine, At
  <1>10. QED
    BY <1>3, <1>9 DEF n

\* What is put at step i of a list is got at step i.
Passes(put, get, alternative, list, values, i) ==
    \A v : Listed(v) /\ Step(put, alternative, list, i, v) # None =>
        LET v2 == Step(put, alternative, list, i, v)
        IN  /\ GoesOn(v, v2)
            /\ \A buf, got : Listed(buf) /\ Listed(got) /\ Starts(v2, buf) =>
                  Step(get, alternative, <<>>, i, At(buf, Len(v), got)) = At(buf, Len(v2), Append(got, values[i]))

\* At every one of n steps.
AllPass(put, get, alternative, list, values, n) ==
    \A i \in 1..n : Passes(put, get, alternative, list, values, i)

\* Counting up and down.
LEMMA Indices ==
    ASSUME NEW n \in Nat
    PROVE  /\ n - 0 = n /\ 0 \in 0..n /\ n \in 0..n
           /\ \A j \in 1..n : /\ n - (j - 1) \in 1..n /\ (n - (j - 1)) - 1 = n - j
                             /\ j \in 0..n /\ j - 1 \in 0..n
           /\ \A i \in 0..n : n - i \in 0..n /\ n - (n - i) = i
  OBVIOUS

\* What cannot be written goes on to be None.
LEMMA NoneStays ==
    ASSUME NEW put \in {"PutIE", "PutId"}, NEW alternative, NEW list, NEW i
    PROVE  Step(put, alternative, list, i, None) = None
  BY DEF Step

\* A way that does not end in None has none on it, and each part of it begins the next.
LEMMA WayIsWritten ==
    ASSUME NEW put \in {"PutIE", "PutId"}, NEW get, NEW alternative, NEW list, NEW values,
           NEW n \in Nat, NEW w, Listed(w), NEW f, Walks(put, alternative, list, w, f, n), f[n] # None,
           AllPass(put, get, alternative, list, values, n)
    PROVE  /\ \A i \in 0..n : f[i] # None /\ Listed(f[i]) /\ Starts(w, f[i])
           /\ \A i \in 1..n : GoesOn(f[i - 1], f[i])
  <1> DEFINE S == {j \in 0..n : f[n - j] # None}
             T == {i \in 0..n : Listed(f[i]) /\ Starts(w, f[i])}
  <1>1. f[0] = w /\ \A i \in 1..n : f[i] = Step(put, alternative, list, i, f[i - 1])
    BY DEF Walks
  <1>2. n - 0 = n /\ 0 \in 0..n
    BY Indices
  <1>3. ASSUME NEW j \in 1..n, j - 1 \in S PROVE j \in S
    <2>1. n - (j - 1) \in 1..n /\ (n - (j - 1)) - 1 = n - j /\ j \in 0..n
      BY Indices
    <2>2. f[n - (j - 1)] # None
      BY <1>3
    <2>3. f[n - (j - 1)] = Step(put, alternative, list, n - (j - 1), f[n - j])
      BY <1>1, <2>1
    <2>4. f[n - j] # None
      BY <2>2, <2>3, NoneStays
    <2>5. QED
      BY <2>1, <2>4
  <1>4. 0 \in S
    BY <1>2
  <1>5. \A i \in 0..n : f[i] # None
    <2>1. \A j \in 0..n : j \in S
      <3> HIDE DEF S
      <3>1. QED
        BY <1>3, <1>4, CountingUp
    <2>2. \A i \in 0..n : n - i \in 0..n /\ n - (n - i) = i
      BY Indices
    <2>3. QED
      BY <2>1, <2>2
  <1>6. ASSUME NEW i \in 1..n, Listed(f[i - 1]) PROVE GoesOn(f[i - 1], f[i])
    <2>1. i \in 0..n
      BY Indices
    <2>2. QED
      BY <1>1, <1>5, <1>6, <2>1 DEF Passes, AllPass
  <1>7. 0 \in T
    BY <1>1, <1>2, StartsItself
  <1>8. ASSUME NEW i \in 1..n, i - 1 \in T PROVE i \in T
    <2>1. GoesOn(f[i - 1], f[i]) /\ Listed(f[i - 1]) /\ Starts(w, f[i - 1])
      BY <1>6, <1>8
    <2>2. Listed(f[i]) /\ Starts(w, f[i])
      BY <2>1, StartsThrough DEF GoesOn
    <2>3. i \in 0..n
      BY Indices
    <2>4. QED
      BY <2>2, <2>3
  <1>9. \A i \in 0..n : Listed(f[i]) /\ Starts(w, f[i])
    <2>1. \A i \in 0..n : i \in T
      <3> HIDE DEF T
      <3>1. QED
        BY <1>7, <1>8, CountingUp
    <2>2. QED
      BY <2>1
  <1>10. \A i \in 1..n : i - 1 \in 0..n
    BY Indices
  <1>11. QED
    BY <1>5, <1>6, <1>9, <1>10

\* Nothing put behind a list changes nothing.
LEMMA JoinNothing ==
    ASSUME NEW g, Listed(g)
    PROVE  g \o <<>> = g
  BY DEF Listed

\* A list that is written is read.
LEMMA ListPasses ==
    ASSUME NEW put \in {"PutIE", "PutId"}, NEW get, NEW alternative, NEW list, NEW values, Listed(values),
           NEW n \in Nat, n = Len(values),
           NEW w, Listed(w), NEW f, Walks(put, alternative, list, w, f, n), f[n] # None,
           AllPass(put, get, alternative, list, values, n),
           NEW buf, Listed(buf), Starts(f[n], buf), NEW g, Listed(g),
           NEW h, Walks(get, alternative, <<>>, At(buf, Len(w), g), h, n)
    PROVE  h[n] = At(buf, Len(f[n]), g \o values)
  <1> DEFINE S == {j \in 0..n : Starts(f[n - j], buf)}
             T == {i \in 0..n : h[i] = At(buf, Len(f[i]), g \o First(values, i))}
  <1>1. /\ \A i \in 0..n : f[i] # None /\ Listed(f[i])
        /\ \A i \in 1..n : GoesOn(f[i - 1], f[i])
    BY WayIsWritten
  <1>2. 0 \in S
    BY Indices
  <1>3. ASSUME NEW j \in 1..n, j - 1 \in S PROVE j \in S
    <2>1. n - (j - 1) \in 1..n /\ (n - (j - 1)) - 1 = n - j /\ j \in 0..n /\ n - j \in 0..n
      BY Indices
    <2>2. n - (j - 1) \in 0..n
      BY <2>1, Indices
    <2>3. Starts(f[n - (j - 1)], buf) /\ GoesOn(f[n - j], f[n - (j - 1)])
      BY <1>1, <1>3, <2>1
    <2>4. Listed(f[n - j]) /\ Listed(f[n - (j - 1)])
      BY <1>1, <2>1, <2>2
    <2>5. Starts(f[n - j], buf)
      BY <2>3, <2>4, StartsThrough DEF GoesOn
    <2>6. QED
      BY <2>1, <2>5
  <1>4. \A i \in 0..n : Starts(f[i], buf)
    <2>1. \A j \in 0..n : j \in S
      <3> HIDE DEF S
      <3>1. QED
        BY <1>2, <1>3, CountingUp
    <2>2. \A i \in 0..n : n - i \in 0..n /\ n - (n - i) = i
      BY Indices
    <2>3. QED
      BY <2>1, <2>2
  <1>5. h[0] = At(buf, Len(w), g) /\ f[0] = w
    BY DEF Walks
  <1>6. g \o <<>> = g
    BY JoinNothing
  <1>7. 0 \in T
    BY <1>5, <1>6, FirstIs, Indices
  <1>8. ASSUME NEW i \in 1..n, i - 1 \in T PROVE i \in T
    <2> DEFINE v == f[i - 1]
               v2 == f[i]
               k == g \o First(values, i - 1)
    <2>1. i \in 0..n /\ i - 1 \in 0..n
      BY Indices
    <2>2. h[i - 1] = At(buf, Len(v), k)
      BY <1>8
    <2>3. v2 = Step(put, alternative, list, i, v) /\ h[i] = Step(get, alternative, <<>>, i, h[i - 1])
      BY DEF Walks
    <2>4. Listed(v) /\ v2 # None /\ Starts(v2, buf)
      BY <1>1, <1>4, <2>1
    <2>5. Listed(k) /\ Append(k, values[i]) = g \o First(values, i)
      BY OneFurther
    <2> HIDE DEF v, v2, k
    <2>6. Step(get, alternative, <<>>, i, At(buf, Len(v), k)) = At(buf, Len(v2), Append(k, values[i]))
      BY <2>3, <2>4, <2>5 DEF Passes, AllPass
    <2>7. h[i] = At(buf, Len(v2), g \o First(values, i))
      BY <2>2, <2>3, <2>5, <2>6
    <2>8. QED
      BY <2>1, <2>7 DEF v2
  <1>9. h[n] = At(buf, Len(f[n]), g \o First(values, n))
    <2>1. \A i \in 0..n : i \in T
      <3> HIDE DEF T
      <3>1. QED
        BY <1>7, <1>8, CountingUp
    <2>2. QED
      BY <2>1, Indices
  <1>10. QED
    BY <1>9, FirstIs

\* An element as it is received.
Received(ie) == IE(ie.id, ie.criticality, Filled(ie.value))

\* The elements as they are received.
AllReceived(ies) == [i \in 1..Len(ies) |-> Received(ies[i])]

\* The elements received are as many as were sent.
LEMMA ReceivedListed ==
    ASSUME NEW ies, Listed(ies)
    PROVE  Listed(AllReceived(ies)) /\ Len(AllReceived(ies)) = Len(ies)
  <1>1. Len(ies) \in Nat
    BY ListLength
  <1> DEFINE r == AllReceived(ies)
  <1>2. r \in Seq({Received(ies[i]) : i \in 1..Len(ies)}) /\ Len(r) = Len(ies)
    BY <1>1 DEF AllReceived
  <1> HIDE DEF r
  <1>3. QED
    BY <1>2, ListsAre DEF r

\* Elements that are written are read.
LEMMA ElementsPass ==
    ASSUME NoneIsNoList, NEW w, Listed(w), NEW ies, Listed(ies), \A i \in 1..Len(ies) : Element(ies[i]),
           PutIEs(w, ies) # None
    PROVE  LET w2 == PutIEs(w, ies)
           IN  /\ GoesOn(w, w2)
               /\ \A buf, got : Listed(buf) /\ Listed(got) /\ Starts(w2, buf) =>
                     GetIEs(At(buf, Len(w), Append(got, Len(ies)))) = At(buf, Len(w2), Append(got, AllReceived(ies)))
  <1> DEFINE n == Len(ies)
             values == AllReceived(ies)
  <1>1. n \in Nat /\ Listed(values) /\ n = Len(values)
    BY ListLength, ReceivedListed
  <1>2. PICK f : Walk("PutIE", 0, ies, w, n, f) /\ PutIEs(w, ies) = f[n]
    BY <1>1, PutIEsWalks
  <1>3. Walks("PutIE", 0, ies, w, f, n) /\ f[n] # None
    BY <1>1, <1>2, WalkGoes
  <1>4. ASSUME NEW i \in 1..n PROVE Passes("PutIE", "GetIE", 0, ies, values, i)
    <2>1. values[i] = Received(ies[i])
      BY DEF AllReceived
    <2>2. Element(ies[i])
      OBVIOUS
    <2> HIDE DEF values
    <2> SUFFICES ASSUME NEW v, Listed(v), Step("PutIE", 0, ies, i, v) # None
                 PROVE  LET v2 == Step("PutIE", 0, ies, i, v)
                        IN  /\ GoesOn(v, v2)
                            /\ \A buf, got : Listed(buf) /\ Listed(got) /\ Starts(v2, buf) =>
                                  Step("GetIE", 0, <<>>, i, At(buf, Len(v), got)) =
                                    At(buf, Len(v2), Append(got, values[i]))
      BY DEF Passes
    <2>3. Step("PutIE", 0, ies, i, v) = PutIE(v, ies[i])
      BY DEF Step, NoneIsNoList
    <2>4. \A buf, at, got : Step("GetIE", 0, <<>>, i, At(buf, at, got)) = GetIE(At(buf, at, got))
      BY DEF Step, At
    <2>5. /\ GoesOn(v, PutIE(v, ies[i]))
          /\ \A buf, got : Listed(buf) /\ Listed(got) /\ Starts(PutIE(v, ies[i]), buf) =>
                GetIE(At(buf, Len(v), got)) = At(buf, Len(PutIE(v, ies[i])), Append(got, Received(ies[i])))
      BY <2>2, <2>3, ElementPasses DEF Received
    <2>6. QED
      BY <2>1, <2>3, <2>4, <2>5
  <1>8. AllPass("PutIE", "GetIE", 0, ies, values, n)
    BY <1>4 DEF AllPass
  <1> HIDE DEF n, values
  <1>5. GoesOn(w, f[n])
    <2>1. Listed(f[n]) /\ Starts(w, f[n])
      BY <1>1, <1>3, <1>8, WayIsWritten, Indices
    <2>2. QED
      BY <2>1 DEF GoesOn
  <1>6. ASSUME NEW buf, NEW got, Listed(buf), Listed(got), Starts(f[n], buf)
        PROVE  GetIEs(At(buf, Len(w), Append(got, n))) = At(buf, Len(f[n]), Append(got, values))
    <2> DEFINE g == Append(got, n)
               r == At(buf, Len(w), g)
    <2>1. Listed(g) /\ Last(g) = n
      BY <1>6, LastIs
    <2>2. r.ok = TRUE /\ r.got = g
      BY DEF At
    <2> HIDE DEF g, r
    <2>3. PICK h : Walk("GetIE", 0, <<>>, r, n, h) /\ GetIEs(r) = Combine(h[n], n + 1, Tail)
      BY <1>1, <2>1, <2>2, GetIEsWalks
    <2>4. Walks("GetIE", 0, <<>>, r, h, n)
      BY <1>1, <2>3, WalkGoes
    <2>5. h[n] = At(buf, Len(f[n]), g \o values)
      BY <1>1, <1>3, <1>6, <1>8, <2>1, <2>4, ListPasses DEF r
    <2>6. Combine(At(buf, Len(f[n]), g \o values), n + 1, Tail) = At(buf, Len(f[n]), Append(got, values))
      BY <1>1, <1>6, CountedIs DEF g
    <2>7. QED
      BY <2>3, <2>5, <2>6 DEF r, g
  <1>7. QED
    BY <1>2, <1>5, <1>6 DEF n, values

-----------------------------------------------------------------------------
(* Zeros: no extension, no option *)

\* One zero bit, and two.
LEMMA ZeroBits ==
    /\ Listed(Bits(0, 1)) /\ Len(Bits(0, 1)) = 1 /\ Bits(0, 1)[1] = 0
    /\ Listed(Bits(0, 2)) /\ Len(Bits(0, 2)) = 2 /\ Bits(0, 2)[1] = 0 /\ Bits(0, 2)[2] = 0
  <1>1. 0 \in Nat /\ 1 \in 0..28 /\ 2 \in 0..28
    OBVIOUS
  <1>2. Listed(Bits(0, 1)) /\ Len(Bits(0, 1)) = 1
    BY <1>1, BitsListed
  <1>3. Listed(Bits(0, 2)) /\ Len(Bits(0, 2)) = 2
    BY <1>1, BitsListed
  <1>4. 2^0 = 1 /\ 2^1 = 2 /\ (0 \div 1) % 2 = 0 /\ (0 \div 2) % 2 = 0 /\ 1 - 1 = 0 /\ 2 - 1 = 1 /\ 2 - 2 = 0
    OBVIOUS
  <1>5. 1 \in 1..1 /\ 1 \in 1..2 /\ 2 \in 1..2
    OBVIOUS
  <1>6. Bits(0, 1)[1] = (0 \div 2^(1 - 1)) % 2
    BY <1>5 DEF Bits
  <1>7. Bits(0, 2)[1] = (0 \div 2^(2 - 1)) % 2 /\ Bits(0, 2)[2] = (0 \div 2^(2 - 2)) % 2
    BY <1>5 DEF Bits
  <1>8. QED
    BY <1>2, <1>3, <1>4, <1>6, <1>7

\* Two absent options are read where two zeros stand.
LEMMA TwoZerosAreRead ==
    ASSUME NEW buf, Listed(buf), NEW at \in Nat, NEW got, Stands(Bits(0, 2), buf, at)
    PROVE  GetZero(GetZero(At(buf, at, got))) = At(buf, at + 2, got)
  <1> DEFINE z == Bits(0, 1)
             d == Bits(0, 2)
  <1>1. Len(z) = 1 /\ Len(d) = 2 /\ z[1] = 0 /\ d[1] = 0 /\ d[2] = 0
    BY ZeroBits
  <1> HIDE DEF z, d
  <1>2. at + Len(d) <= Len(buf) /\ \A i \in 1..Len(d) : buf[at + i] = d[i]
    BY DEF Stands, d
  <1>3. Len(buf) \in Nat
    BY ListLength
  <1>4. at + 2 <= Len(buf) /\ buf[at + 1] = 0 /\ buf[at + 2] = 0
    BY <1>1, <1>2
  <1>5. \A i \in 1..1 : i = 1
    OBVIOUS
  <1>6. Stands(z, buf, at)
    BY <1>1, <1>3, <1>4, <1>5 DEF Stands
  <1>7. Stands(z, buf, at + 1)
    <2>1. (at + 1) + 1 = at + 2
      OBVIOUS
    <2>2. QED
      BY <1>1, <1>4, <1>5, <2>1 DEF Stands
  <1>8. GetZero(At(buf, at, got)) = At(buf, at + 1, got)
    BY <1>6, ZeroIsRead DEF z
  <1>9. GetZero(At(buf, at + 1, got)) = At(buf, (at + 1) + 1, got)
    <2>1. at + 1 \in Nat
      OBVIOUS
    <2>2. QED
      BY <1>7, <2>1, ZeroIsRead DEF z
  <1>10. (at + 1) + 1 = at + 2
    OBVIOUS
  <1>11. QED
    BY <1>8, <1>9, <1>10

-----------------------------------------------------------------------------
(* The body of a PDU *)

\* A list of elements that can be counted.
Elements(ies) == Listed(ies) /\ InRange(0, 65535, Len(ies)) /\ \A i \in 1..Len(ies) : Element(ies[i])

\* What is aligned is whole octets, unless it failed before.
LEMMA AlignedIsWhole ==
    ASSUME NoneIsNoList, NEW x, x = None \/ Listed(x)
    PROVE  /\ Align(x) = None \/ Whole(Align(x))
           /\ Align(x) = None <=> x = None
  <1>1. CASE x = None
    BY <1>1 DEF Align
  <1>2. CASE Listed(x)
    <2>1. Listed(Align(x)) /\ Len(Align(x)) % 8 = 0
      BY <1>2, PaddingIsWritten
    <2>2. x # None /\ Align(x) # None
      BY <1>2, <2>1 DEF NoneIsNoList
    <2>3. QED
      BY <2>1, <2>2 DEF Whole
  <1>3. QED
    BY <1>1, <1>2

\* The elements of a body that is written are read.
LEMMA BodyPasses ==
    ASSUME NoneIsNoList, NEW ies, Elements(ies)
    PROVE  LET b == EncodeMessageBody(ies)
           IN  /\ b = None \/ Whole(b)
               /\ b # None => Filled(b) = b /\ DecodeMessageBody(b) = AllReceived(ies)
  <1> DEFINE u0 == Bits(0, 2)
             n == Len(ies)
             u1 == PutConstrainedWholeNumber(u0, 0, 65535, n)
             u2 == PutIEs(u1, ies)
             b == Align(u2)
             values == AllReceived(ies)
  <1>1. Listed(ies) /\ InRange(0, 65535, n) /\ \A i \in 1..n : Element(ies[i])
    BY DEF Elements
  <1>2. EncodeMessageBody(ies) = b
    BY DEF EncodeMessageBody, PutIEContainer
  <1>3. Listed(u0) /\ Len(u0) = 2
    BY ZeroBits
  <1> HIDE DEF u0
  <1>4. /\ GoesOn(u0, u1)
        /\ \A buf, got : Listed(buf) /\ Listed(got) /\ Starts(u1, buf) =>
              GetConstrainedWholeNumber(At(buf, Len(u0), got), 0, 65535) = At(buf, Len(u1), Append(got, n))
    <2>1. InRange(0, 65535, n)
      BY <1>1
    <2>2. Listed(u0)
      BY <1>3
    <2> HIDE DEF n
    <2>3. QED
      BY <2>1, <2>2, LargePasses
  <1>5. Listed(u1)
    BY <1>4 DEF GoesOn
  <1> HIDE DEF u1
  <1>6. u2 # None =>
          /\ GoesOn(u1, u2)
          /\ \A buf, got : Listed(buf) /\ Listed(got) /\ Starts(u2, buf) =>
                GetIEs(At(buf, Len(u1), Append(got, n))) = At(buf, Len(u2), Append(got, values))
    BY <1>1, <1>5, ElementsPass
  <1> HIDE DEF u2, values
  <1>7. u2 = None \/ Listed(u2)
    BY <1>6 DEF GoesOn
  <1>8. (b = None \/ Whole(b)) /\ (b = None <=> u2 = None)
    BY <1>7, AlignedIsWhole
  <1>9. ASSUME b # None
        PROVE  Filled(b) = b /\ DecodeMessageBody(b) = values
    <2>1. u2 # None /\ Listed(u2) /\ Listed(b) /\ GoesOn(u1, u2)
      BY <1>6, <1>7, <1>8, <1>9 DEF Whole
    <2>2. GoesOn(u2, b)
      BY <2>1, AlignGoesOn
    <2> HIDE DEF b
    <2>3. Starts(u2, b) /\ Starts(u1, b) /\ Starts(u0, b)
      <3>1. Starts(u2, b)
        BY <2>2 DEF GoesOn
      <3>2. Starts(u1, b)
        BY <1>5, <2>1, <3>1, StartsThrough DEF GoesOn
      <3>3. Starts(u0, b)
        BY <1>3, <1>4, <1>5, <2>1, <3>2, StartsThrough DEF GoesOn
      <3>4. QED
        BY <3>1, <3>2, <3>3
    <2>4. b # <<>>
      <3>1. Len(u0) <= Len(b)
        BY <2>3 DEF Starts
      <3>2. Len(<<>>) = 0
        OBVIOUS
      <3>3. QED
        BY <1>3, <3>1, <3>2
    <2>5. Filled(b) = b
      BY <2>4 DEF Filled
    <2>6. GetZero(GetZero(Reader(b))) = At(b, Len(u0), <<>>)
      <3>1. Stands(u0, b, 0)
        BY <1>3, <2>1, <2>3, StartsAtZero
      <3>2. Reader(b) = At(b, 0, <<>>)
        BY DEF Reader, At
      <3>3. 0 \in Nat /\ 0 + 2 = 2
        OBVIOUS
      <3>4. GetZero(GetZero(At(b, 0, <<>>))) = At(b, 0 + 2, <<>>)
        BY <2>1, <3>1, <3>3, TwoZerosAreRead DEF u0
      <3>5. QED
        BY <1>3, <3>2, <3>3, <3>4, Zenon
    <2>7. Listed(<<>>)
      BY DEF Listed, ToSet
    <2>8. GetConstrainedWholeNumber(At(b, Len(u0), <<>>), 0, 65535) = At(b, Len(u1), Append(<<>>, n))
      <3> DEFINE none == <<>>
      <3>1. Listed(b) /\ Starts(u1, b) /\ Listed(none)
        BY <2>1, <2>3, <2>7
      <3> HIDE DEF n, none
      <3>2. GetConstrainedWholeNumber(At(b, Len(u0), none), 0, 65535) = At(b, Len(u1), Append(none, n))
        BY <1>4, <3>1
      <3>3. QED
        BY <3>2 DEF none
    <2>9. GetIEs(At(b, Len(u1), Append(<<>>, n))) = At(b, Len(u2), Append(<<>>, values))
      <3>1. /\ \A buf, got : Listed(buf) /\ Listed(got) /\ Starts(u2, buf) =>
                  GetIEs(At(buf, Len(u1), Append(got, n))) = At(buf, Len(u2), Append(got, values))
        BY <1>6, <2>1
      <3>2. Listed(b) /\ Starts(u2, b)
        BY <2>1, <2>3
      <3> HIDE DEF n
      <3>3. QED
        BY <2>7, <3>1, <3>2
    <2>10. Finish(At(b, Len(u2), Append(<<>>, values))) = values
      <3>1. Last(Append(<<>>, values)) = values
        BY <2>7, LastIs
      <3>2. QED
        BY <3>1 DEF Finish, At
    <2>11. DecodeMessageBody(b) = values
      <3> HIDE DEF n
      <3>1. QED
        BY <2>6, <2>8, <2>9, <2>10 DEF DecodeMessageBody, GetIEContainer
    <2>12. QED
      BY <2>5, <2>11
  <1>10. QED
    BY <1>2, <1>8, <1>9 DEF values

\* A PDU that is written is read.
LEMMA PduPasses ==
    ASSUME NoneIsNoList, NEW choice, NEW procedure, NEW criticality, Heading(choice, procedure, criticality),
           NEW ies, Elements(ies), EncodePDU(choice, procedure, criticality, ies) # None
    PROVE  LET pdu == EncodePDU(choice, procedure, criticality, ies)
           IN  /\ Contained(EncodeMessageBody(ies)) /\ Whole(pdu)
               /\ DecodePDU(pdu) = [choice |-> choice, procedure |-> procedure, ies |-> AllReceived(ies)]
  <1> DEFINE body == EncodeMessageBody(ies)
             u3 == Enveloping(choice, procedure, criticality)
             pdu == EncodePDU(choice, procedure, criticality, ies)
  <1>1. (body = None \/ Whole(body)) /\ (body # None => Filled(body) = body /\ DecodeMessageBody(body) = AllReceived(ies))
    BY BodyPasses
  <1>2. pdu = Align(PutOpenType(u3, body))
    BY DEF EncodePDU, Enveloping, Coding, Choosing
  <1>3. PutOpenType(u3, body) # None
    BY <1>2 DEF Align
  <1> HIDE DEF body, u3
  <1>4. Contained(body)
    BY <1>1, <1>3, ContainedIfPut
  <1>5. body # None
    BY <1>4 DEF Contained, NoneIsNoList
  <1>6. Whole(pdu)
    BY <1>4, PduIsWritten DEF Whole, body
  <1>7. PICK at, got : /\ GetEnvelope(Reader(pdu)) = At(pdu, at, got)
                       /\ got[1] = choice /\ got[2] = procedure /\ got[4] = Filled(body)
    BY <1>4, EnvelopeIsRead DEF body
  <1> HIDE DEF pdu
  <1>8. got[4] = body /\ DecodeMessageBody(got[4]) = AllReceived(ies)
    BY <1>1, <1>5, <1>7
  <1>9. AllReceived(ies) # None
    <2>1. Listed(ies)
      BY DEF Elements
    <2>2. QED
      BY <2>1, ReceivedListed DEF NoneIsNoList
  <1>10. DecodePDU(pdu) = [choice |-> choice, procedure |-> procedure, ies |-> AllReceived(ies)]
    BY <1>7, <1>8, <1>9 DEF DecodePDU, DecodeBody, Decoded, At
  <1>11. QED
    BY <1>4, <1>6, <1>10 DEF body, pdu

\* No proper part of a PDU has a header.
LEMMA CutPduHasNoHeader ==
    ASSUME NoneIsNoList, NEW choice, NEW procedure, NEW criticality, Heading(choice, procedure, criticality),
           NEW ies, Elements(ies), EncodePDU(choice, procedure, criticality, ies) # None,
           NEW n \in 0..(Len(EncodePDU(choice, procedure, criticality, ies)) \div 8) - 1
    PROVE  Header(SubSeq(EncodePDU(choice, procedure, criticality, ies), 1, 8 * n)) = None
  <1> DEFINE pdu == EncodePDU(choice, procedure, criticality, ies)
             buf == SubSeq(pdu, 1, 8 * n)
             r == GetEnvelope(Reader(buf))
  <1>1. Contained(EncodeMessageBody(ies)) /\ Listed(pdu)
    BY PduPasses DEF Whole
  <1>2. n \in 0..(Len(pdu) \div 8) - 1
    OBVIOUS
  <1> HIDE DEF pdu
  <1>3. Len(pdu) \in Nat /\ pdu \in Seq(ToSet(pdu))
    BY <1>1, ListLength DEF Listed
  <1>4. n \in Nat /\ 8 * n \in Nat /\ 8 * n < Len(pdu) /\ 8 * n <= Len(pdu) /\ (8 * n) % 8 = 0
    <2>1. \A m \in Nat : \A k \in 0..(m \div 8) - 1 :
            k \in Nat /\ 8 * k \in Nat /\ 8 * k < m /\ 8 * k <= m /\ (8 * k) % 8 = 0
      OBVIOUS
    <2>2. QED
      BY <1>2, <1>3, <2>1
  <1>5. buf \in Seq(ToSet(pdu)) /\ Len(buf) = 8 * n /\ \A i \in 1..8 * n : buf[i] = pdu[i]
    BY <1>3, <1>4
  <1> HIDE DEF buf
  <1>6. Listed(buf)
    BY <1>5, ListsAre
  <1>7. Cut(buf, pdu)
    <2>1. Starts(buf, pdu)
      BY <1>4, <1>5 DEF Starts
    <2>2. QED
      BY <1>4, <1>5, <1>6, <2>1 DEF Cut
  <1>8. Failed(r)
    BY <1>1, <1>7, EnvelopeCut DEF pdu
  <1> HIDE DEF r
  <1>9. r.ok = FALSE
    BY <1>8 DEF Failed
  <1>10. DecodeBody(r) = None
    BY <1>9 DEF DecodeBody, Decoded
  <1>11. QED
    BY <1>10 DEF Header, HeaderOf, DecodePDU, pdu, buf, r

-----------------------------------------------------------------------------
(* Cells and tracking areas *)

\* Octets that are written are read.
LEMMA OctetsPass ==
    ASSUME NEW w, Listed(w), Aligned(Len(w)), NEW p, NEW n, OfOctets(p, n)
    PROVE  /\ GoesOn(w, w \o p) /\ Len(w \o p) = Len(w) + Len(p)
           /\ \A buf, got : Listed(buf) /\ Starts(w \o p, buf) =>
                 ReadOctets(At(buf, Len(w), got), n) = At(buf, Len(w \o p), Append(got, p))
  <1>1. Listed(p) /\ Len(p) = 8 * n
    BY DEF OfOctets
  <1>2. /\ GoesOn(w, w \o p) /\ Len(w \o p) = Len(w) + Len(p)
        /\ \A buf : Listed(buf) /\ Starts(w \o p, buf) => Starts(w, buf) /\ Stands(p, buf, Len(w))
    BY <1>1, AppendGoesOn
  <1>3. ASSUME NEW buf, NEW got, Listed(buf), Starts(w \o p, buf)
        PROVE  ReadOctets(At(buf, Len(w), got), n) = At(buf, Len(w \o p), Append(got, p))
    <2>1. Stands(p, buf, Len(w))
      BY <1>2, <1>3
    <2>2. ReadOctets(At(buf, Len(w), got), n) = At(buf, Len(w) + 8 * n, Append(got, p))
      BY <1>3, <2>1, OctetsAreRead
    <2>3. Len(w \o p) = Len(w) + 8 * n
      BY <1>1, <1>2
    <2>4. QED
      BY <2>2, <2>3
  <1>4. QED
    BY <1>2, <1>3

\* Zeros that are written are read.
LEMMA ZerosPass ==
    ASSUME NEW w, Listed(w)
    PROVE  /\ GoesOn(w, w \o Bits(0, 2)) /\ Len(w \o Bits(0, 2)) = Len(w) + 2
           /\ \A buf, got : Listed(buf) /\ Starts(w \o Bits(0, 2), buf) =>
                 GetZero(GetZero(At(buf, Len(w), got))) = At(buf, Len(w \o Bits(0, 2)), got)
  <1> DEFINE z == Bits(0, 2)
  <1>1. Listed(z) /\ Len(z) = 2 /\ Len(w) \in Nat
    BY ZeroBits, ListLength
  <1>2. /\ GoesOn(w, w \o z) /\ Len(w \o z) = Len(w) + Len(z)
        /\ \A buf : Listed(buf) /\ Starts(w \o z, buf) => Starts(w, buf) /\ Stands(z, buf, Len(w))
    <2> HIDE DEF z
    <2>1. QED
      BY <1>1, AppendGoesOn
  <1>3. Len(w \o z) = Len(w) + 2
    BY <1>1, <1>2
  <1>4. ASSUME NEW buf, NEW got, Listed(buf), Starts(w \o z, buf)
        PROVE  GetZero(GetZero(At(buf, Len(w), got))) = At(buf, Len(w \o z), got)
    <2>1. Stands(z, buf, Len(w))
      BY <1>2, <1>4
    <2>2. GetZero(GetZero(At(buf, Len(w), got))) = At(buf, Len(w) + 2, got)
      BY <1>1, <1>4, <2>1, TwoZerosAreRead
    <2>3. QED
      BY <1>3, <2>2
  <1>5. QED
    BY <1>2, <1>3, <1>4

\* A zero that is written is read.
LEMMA ZeroPasses ==
    ASSUME NEW w, Listed(w)
    PROVE  /\ GoesOn(w, w \o Bits(0, 1)) /\ Len(w \o Bits(0, 1)) = Len(w) + 1
           /\ \A buf, got : Listed(buf) /\ Starts(w \o Bits(0, 1), buf) =>
                 GetZero(At(buf, Len(w), got)) = At(buf, Len(w \o Bits(0, 1)), got)
  <1> DEFINE z == Bits(0, 1)
  <1>1. Listed(z) /\ Len(z) = 1 /\ Len(w) \in Nat
    BY ZeroBits, ListLength
  <1>2. /\ GoesOn(w, w \o z) /\ Len(w \o z) = Len(w) + Len(z)
        /\ \A buf : Listed(buf) /\ Starts(w \o z, buf) => Starts(w, buf) /\ Stands(z, buf, Len(w))
    <2> HIDE DEF z
    <2>1. QED
      BY <1>1, AppendGoesOn
  <1>3. Len(w \o z) = Len(w) + 1
    BY <1>1, <1>2
  <1>4. ASSUME NEW buf, NEW got, Listed(buf), Starts(w \o z, buf)
        PROVE  GetZero(At(buf, Len(w), got)) = At(buf, Len(w \o z), got)
    <2>1. Stands(z, buf, Len(w))
      BY <1>2, <1>4
    <2>2. GetZero(At(buf, Len(w), got)) = At(buf, Len(w) + 1, got)
      BY <1>1, <1>4, <2>1, ZeroIsRead
    <2>3. QED
      BY <1>3, <2>2
  <1>5. QED
    BY <1>2, <1>3, <1>4

\* The octets of a PLMN.
IsPlmn(p) == OfOctets(p, 3)

\* A PLMN is three octets.
LEMMA PlmnIs ==
    ASSUME NEW p, IsPlmn(p)
    PROVE  Listed(p) /\ Len(p) = 24 /\ OfOctets(p, 3)
  BY DEF IsPlmn, OfOctets

\* What is aligned ends on an octet boundary and has not failed.
LEMMA AlignedThen ==
    ASSUME NoneIsNoList, NEW w, Listed(w)
    PROVE  Listed(Align(w)) /\ Aligned(Len(Align(w))) /\ Align(w) # None
  <1>1. Listed(Align(w)) /\ Len(Align(w)) % 8 = 0
    BY PaddingIsWritten
  <1>2. Len(Align(w)) \in Nat
    BY <1>1, ListLength
  <1>3. QED
    BY <1>1, <1>2 DEF Aligned, NoneIsNoList

\* The bits of an identity are at most 68.
LEMMA LengthBounds ==
    ASSUME NEW n \in Nat, NEW p \in 0..7, NEW q \in 0..7
    PROVE  /\ ((((n + 2) + p) + 24) + q) + 28 <= n + 68
           /\ (((n + 1) + p) + 24) + 16 <= n + 68
  OBVIOUS

\* A cell that is written is read.
LEMMA CellPasses ==
    ASSUME NoneIsNoList, NEW w, Listed(w), NEW plmn, IsPlmn(plmn), NEW eci, Fits(eci, 28), eci < 2^28
    PROVE  LET w2 == EncodeEUTRANCGI(w, plmn, eci)
           IN  /\ GoesOn(w, w2) /\ Len(w2) <= Len(w) + 68
               /\ \A buf, got : Listed(buf) /\ Listed(got) /\ Starts(w2, buf) =>
                     DecodeEUTRANCGI(At(buf, Len(w), got)) = At(buf, Len(w2), Append(got, Identity(plmn, eci)))
  <1> DEFINE u1 == w \o Bits(0, 2)
             u2 == Align(u1)
             u3 == u2 \o plmn
             u4 == Align(u3)
             w2 == u4 \o Bits(eci, 28)
  <1>1. Listed(plmn) /\ Len(plmn) = 24 /\ OfOctets(plmn, 3)
    BY PlmnIs
  <1>2. /\ GoesOn(w, u1) /\ Len(u1) = Len(w) + 2
        /\ \A buf, got : Listed(buf) /\ Starts(u1, buf) =>
              GetZero(GetZero(At(buf, Len(w), got))) = At(buf, Len(u1), got)
    BY ZerosPass
  <1>3. PutBits(w, 0, 2) = u1
    BY DEF PutBits, NoneIsNoList
  <1>4. Listed(u1)
    BY <1>2 DEF GoesOn
  <1> HIDE DEF u1
  <1>5. /\ GoesOn(u1, u2)
        /\ \A buf, got : Listed(buf) /\ Starts(u2, buf) =>
              AlignReader(At(buf, Len(u1), got)) = At(buf, Len(u2), got)
    BY <1>4, AlignGoesOn
  <1>6. Listed(u2) /\ Aligned(Len(u2)) /\ u2 # None
    BY <1>4, AlignedThen
  <1>19. Len(u2) = Len(u1) + Padding(Len(u1))
    BY <1>4, PaddingIsWritten
  <1> HIDE DEF u2
  <1>7. /\ GoesOn(u2, u3) /\ Len(u3) = Len(u2) + Len(plmn)
        /\ \A buf, got : Listed(buf) /\ Starts(u3, buf) =>
              ReadOctets(At(buf, Len(u2), got), 3) = At(buf, Len(u3), Append(got, plmn))
    <2>1. OfOctets(plmn, 3)
      BY <1>1
    <2>2. QED
      BY <1>6, <2>1, OctetsPass
  <1>8. PutOctets(u2, plmn) = u3
    BY <1>1, <1>6 DEF PutOctets, NoneIsNoList
  <1>9. Listed(u3)
    BY <1>7 DEF GoesOn
  <1> HIDE DEF u3
  <1>10. /\ GoesOn(u3, u4)
         /\ \A buf, got : Listed(buf) /\ Starts(u4, buf) =>
               AlignReader(At(buf, Len(u3), got)) = At(buf, Len(u4), got)
    BY <1>9, AlignGoesOn
  <1>11. Listed(u4) /\ u4 # None /\ Len(u4) = Len(u3) + Padding(Len(u3))
    BY <1>9, AlignedThen, PaddingIsWritten
  <1> HIDE DEF u4
  <1>12. /\ GoesOn(u4, w2) /\ Len(w2) = Len(u4) + 28
         /\ \A buf, got : Listed(buf) /\ Starts(w2, buf) =>
               GetBits(At(buf, Len(u4), got), 28) = At(buf, Len(w2), Append(got, eci))
    BY <1>11, BitsPass
  <1>13. PutBits(u4, eci, 28) = w2
    BY <1>11 DEF PutBits
  <1>14. EncodeEUTRANCGI(w, plmn, eci) = w2
    BY <1>1, <1>3, <1>8, <1>13 DEF EncodeEUTRANCGI, u2, u4
  <1> HIDE DEF w2
  <1>15. GoesOn(w, w2) /\ \A buf : Listed(buf) /\ Starts(w2, buf) =>
           Starts(u1, buf) /\ Starts(u2, buf) /\ Starts(u3, buf) /\ Starts(u4, buf)
    <2>1. GoesOn(u3, w2) /\ \A buf : Listed(buf) /\ Starts(w2, buf) => Starts(u4, buf) /\ Starts(u3, buf)
      BY <1>9, <1>10, <1>12, GoesOnThrough
    <2>2. GoesOn(u2, w2) /\ \A buf : Listed(buf) /\ Starts(w2, buf) => Starts(u2, buf)
      BY <1>6, <1>7, <2>1, GoesOnThrough
    <2>3. GoesOn(u1, w2) /\ \A buf : Listed(buf) /\ Starts(w2, buf) => Starts(u1, buf)
      BY <1>4, <1>5, <2>2, GoesOnThrough
    <2>4. GoesOn(w, w2)
      BY <1>2, <2>3, GoesOnThrough
    <2>5. QED
      BY <2>1, <2>2, <2>3, <2>4
  <1>16. Len(w2) <= Len(w) + 68
    <2>1. Len(w) \in Nat /\ Len(u1) \in Nat /\ Len(u3) \in Nat
      BY <1>4, <1>9, ListLength
    <2>2. Padding(Len(u1)) \in 0..7 /\ Padding(Len(u3)) \in 0..7
      BY <2>1, PaddingIs
    <2>3. Len(w2) = ((((Len(w) + 2) + Padding(Len(u1))) + 24) + Padding(Len(u3))) + 28
      <3>1. Len(u1) = Len(w) + 2 /\ Len(u3) = Len(u2) + 24 /\ Len(u4) = Len(u3) + Padding(Len(u3)) /\ Len(w2) = Len(u4) + 28
        BY <1>1, <1>2, <1>7, <1>11, <1>12
      <3>2. QED
        BY <1>19, <3>1, Zenon
    <2>4. QED
      BY <2>1, <2>2, <2>3, LengthBounds, ZenonT(60)
  <1>17. ASSUME NEW buf, NEW got, Listed(buf), Listed(got), Starts(w2, buf)
         PROVE  DecodeEUTRANCGI(At(buf, Len(w), got)) = At(buf, Len(w2), Append(got, Identity(plmn, eci)))
    <2> DEFINE g1 == Append(got, plmn)
               g2 == Append(g1, eci)
    <2>1. Starts(u1, buf) /\ Starts(u2, buf) /\ Starts(u3, buf) /\ Starts(u4, buf)
      BY <1>15, <1>17
    <2>2. GetZero(GetZero(At(buf, Len(w), got))) = At(buf, Len(u1), got)
      BY <1>2, <1>17, <2>1
    <2>3. AlignReader(At(buf, Len(u1), got)) = At(buf, Len(u2), got)
      BY <1>5, <1>17, <2>1
    <2>4. ReadOctets(At(buf, Len(u2), got), 3) = At(buf, Len(u3), g1)
      BY <1>7, <1>17, <2>1
    <2>5. AsIdentity(At(buf, Len(w2), g2)) = At(buf, Len(w2), Append(got, Identity(plmn, eci)))
      BY <1>17, AsIdentityIs
    <2> HIDE DEF g1
    <2>6. AlignReader(At(buf, Len(u3), g1)) = At(buf, Len(u4), g1)
      BY <1>10, <1>17, <2>1
    <2>7. GetBits(At(buf, Len(u4), g1), 28) = At(buf, Len(w2), g2)
      BY <1>12, <1>17, <2>1
    <2> HIDE DEF g2
    <2>8. QED
      BY <2>2, <2>3, <2>4, <2>5, <2>6, <2>7 DEF DecodeEUTRANCGI
  <1>18. QED
    BY <1>14, <1>15, <1>16, <1>17

\* A tracking area that is written is read.
LEMMA AreaPasses ==
    ASSUME NoneIsNoList, NEW w, Listed(w), NEW plmn, IsPlmn(plmn), NEW tac, Fits(tac, 16)
    PROVE  LET w2 == EncodeTAI(w, plmn, tac)
           IN  /\ GoesOn(w, w2) /\ Len(w2) <= Len(w) + 68
               /\ \A buf, got : Listed(buf) /\ Listed(got) /\ Starts(w2, buf) =>
                     DecodeTAI(At(buf, Len(w), got)) = At(buf, Len(w2), Append(got, Identity(plmn, tac)))
  <1> DEFINE u1 == w \o Bits(0, 1)
             u2 == Align(u1)
             u3 == u2 \o plmn
             w2 == u3 \o Bits(tac, 16)
  <1>1. Listed(plmn) /\ Len(plmn) = 24 /\ OfOctets(plmn, 3)
    BY PlmnIs
  <1>2. /\ GoesOn(w, u1) /\ Len(u1) = Len(w) + 1
        /\ \A buf, got : Listed(buf) /\ Starts(u1, buf) =>
              GetZero(At(buf, Len(w), got)) = At(buf, Len(u1), got)
    BY ZeroPasses
  <1>3. PutBits(w, 0, 1) = u1
    BY DEF PutBits, NoneIsNoList
  <1>4. Listed(u1)
    BY <1>2 DEF GoesOn
  <1> HIDE DEF u1
  <1>5. /\ GoesOn(u1, u2)
        /\ \A buf, got : Listed(buf) /\ Starts(u2, buf) =>
              AlignReader(At(buf, Len(u1), got)) = At(buf, Len(u2), got)
    BY <1>4, AlignGoesOn
  <1>6. Listed(u2) /\ Aligned(Len(u2)) /\ u2 # None
    BY <1>4, AlignedThen
  <1>19. Len(u2) = Len(u1) + Padding(Len(u1))
    BY <1>4, PaddingIsWritten
  <1> HIDE DEF u2
  <1>7. /\ GoesOn(u2, u3) /\ Len(u3) = Len(u2) + Len(plmn)
        /\ \A buf, got : Listed(buf) /\ Starts(u3, buf) =>
              ReadOctets(At(buf, Len(u2), got), 3) = At(buf, Len(u3), Append(got, plmn))
    <2>1. OfOctets(plmn, 3)
      BY <1>1
    <2>2. QED
      BY <1>6, <2>1, OctetsPass
  <1>8. PutOctets(u2, plmn) = u3
    BY <1>1, <1>6 DEF PutOctets, NoneIsNoList
  <1>9. Listed(u3) /\ u3 # None
    BY <1>7 DEF GoesOn, NoneIsNoList
  <1> HIDE DEF u3
  <1>12. /\ GoesOn(u3, w2) /\ Len(w2) = Len(u3) + 16
         /\ \A buf, got : Listed(buf) /\ Starts(w2, buf) =>
               GetBits(At(buf, Len(u3), got), 16) = At(buf, Len(w2), Append(got, tac))
    BY <1>9, BitsPass
  <1>13. PutBits(u3, tac, 16) = w2
    BY <1>9 DEF PutBits
  <1>14. EncodeTAI(w, plmn, tac) = w2
    BY <1>1, <1>3, <1>8, <1>13 DEF EncodeTAI, u2
  <1> HIDE DEF w2
  <1>15. GoesOn(w, w2) /\ \A buf : Listed(buf) /\ Starts(w2, buf) =>
           Starts(u1, buf) /\ Starts(u2, buf) /\ Starts(u3, buf)
    <2>2. GoesOn(u2, w2) /\ \A buf : Listed(buf) /\ Starts(w2, buf) => Starts(u3, buf) /\ Starts(u2, buf)
      BY <1>6, <1>7, <1>12, GoesOnThrough
    <2>3. GoesOn(u1, w2) /\ \A buf : Listed(buf) /\ Starts(w2, buf) => Starts(u1, buf)
      BY <1>4, <1>5, <2>2, GoesOnThrough
    <2>4. GoesOn(w, w2)
      BY <1>2, <2>3, GoesOnThrough
    <2>5. QED
      BY <2>2, <2>3, <2>4
  <1>16. Len(w2) <= Len(w) + 68
    <2>1. Len(w) \in Nat /\ Len(u1) \in Nat
      BY <1>4, ListLength
    <2>2. Padding(Len(u1)) \in 0..7
      BY <2>1, PaddingIs
    <2>3. Len(w2) = (((Len(w) + 1) + Padding(Len(u1))) + 24) + 16
      <3>1. Len(u1) = Len(w) + 1 /\ Len(u3) = Len(u2) + 24 /\ Len(w2) = Len(u3) + 16
        BY <1>1, <1>2, <1>7, <1>12
      <3>2. QED
        BY <1>19, <3>1, Zenon
    <2>4. QED
      BY <2>1, <2>2, <2>3, LengthBounds
  <1>17. ASSUME NEW buf, NEW got, Listed(buf), Listed(got), Starts(w2, buf)
         PROVE  DecodeTAI(At(buf, Len(w), got)) = At(buf, Len(w2), Append(got, Identity(plmn, tac)))
    <2> DEFINE g1 == Append(got, plmn)
               g2 == Append(g1, tac)
    <2>1. Starts(u1, buf) /\ Starts(u2, buf) /\ Starts(u3, buf)
      BY <1>15, <1>17
    <2>2. GetZero(At(buf, Len(w), got)) = At(buf, Len(u1), got)
      BY <1>2, <1>17, <2>1
    <2>3. AlignReader(At(buf, Len(u1), got)) = At(buf, Len(u2), got)
      BY <1>5, <1>17, <2>1
    <2>4. ReadOctets(At(buf, Len(u2), got), 3) = At(buf, Len(u3), g1)
      BY <1>7, <1>17, <2>1
    <2>5. AsIdentity(At(buf, Len(w2), g2)) = At(buf, Len(w2), Append(got, Identity(plmn, tac)))
      BY <1>17, AsIdentityIs
    <2> HIDE DEF g1
    <2>7. GetBits(At(buf, Len(u3), g1), 16) = At(buf, Len(w2), g2)
      BY <1>12, <1>17, <2>1
    <2> HIDE DEF g2
    <2>8. QED
      BY <2>2, <2>3, <2>4, <2>5, <2>7 DEF DecodeTAI
  <1>18. QED
    BY <1>14, <1>15, <1>16, <1>17

\* What can be put into a list of cells or of tracking areas.
Identified(alternative, x) ==
    /\ IsPlmn(x.plmn) /\ x = Identity(x.plmn, x.id) /\ x.id \in Nat
    /\ alternative # CellIDList => Fits(x.id, 16)

\* An identity that is written is read.
LEMMA IdPasses ==
    ASSUME NoneIsNoList, NEW w, Listed(w), NEW alternative, NEW x, Identified(alternative, x),
           PutId(alternative, w, x) # None
    PROVE  LET w2 == PutId(alternative, w, x)
           IN  /\ GoesOn(w, w2) /\ Len(w2) <= Len(w) + 68
               /\ \A buf, got : Listed(buf) /\ Listed(got) /\ Starts(w2, buf) =>
                     GetId(alternative, At(buf, Len(w), got)) = At(buf, Len(w2), Append(got, x))
  <1>1. IsPlmn(x.plmn) /\ x = Identity(x.plmn, x.id) /\ x.id \in Nat
    BY DEF Identified
  <1>2. CASE alternative = CellIDList
    <2> DEFINE w2 == EncodeEUTRANCGI(w, x.plmn, x.id)
    <2>1. PutId(alternative, w, x) = w2 /\ w2 # None
      BY <1>2 DEF PutId
    <2>2. x.id < 2^28
      BY <2>1 DEF EncodeEUTRANCGI
    <2>3. Fits(x.id, 28)
      BY <1>1, <2>2 DEF Fits
    <2>4. /\ GoesOn(w, w2) /\ Len(w2) <= Len(w) + 68
          /\ \A buf, got : Listed(buf) /\ Listed(got) /\ Starts(w2, buf) =>
                DecodeEUTRANCGI(At(buf, Len(w), got)) = At(buf, Len(w2), Append(got, Identity(x.plmn, x.id)))
      BY <1>1, <2>2, <2>3, CellPasses
    <2> HIDE DEF w2
    <2>5. \A r : GetId(alternative, r) = DecodeEUTRANCGI(r)
      BY <1>2 DEF GetId
    <2>6. QED
      BY <1>1, <2>1, <2>4, <2>5
  <1>3. CASE alternative # CellIDList
    <2> DEFINE w2 == EncodeTAI(w, x.plmn, x.id)
    <2>1. PutId(alternative, w, x) = w2
      BY <1>3 DEF PutId
    <2>2. Fits(x.id, 16)
      BY <1>3 DEF Identified
    <2>3. /\ GoesOn(w, w2) /\ Len(w2) <= Len(w) + 68
          /\ \A buf, got : Listed(buf) /\ Listed(got) /\ Starts(w2, buf) =>
                DecodeTAI(At(buf, Len(w), got)) = At(buf, Len(w2), Append(got, Identity(x.plmn, x.id)))
      BY <1>1, <2>2, AreaPasses
    <2> HIDE DEF w2
    <2>4. \A r : GetId(alternative, r) = DecodeTAI(r)
      BY <1>3 DEF GetId
    <2>5. QED
      BY <1>1, <2>1, <2>3, <2>4
  <1>4. QED
    BY <1>2, <1>3

\* One that fits is written.
LEMMA IdIsWritten ==
    ASSUME NoneIsNoList, NEW w, Listed(w), NEW alternative, NEW x, Identified(alternative, x),
           alternative = CellIDList => x.id < 2^28
    PROVE  PutId(alternative, w, x) # None
  <1>1. IsPlmn(x.plmn) /\ x.id \in Nat
    BY DEF Identified
  <1>2. CASE alternative = CellIDList
    <2>1. Fits(x.id, 28) /\ x.id < 2^28
      BY <1>1, <1>2 DEF Fits
    <2>2. GoesOn(w, EncodeEUTRANCGI(w, x.plmn, x.id))
      BY <1>1, <2>1, CellPasses
    <2>3. QED
      BY <1>2, <2>2 DEF PutId, GoesOn, NoneIsNoList
  <1>3. CASE alternative # CellIDList
    <2>1. Fits(x.id, 16)
      BY <1>3 DEF Identified
    <2>2. GoesOn(w, EncodeTAI(w, x.plmn, x.id))
      BY <1>1, <2>1, AreaPasses
    <2>3. QED
      BY <1>3, <2>2 DEF PutId, GoesOn, NoneIsNoList
  <1>4. QED
    BY <1>2, <1>3

\* A list of such.
AllIdentified(alternative, list) == Listed(list) /\ \A i \in 1..Len(list) : Identified(alternative, list[i])

\* So is every one of a list of them.
LEMMA IdsStep ==
    ASSUME NoneIsNoList, NEW alternative, NEW list, AllIdentified(alternative, list)
    PROVE  AllPass("PutId", "GetId", alternative, list, list, Len(list))
  <1> SUFFICES ASSUME NEW i \in 1..Len(list), NEW v, Listed(v), Step("PutId", alternative, list, i, v) # None
               PROVE  LET v2 == Step("PutId", alternative, list, i, v)
                      IN  /\ GoesOn(v, v2)
                          /\ \A buf, got : Listed(buf) /\ Listed(got) /\ Starts(v2, buf) =>
                                Step("GetId", alternative, <<>>, i, At(buf, Len(v), got)) =
                                  At(buf, Len(v2), Append(got, list[i]))
    BY DEF Passes, AllPass
  <1>1. Identified(alternative, list[i])
    BY DEF AllIdentified
  <1>2. Step("PutId", alternative, list, i, v) = PutId(alternative, v, list[i])
    BY DEF Step, NoneIsNoList
  <1>3. \A buf, at, got : Step("GetId", alternative, <<>>, i, At(buf, at, got)) = GetId(alternative, At(buf, at, got))
    BY DEF Step, At
  <1> DEFINE w2 == PutId(alternative, v, list[i])
  <1>4. /\ GoesOn(v, w2)
        /\ \A buf, got : Listed(buf) /\ Listed(got) /\ Starts(w2, buf) =>
              GetId(alternative, At(buf, Len(v), got)) = At(buf, Len(w2), Append(got, list[i]))
    BY <1>1, <1>2, IdPasses
  <1> HIDE DEF w2
  <1>5. QED
    BY <1>2, <1>3, <1>4 DEF w2

\* Cells or tracking areas that are written are read.
LEMMA IdsPass ==
    ASSUME NoneIsNoList, NEW w, Listed(w), NEW alternative, NEW list, AllIdentified(alternative, list),
           PutIds(alternative, w, list) # None
    PROVE  LET w2 == PutIds(alternative, w, list)
           IN  /\ GoesOn(w, w2)
               /\ \A buf, got : Listed(buf) /\ Listed(got) /\ Starts(w2, buf) =>
                     GetIds(alternative, At(buf, Len(w), Append(got, Len(list)))) = At(buf, Len(w2), Append(got, list))
  <1> DEFINE n == Len(list)
  <1>1. n \in Nat /\ Listed(list) /\ n = Len(list)
    BY ListLength DEF AllIdentified
  <1>2. PICK f : Walk("PutId", alternative, list, w, n, f) /\ PutIds(alternative, w, list) = f[n]
    BY <1>1, PutIdsWalks
  <1>3. Walks("PutId", alternative, list, w, f, n) /\ f[n] # None
    BY <1>1, <1>2, WalkGoes
  <1>4. AllPass("PutId", "GetId", alternative, list, list, n)
    BY IdsStep
  <1> HIDE DEF n
  <1>5. GoesOn(w, f[n])
    <2>1. Listed(f[n]) /\ Starts(w, f[n])
      BY <1>1, <1>3, <1>4, WayIsWritten, Indices
    <2>2. QED
      BY <2>1 DEF GoesOn
  <1>6. ASSUME NEW buf, NEW got, Listed(buf), Listed(got), Starts(f[n], buf)
        PROVE  GetIds(alternative, At(buf, Len(w), Append(got, n))) = At(buf, Len(f[n]), Append(got, list))
    <2> DEFINE g == Append(got, n)
               r == At(buf, Len(w), g)
    <2>1. Listed(g) /\ Last(g) = n
      BY <1>6, LastIs
    <2>2. r.ok = TRUE /\ r.got = g
      BY DEF At
    <2> HIDE DEF g, r
    <2>3. PICK h : Walk("GetId", alternative, <<>>, r, n, h) /\ GetIds(alternative, r) = Combine(h[n], n + 1, Tail)
      BY <1>1, <2>1, <2>2, GetIdsWalks
    <2>4. Walks("GetId", alternative, <<>>, r, h, n)
      BY <1>1, <2>3, WalkGoes
    <2>5. h[n] = At(buf, Len(f[n]), g \o list)
      BY <1>1, <1>3, <1>4, <1>6, <2>1, <2>4, ListPasses DEF r
    <2>6. Combine(At(buf, Len(f[n]), g \o list), n + 1, Tail) = At(buf, Len(f[n]), Append(got, list))
      BY <1>1, <1>6, CountedIs DEF g
    <2>7. QED
      BY <2>3, <2>5, <2>6 DEF r, g
  <1>7. QED
    BY <1>2, <1>5, <1>6 DEF n

\* Steps of at most 68 bits add up.
LEMMA Sums ==
    /\ \A n \in Nat, m \in Nat, k \in Nat, i \in Nat : i >= 1 /\ m <= k + 68 /\ k <= n + 68 * (i - 1) => m <= n + 68 * i
    /\ \A n \in Nat : n <= n + 68 * 0
  OBVIOUS

\* Cells and tracking areas that fit are written, in so many bits.
LEMMA IdsFit ==
    ASSUME NoneIsNoList, NEW w, Listed(w), NEW alternative, NEW list, AllIdentified(alternative, list),
           alternative = CellIDList => \A i \in 1..Len(list) : list[i].id < 2^28
    PROVE  /\ PutIds(alternative, w, list) # None
           /\ Len(PutIds(alternative, w, list)) <= Len(w) + 68 * Len(list)
  <1> DEFINE n == Len(list)
             Fit(x) == alternative = CellIDList => x.id < 2^28
  <1>1. n \in Nat /\ Listed(list) /\ n = Len(list)
    BY ListLength DEF AllIdentified
  <1>2. PICK f : Walk("PutId", alternative, list, w, n, f) /\ PutIds(alternative, w, list) = f[n]
    BY <1>1, PutIdsWalks
  <1>3. Walks("PutId", alternative, list, w, f, n)
    BY <1>1, <1>2, WalkGoes
  <1>4. \A i \in 1..n : Identified(alternative, list[i]) /\ Fit(list[i])
    BY DEF AllIdentified
  <1> HIDE DEF n, Fit
  <1> DEFINE S == {i \in 0..n : Listed(f[i]) /\ Len(f[i]) <= Len(w) + 68 * i}
  <1>5. f[0] = w /\ \A i \in 1..n : f[i] = Step("PutId", alternative, list, i, f[i - 1])
    BY <1>3 DEF Walks
  <1>6. 0 \in S
    <2>1. Len(w) \in Nat /\ 0 \in 0..n
      BY <1>1, ListLength, Indices
    <2>2. Len(w) <= Len(w) + 68 * 0
      BY <2>1, Sums
    <2>3. QED
      BY <1>5, <2>1, <2>2
  <1>7. ASSUME NEW i \in 1..n, i - 1 \in S PROVE i \in S
    <2> DEFINE v == f[i - 1]
               x == list[i]
    <2>1. Listed(v) /\ Len(v) <= Len(w) + 68 * (i - 1) /\ f[i] = Step("PutId", alternative, list, i, v)
      BY <1>5, <1>7
    <2>2. Identified(alternative, x) /\ Fit(x)
      BY <1>4
    <2>3. f[i] = PutId(alternative, v, x)
      BY <2>1 DEF Step, NoneIsNoList
    <2> HIDE DEF v, x
    <2>4. PutId(alternative, v, x) # None
      BY <2>1, <2>2, IdIsWritten DEF Fit
    <2>5. GoesOn(v, f[i]) /\ Len(f[i]) <= Len(v) + 68
      BY <2>1, <2>2, <2>3, <2>4, IdPasses
    <2>6. Listed(f[i])
      BY <2>5 DEF GoesOn
    <2>7. Len(w) \in Nat /\ Len(v) \in Nat /\ Len(f[i]) \in Nat
      BY <2>1, <2>6, ListLength
    <2>8. i \in Nat /\ i >= 1 /\ i \in 0..n
      BY <1>1
    <2>9. Len(f[i]) <= Len(w) + 68 * i
      BY <2>1, <2>5, <2>7, <2>8, Sums
    <2>10. QED
      BY <2>6, <2>8, <2>9
  <1>8. n \in S
    <2> HIDE DEF S
    <2>1. QED
      BY <1>1, <1>6, <1>7, CountingUp, Indices
  <1>9. Listed(f[n]) /\ Len(f[n]) <= Len(w) + 68 * n
    BY <1>8
  <1>10. QED
    BY <1>2, <1>9 DEF NoneIsNoList, n

\* Nothing is written behind what failed.
LEMMA NoIds ==
    ASSUME NEW alternative, NEW list, Len(list) \in Nat
    PROVE  PutIds(alternative, None, list) = None
  <1> DEFINE n == Len(list)
  <1>1. PICK f : Walk("PutId", alternative, list, None, n, f) /\ PutIds(alternative, None, list) = f[n]
    BY PutIdsWalks
  <1>2. Walks("PutId", alternative, list, None, f, n) /\ n \in Nat
    BY <1>1, WalkGoes
  <1> HIDE DEF n
  <1> DEFINE S == {i \in 0..n : f[i] = None}
  <1>3. 0 \in S
    BY <1>2, Indices DEF Walks
  <1>4. ASSUME NEW i \in 1..n, i - 1 \in S PROVE i \in S
    <2>1. f[i] = Step("PutId", alternative, list, i, f[i - 1]) /\ f[i - 1] = None
      BY <1>2, <1>4 DEF Walks
    <2>2. f[i] = None
      BY <2>1, NoneStays
    <2>3. QED
      BY <1>2, <2>2, Indices
  <1>5. n \in S
    <2> HIDE DEF S
    <2>1. QED
      BY <1>2, <1>3, <1>4, CountingUp, Indices
  <1>6. QED
    BY <1>1, <1>5

-----------------------------------------------------------------------------
(* Values *)

\* Nothing got yet.
LEMMA NothingGot ==
    Listed(<<>>) /\ Len(<<>>) = 0 /\ \A b : Reader(b) = At(b, 0, <<>>)
  BY DEF Listed, ToSet, Reader, At

\* The list of an indication.
ListValue(alternative, ub, list) ==
    Align(PutIds(alternative, PutConstrainedWholeNumber(<<>>, 1, ub, Len(list)), list))

\* It is read.
LEMMA ListValuePasses ==
    ASSUME NoneIsNoList, NEW alternative, NEW list, AllIdentified(alternative, list),
           alternative = CellIDList => \A i \in 1..Len(list) : list[i].id < 2^28,
           NEW ub, InRange(1, ub, Len(list))
    PROVE  LET c == ListValue(alternative, ub, list)
           IN  /\ Whole(c) /\ Filled(c) = c /\ Len(c) <= 24 + 68 * Len(list)
               /\ Finish(GetIds(alternative, GetConstrainedWholeNumber(Reader(c), 1, ub))) = list
  <1> DEFINE none == <<>>
             n == Len(list)
             u1 == PutConstrainedWholeNumber(none, 1, ub, n)
             u2 == PutIds(alternative, u1, list)
             c == Align(u2)
  <1>1. Listed(none) /\ Len(none) = 0 /\ Reader(c) = At(c, 0, none)
    BY NothingGot
  <1> HIDE DEF none
  <1>2. /\ GoesOn(none, u1) /\ Len(u1) = Len(Align(none)) + Width(1, ub)
        /\ \A buf, got : Listed(buf) /\ Listed(got) /\ Starts(u1, buf) =>
              GetConstrainedWholeNumber(At(buf, Len(none), got), 1, ub) = At(buf, Len(u1), Append(got, n))
    <2>1. InRange(1, ub, n)
      OBVIOUS
    <2> HIDE DEF n
    <2>2. QED
      BY <1>1, <2>1, LargePasses
  <1>3. Listed(u1) /\ Len(u1) \in Nat
    BY <1>2, ListLength DEF GoesOn
  <1>4. Len(u1) <= 16
    <2>1. Width(1, ub) \in {8, 16}
      BY WidthIsEnough
    <2>2. Align(none) = none
      BY <1>1, PaddingIsWritten
    <2>3. Len(u1) = 0 + Width(1, ub)
      BY <1>1, <1>2, <2>2
    <2>4. \A k \in {8, 16} : 0 + k <= 16
      OBVIOUS
    <2>5. QED
      BY <2>1, <2>3, <2>4
  <1> HIDE DEF u1
  <1>5. u2 # None /\ Len(u2) <= Len(u1) + 68 * n
    BY <1>3, IdsFit
  <1>6. /\ GoesOn(u1, u2)
        /\ \A buf, got : Listed(buf) /\ Listed(got) /\ Starts(u2, buf) =>
              GetIds(alternative, At(buf, Len(u1), Append(got, n))) = At(buf, Len(u2), Append(got, list))
    BY <1>3, <1>5, IdsPass
  <1>7. Listed(u2) /\ Len(u2) \in Nat
    BY <1>6, ListLength DEF GoesOn
  <1> HIDE DEF u2
  <1>8. Listed(c) /\ Len(c) % 8 = 0 /\ Len(c) = Len(u2) + Padding(Len(u2)) /\ GoesOn(u2, c)
    BY <1>7, PaddingIsWritten, AlignGoesOn
  <1> HIDE DEF c
  <1>9. Starts(u2, c) /\ Starts(u1, c)
    <2>1. Starts(u2, c)
      BY <1>8 DEF GoesOn
    <2>2. QED
      BY <1>3, <1>6, <1>7, <1>8, <2>1, StartsThrough DEF GoesOn
  <1>10. n \in Nat /\ Padding(Len(u2)) \in 0..7
    BY <1>7, PaddingIs, ListLength DEF AllIdentified
  <1>11. Len(c) <= 24 + 68 * n
    <2>1. \A k \in Nat, m \in Nat, p \in 0..7, j \in Nat : m <= k + 68 * j /\ k <= 16 => m + p <= 24 + 68 * j
      OBVIOUS
    <2>2. Len(c) = Len(u2) + Padding(Len(u2)) /\ Len(u2) <= Len(u1) + 68 * n
      BY <1>5, <1>8
    <2> HIDE DEF n
    <2>3. QED
      BY <1>3, <1>4, <1>7, <1>10, <2>1, <2>2, SMTT(30)
  <1>12. c # <<>>
    <2>1. Len(u1) <= Len(c)
      BY <1>9 DEF Starts
    <2>2. Len(u1) >= 8
      <3>1. Width(1, ub) \in {8, 16}
        BY WidthIsEnough
      <3>2. Align(none) = none
        BY <1>1, PaddingIsWritten
      <3>3. Len(u1) = 0 + Width(1, ub)
        BY <1>1, <1>2, <3>2
      <3>4. \A k \in {8, 16} : 0 + k >= 8
        OBVIOUS
      <3>5. QED
        BY <3>1, <3>3, <3>4
    <2>3. QED
      BY <1>3, <2>1, <2>2
  <1>13. Filled(c) = c
    BY <1>12 DEF Filled
  <1>14. GetConstrainedWholeNumber(Reader(c), 1, ub) = At(c, Len(u1), Append(none, n))
    <2>1. Reader(c) = At(c, Len(none), none)
      BY <1>1 DEF c
    <2> HIDE DEF n
    <2>2. QED
      BY <1>1, <1>2, <1>8, <1>9, <2>1
  <1>15. GetIds(alternative, At(c, Len(u1), Append(none, n))) = At(c, Len(u2), Append(none, list))
    <2> HIDE DEF n
    <2>1. QED
      BY <1>1, <1>6, <1>8, <1>9
  <1>16. Finish(At(c, Len(u2), Append(none, list))) = list
    <2>1. Last(Append(none, list)) = list
      BY <1>1, LastIs
    <2>2. QED
      BY <2>1 DEF Finish, At
  <1>17. QED
    BY <1>8, <1>11, <1>13, <1>14, <1>15, <1>16 DEF Whole, ListValue, c, u1, u2, none

\* An area of its two parts.
LEMMA AsAreaIs ==
    ASSUME NEW buf, NEW at, NEW got, Listed(got), NEW a, NEW b
    PROVE  AsArea(At(buf, at, Append(Append(got, a), b))) = At(buf, at, Append(got, [alternative |-> a, ids |-> b]))
  <1> DEFINE p == <<a, b>>
             g == got \o p
  <1>1. Append(Append(got, a), b) = g /\ Listed(p) /\ Len(p) = 2 /\ p[1] = a /\ p[2] = b
    BY TwoAppended
  <1> HIDE DEF p
  <1>2. /\ SubSeq(g, 1, Len(g) - Len(p)) = got
        /\ SubSeq(g, Len(g) - Len(p) + 1, Len(g)) = p
    BY <1>1, TailIs
  <1> HIDE DEF g
  <1>3. SubSeq(g, 1, Len(g) - 2) = got /\ SubSeq(g, Len(g) - 2 + 1, Len(g)) = p
    BY <1>1, <1>2, Zenon
  <1>4. AsArea(At(buf, at, g)) = At(buf, at, Append(got, [alternative |-> a, ids |-> b]))
    BY <1>1, <1>3 DEF AsArea, Combine, At
  <1>5. QED
    BY <1>1, <1>4

\* The identifiers of an area, with their PLMN.
OfArea(plmn, ids) == [i \in 1..Len(ids) |-> Identity(plmn, ids[i])]

\* What an area can list.
AreaIds(alternative, ids) ==
    Listed(ids) /\ \A i \in 1..Len(ids) : ids[i] \in Nat /\ (alternative # CellIDList => Fits(ids[i], 16))

\* The numbers of an area, in the PLMN, are identities.
LEMMA AreaIdentified ==
    ASSUME NEW alternative, NEW plmn, IsPlmn(plmn), NEW ids, AreaIds(alternative, ids)
    PROVE  AllIdentified(alternative, OfArea(plmn, ids)) /\ Len(OfArea(plmn, ids)) = Len(ids)
  <1> DEFINE s == OfArea(plmn, ids)
  <1>1. Len(ids) \in Nat
    BY ListLength DEF AreaIds
  <1>2. s \in Seq({Identity(plmn, ids[i]) : i \in 1..Len(ids)}) /\ Len(s) = Len(ids)
    BY <1>1 DEF OfArea
  <1>3. \A i \in 1..Len(ids) : Identified(alternative, s[i])
    <2>1. \A i \in 1..Len(ids) : s[i] = Identity(plmn, ids[i])
      BY DEF OfArea
    <2>2. \A i \in 1..Len(ids) : Identified(alternative, Identity(plmn, ids[i]))
      BY DEF Identified, Identity, AreaIds
    <2>3. QED
      BY <2>1, <2>2
  <1> HIDE DEF s
  <1>4. QED
    BY <1>2, <1>3, ListsAre DEF AllIdentified, s

\* An area is read, or it could not be written.
LEMMA AreaValuePasses ==
    ASSUME NoneIsNoList, NEW alternative \in {CellIDList, TrackingAreas}, NEW plmn, IsPlmn(plmn),
           NEW ids, AreaIds(alternative, ids)
    PROVE  LET c == EncodeWarningAreaList(alternative, plmn, ids)
           IN  \/ c = None
               \/ /\ Whole(c) /\ Filled(c) = c
                  /\ DecodeWarningAreaList(c) = [alternative |-> alternative, ids |-> OfArea(plmn, ids)]
  <1> DEFINE none == <<>>
             u0 == Bits(0, 1)
             list == OfArea(plmn, ids)
             n == Len(ids)
             u1 == PutConstrainedWholeNumber(u0, 0, 2, alternative)
             u2 == PutConstrainedWholeNumber(u1, 1, 65535, n)
             u3 == PutIds(alternative, u2, list)
             c == Align(u3)
  <1>1. EncodeWarningAreaList(alternative, plmn, ids) = c
    BY DEF EncodeWarningAreaList, OfArea
  <1>2. AllIdentified(alternative, list) /\ Len(list) = n
    BY AreaIdentified
  <1>3. n \in Nat
    BY ListLength DEF AreaIds
  <1> HIDE DEF list
  <1>4. CASE n < 1 \/ n > 65535
    <2>2. u2 = None
      <3> HIDE DEF n, u1
      <3>1. QED
        BY <1>4 DEF PutConstrainedWholeNumber
    <2>3. u3 = None
      <3> HIDE DEF u2
      <3>1. QED
        BY <1>2, <1>3, <2>2, NoIds
    <2>4. c = None
      BY <2>3 DEF Align
    <2>5. QED
      BY <1>1, <2>4
  <1>5. CASE n >= 1 /\ n <= 65535
    <2>1. InRange(1, 65535, n)
      <3> HIDE DEF n
      <3>1. QED
        BY <1>3, <1>5 DEF InRange
    <2>2. Listed(none) /\ Reader(c) = At(c, 0, none)
      BY NothingGot
    <2>3. Listed(u0) /\ Len(u0) = 1
      BY ZeroBits
    <2> HIDE DEF none, n, u0
    <2>4. alternative \in 0..2
      BY DEF CellIDList, TrackingAreas
    <2>5. /\ GoesOn(u0, u1) /\ Len(u1) = Len(u0) + 2
          /\ \A buf, got : Listed(buf) /\ Listed(got) /\ Starts(u1, buf) =>
                GetConstrainedWholeNumber(At(buf, Len(u0), got), 0, 2) = At(buf, Len(u1), Append(got, alternative))
      BY <2>3, <2>4, SmallPasses
    <2>6. Listed(u1)
      BY <2>5 DEF GoesOn
    <2> HIDE DEF u1
    <2>7. /\ GoesOn(u1, u2)
          /\ \A buf, got : Listed(buf) /\ Listed(got) /\ Starts(u2, buf) =>
                GetConstrainedWholeNumber(At(buf, Len(u1), got), 1, 65535) = At(buf, Len(u2), Append(got, n))
      BY <2>1, <2>6, LargePasses
    <2>8. Listed(u2)
      BY <2>7 DEF GoesOn
    <2> HIDE DEF u2
    <2>9. CASE u3 = None
      BY <1>1, <2>9 DEF Align
    <2>10. CASE u3 # None
      <3>1. /\ GoesOn(u2, u3)
            /\ \A buf, got : Listed(buf) /\ Listed(got) /\ Starts(u3, buf) =>
                  GetIds(alternative, At(buf, Len(u2), Append(got, n))) = At(buf, Len(u3), Append(got, list))
        BY <1>2, <2>8, <2>10, IdsPass
      <3>2. Listed(u3)
        BY <3>1 DEF GoesOn
      <3> HIDE DEF u3
      <3>3. Listed(c) /\ Len(c) % 8 = 0 /\ GoesOn(u3, c)
        BY <3>2, PaddingIsWritten, AlignGoesOn
      <3> HIDE DEF c
      <3>4. Starts(u3, c) /\ Starts(u2, c) /\ Starts(u1, c) /\ Starts(u0, c)
        <4>1. Starts(u3, c)
          BY <3>3 DEF GoesOn
        <4>2. Starts(u2, c)
          BY <2>8, <3>1, <3>2, <3>3, <4>1, StartsThrough DEF GoesOn
        <4>3. Starts(u1, c)
          BY <2>6, <2>7, <2>8, <3>3, <4>2, StartsThrough DEF GoesOn
        <4>4. Starts(u0, c)
          BY <2>3, <2>5, <2>6, <3>3, <4>3, StartsThrough DEF GoesOn
        <4>5. QED
          BY <4>1, <4>2, <4>3, <4>4
      <3>5. c # <<>>
        <4>1. Len(u0) <= Len(c)
          BY <3>4 DEF Starts
        <4>2. QED
          BY <2>3, <4>1, NothingGot
      <3>6. Filled(c) = c
        BY <3>5 DEF Filled
      <3>7. GetZero(Reader(c)) = At(c, Len(u0), none)
        BY <3>3, <3>4, FirstZero DEF u0, none
      <3> DEFINE g1 == Append(none, alternative)
                 g2 == Append(g1, n)
                 g3 == Append(g1, list)
      <3>8. Listed(g1) /\ Len(g1) = 1 /\ g1[1] = alternative
        <4>1. Listed(g1) /\ Len(g1) = Len(none) + 1 /\ g1[Len(g1)] = alternative
          BY <2>2, LastIs
        <4>2. Len(none) = 0 /\ 0 + 1 = 1
          BY NothingGot DEF none
        <4> HIDE DEF g1
        <4>3. Len(g1) = 1
          BY <4>1, <4>2
        <4>4. QED
          BY <4>1, <4>3
      <3>9. GetConstrainedWholeNumber(At(c, Len(u0), none), 0, 2) = At(c, Len(u1), g1)
        BY <2>2, <2>5, <3>3, <3>4
      <3>10. AsArea(At(c, Len(u3), g3)) = At(c, Len(u3), Append(none, [alternative |-> alternative, ids |-> list]))
        BY <2>2, AsAreaIs
      <3> HIDE DEF g1
      <3>11. GetConstrainedWholeNumber(At(c, Len(u1), g1), 1, 65535) = At(c, Len(u2), g2)
        BY <2>7, <3>3, <3>4, <3>8
      <3>12. g2[1] = alternative
        <4>1. \A i \in 1..Len(g1) : g2[i] = g1[i]
          BY <3>8, LastIs
        <4>2. 1 \in 1..1
          OBVIOUS
        <4> HIDE DEF g2
        <4>3. QED
          BY <3>8, <4>1, <4>2
      <3>13. GetIds(alternative, At(c, Len(u2), g2)) = At(c, Len(u3), g3)
        BY <3>1, <3>3, <3>4, <3>8
      <3> HIDE DEF g2, g3
      <3>14. GetArea(At(c, Len(u2), g2)) = At(c, Len(u3), g3)
        BY <3>12, <3>13 DEF GetArea, At
      <3>15. Finish(At(c, Len(u3), Append(none, [alternative |-> alternative, ids |-> list])))
               = [alternative |-> alternative, ids |-> list]
        <4> DEFINE v == [alternative |-> alternative, ids |-> list]
        <4> HIDE DEF v
        <4>1. Last(Append(none, v)) = v
          BY <2>2, LastIs
        <4>2. Finish(At(c, Len(u3), Append(none, v))) = v
          BY <4>1 DEF Finish, At
        <4>3. QED
          BY <4>2 DEF v
      <3>16. DecodeWarningAreaList(c) = [alternative |-> alternative, ids |-> list]
        BY <3>7, <3>9, <3>10, <3>11, <3>14, <3>15 DEF DecodeWarningAreaList
      <3>17. QED
        BY <1>1, <3>3, <3>6, <3>16 DEF Whole, list
    <2>11. QED
      BY <2>9, <2>10
  <1>6. QED
    <2> HIDE DEF n, c
    <2>1. (n < 1 \/ n > 65535) \/ (n >= 1 /\ n <= 65535)
      BY <1>3
    <2>2. QED
      BY <1>4, <1>5, <2>1

-----------------------------------------------------------------------------
(* The other values *)

\* One octet, or two.
LEMMA OctetOrTwo ==
    ASSUME NEW n \in {8, 16}, NEW v \in Nat
    PROVE  Whole(Bits(v, n)) /\ Len(Bits(v, n)) = n /\ Filled(Bits(v, n)) = Bits(v, n)
  <1> DEFINE b == Bits(v, n)
  <1>1. Listed(b) /\ Len(b) = n
    <2>1. n \in 0..28
      OBVIOUS
    <2>2. QED
      BY <2>1, BitsListed
  <1> HIDE DEF b
  <1>2. b # <<>>
    BY <1>1
  <1>3. Len(b) % 8 = 0
    BY <1>1
  <1>4. QED
    BY <1>1, <1>2, <1>3 DEF Whole, Filled, b

\* An identifier is read as it was written.
LEMMA IdentifierPasses ==
    ASSUME NoneIsNoList, NEW v, Fits(v, 16)
    PROVE  /\ Whole(Encode16(v)) /\ Len(Encode16(v)) = 16 /\ Filled(Encode16(v)) = Encode16(v)
           /\ Decode16(Encode16(v)) = v
  <1>1. v \in Nat /\ v < 2^16 /\ 16 \in 0..28 /\ 16 \in {8, 16}
    BY DEF Fits
  <1>2. Whole(Encode16(v)) /\ Len(Encode16(v)) = 16 /\ Filled(Encode16(v)) = Encode16(v)
    BY <1>1, OctetOrTwo DEF Encode16
  <1>3. Encode16(v) # None
    BY <1>2 DEF Whole, NoneIsNoList
  <1>4. Number(Encode16(v)) = v
    BY <1>1, NumberOfBits DEF Encode16
  <1>5. QED
    BY <1>2, <1>3, <1>4 DEF Decode16

\* Upper bounds of the numbers in elements.
UpperBound(ub) == ub \in Nat /\ ub >= 255 /\ ub < 65536

\* A number is within its range, or too large.
LEMMA InOrOut ==
    ASSUME NEW ub, UpperBound(ub), NEW v \in Nat
    PROVE  InRange(0, ub, v) \/ v > ub
  BY DEF UpperBound, InRange

\* A number is a whole number of octets, or does not fit.
LEMMA NumberIsWhole ==
    ASSUME NoneIsNoList, NEW ub, UpperBound(ub), NEW v \in Nat
    PROVE  LET c == EncodeConstrainedInt(0, ub, v)
           IN  /\ c = None \/ Whole(c)
               /\ InRange(0, ub, v) => Whole(c) /\ Len(c) <= 24
  <1> DEFINE none == <<>>
             u == PutConstrainedWholeNumber(none, 0, ub, v)
             c == Align(u)
  <1>1. EncodeConstrainedInt(0, ub, v) = c
    BY DEF EncodeConstrainedInt
  <1>2. Listed(none) /\ Len(none) = 0
    BY NothingGot
  <1>3. ASSUME InRange(0, ub, v) PROVE Whole(c) /\ Len(c) <= 24
    <2> HIDE DEF none
    <2>1. GoesOn(none, u) /\ Len(u) = Len(Align(none)) + Width(0, ub)
      BY <1>2, <1>3, LargePasses
    <2>2. Width(0, ub) \in {8, 16}
      BY <1>3, WidthIsEnough
    <2>4. Len(Align(none)) = 0
      <3>1. Len(none) % 8 = 0
        BY <1>2
      <3>2. Align(none) = none
        BY <1>2, <3>1, PaddingIsWritten
      <3>3. QED
        BY <1>2, <3>2
    <2>5. Listed(u) /\ Len(u) = 0 + Width(0, ub)
      BY <2>1, <2>4 DEF GoesOn
    <2> HIDE DEF u
    <2>6. Whole(c)
      BY <2>5, AlignedIsWhole DEF NoneIsNoList
    <2>7. Len(c) = Len(u) + Padding(Len(u)) /\ Padding(Len(u)) \in 0..7
      <3>1. Len(u) \in Nat
        BY <2>2, <2>5
      <3>2. QED
        BY <2>5, <3>1, PaddingIsWritten, PaddingIs
    <2>8. QED
      BY <2>2, <2>5, <2>6, <2>7
  <1>4. ASSUME v > ub PROVE c = None
    <2>1. u = None
      BY <1>4 DEF PutConstrainedWholeNumber
    <2>2. QED
      BY <2>1 DEF Align
  <1>5. QED
    BY <1>1, <1>3, <1>4, InOrOut

\* A text is a whole number of octets, or too long.
LEMMA TextIsWhole ==
    ASSUME NoneIsNoList, NEW data, Whole(data)
    PROVE  LET c == EncodeWarningMessageContent(data) IN c = None \/ Whole(c)
  <1> DEFINE none == <<>>
             n == Len(data) \div 8
             u == PutConstrainedWholeNumber(none, 1, 9600, n)
             c == PutOctets(Align(u), data)
  <1>1. EncodeWarningMessageContent(data) = c
    BY DEF EncodeWarningMessageContent
  <1>2. Listed(none) /\ Len(none) = 0
    BY NothingGot
  <1>3. n \in Nat
    <2>1. Len(data) \in Nat
      BY ListLength DEF Whole
    <2>2. \A k \in Nat : k \div 8 \in Nat
      OBVIOUS
    <2>3. QED
      BY <2>1, <2>2
  <1> HIDE DEF none, n
  <1>4. u = None \/ Listed(u)
    <2>1. CASE InRange(1, 9600, n)
      <3>1. GoesOn(none, u)
        BY <1>2, <2>1, LargePasses
      <3>2. QED
        BY <3>1 DEF GoesOn
    <2>2. CASE n < 1 \/ n > 9600
      BY <2>2 DEF PutConstrainedWholeNumber
    <2>3. InRange(1, 9600, n) \/ (n < 1 \/ n > 9600)
      BY <1>3 DEF InRange
    <2>4. QED
      BY <2>1, <2>2, <2>3
  <1> HIDE DEF u
  <1>5. CASE u = None
    BY <1>1, <1>5 DEF Align, PutOctets
  <1>6. CASE Listed(u)
    <2> DEFINE a == Align(u)
    <2>1. Listed(a) /\ Len(a) % 8 = 0
      BY <1>6, PaddingIsWritten
    <2> HIDE DEF a
    <2>2. a # None /\ data # None
      BY <2>1 DEF NoneIsNoList, Whole
    <2>3. c = a \o data
      BY <2>2 DEF PutOctets, a
    <2>4. Listed(a \o data) /\ Len(a \o data) = Len(a) + Len(data)
      BY <2>1, Joined DEF Whole
    <2>5. (Len(a) + Len(data)) % 8 = 0
      <3>1. Len(a) \in Nat /\ Len(data) \in Nat /\ Len(data) % 8 = 0
        BY <2>1, ListLength DEF Whole
      <3>2. \A j, k \in Nat : j % 8 = 0 /\ k % 8 = 0 => (j + k) % 8 = 0
        OBVIOUS
      <3>3. QED
        BY <2>1, <3>1, <3>2
    <2>6. QED
      BY <1>1, <2>3, <2>4, <2>5 DEF Whole
  <1>7. QED
    BY <1>4, <1>5, <1>6

-----------------------------------------------------------------------------
(* Lists of elements *)

\* Some elements.
Pieces(s) == Listed(s) /\ \A i \in 1..Len(s) : Element(s[i])

\* One element is a list of elements.
LEMMA OnePiece ==
    ASSUME NEW a, Element(a)
    PROVE  Pieces(<<a>>) /\ Len(<<a>>) = 1 /\ <<a>>[1] = a
  <1> DEFINE s == <<a>>
  <1>1. s \in Seq({a}) /\ Len(s) = 1 /\ s[1] = a
    OBVIOUS
  <1> HIDE DEF s
  <1>2. \A i \in 1..Len(s) : i = 1
    BY <1>1
  <1>3. \A i \in 1..Len(s) : Element(s[i])
    BY <1>1, <1>2
  <1>4. Listed(s)
    BY <1>1, ListsAre
  <1>5. QED
    BY <1>1, <1>3, <1>4 DEF Pieces, s

\* Two parts, one after the other.
LEMMA PiecesTogether ==
    ASSUME NEW s, Pieces(s), NEW t, Pieces(t)
    PROVE  /\ Pieces(s \o t) /\ Len(s \o t) = Len(s) + Len(t)
           /\ \A i \in 1..Len(s) : (s \o t)[i] = s[i]
           /\ \A i \in 1..Len(t) : (s \o t)[Len(s) + i] = t[i]
  <1> DEFINE j == s \o t
  <1>1. /\ Listed(j) /\ Len(j) = Len(s) + Len(t)
        /\ \A i \in 1..Len(s) : j[i] = s[i]
        /\ \A i \in 1..Len(t) : j[Len(s) + i] = t[i]
    BY Joined DEF Pieces
  <1> HIDE DEF j
  <1>2. ASSUME NEW i \in 1..Len(j) PROVE Element(j[i])
    <2>1. Len(s) \in Nat /\ Len(t) \in Nat
      BY ListLength DEF Pieces
    <2>2. i \in 1..Len(s) \/ (i - Len(s) \in 1..Len(t) /\ i = Len(s) + (i - Len(s)))
      <3>1. \A n, m \in Nat : \A k \in 1..(n + m) : k \in 1..n \/ (k - n \in 1..m /\ k = n + (k - n))
        OBVIOUS
      <3>2. QED
        BY <1>1, <2>1, <3>1
    <2>3. CASE i \in 1..Len(s)
      BY <1>1, <2>3 DEF Pieces
    <2>4. CASE i - Len(s) \in 1..Len(t) /\ i = Len(s) + (i - Len(s))
      <3> DEFINE k == i - Len(s)
      <3>1. k \in 1..Len(t) /\ i = Len(s) + k
        BY <2>4
      <3> HIDE DEF k
      <3>2. j[i] = t[k] /\ Element(t[k])
        BY <1>1, <3>1 DEF Pieces
      <3>3. QED
        BY <3>2
    <2>5. QED
      BY <2>2, <2>3, <2>4
  <1>3. QED
    BY <1>1, <1>2 DEF Pieces, j

\* So are two.
LEMMA TwoPieces ==
    ASSUME NEW a, Element(a), NEW b, Element(b)
    PROVE  Pieces(<<a, b>>) /\ Len(<<a, b>>) = 2 /\ <<a, b>>[1] = a /\ <<a, b>>[2] = b
  <1> DEFINE s == <<a, b>>
  <1>1. s \in Seq({a, b}) /\ Len(s) = 2 /\ s[1] = a /\ s[2] = b
    OBVIOUS
  <1> HIDE DEF s
  <1>2. \A i \in 1..Len(s) : i = 1 \/ i = 2
    BY <1>1
  <1>3. \A i \in 1..Len(s) : Element(s[i])
    BY <1>1, <1>2
  <1>4. Listed(s)
    BY <1>1, ListsAre
  <1>5. QED
    BY <1>1, <1>3, <1>4 DEF Pieces, s

\* So are three.
LEMMA ThreePieces ==
    ASSUME NEW a, Element(a), NEW b, Element(b), NEW c, Element(c)
    PROVE  /\ Pieces(<<a, b, c>>) /\ Len(<<a, b, c>>) = 3
           /\ <<a, b, c>>[1] = a /\ <<a, b, c>>[2] = b /\ <<a, b, c>>[3] = c
  <1> DEFINE s == <<a, b, c>>
  <1>1. s \in Seq({a, b, c}) /\ Len(s) = 3 /\ s[1] = a /\ s[2] = b /\ s[3] = c
    OBVIOUS
  <1> HIDE DEF s
  <1>2. \A i \in 1..Len(s) : i = 1 \/ i = 2 \/ i = 3
    BY <1>1
  <1>3. \A i \in 1..Len(s) : Element(s[i])
    BY <1>1, <1>2
  <1>4. Listed(s)
    BY <1>1, ListsAre
  <1>5. QED
    BY <1>1, <1>3, <1>4 DEF Pieces, s

\* A few elements can be counted.
LEMMA FewElements ==
    ASSUME NEW s, Pieces(s), Len(s) <= 100
    PROVE  Elements(s)
  <1>1. Len(s) \in Nat
    BY ListLength DEF Pieces
  <1>2. InRange(0, 65535, Len(s))
    BY <1>1 DEF InRange
  <1>3. QED
    BY <1>2 DEF Pieces, Elements

-----------------------------------------------------------------------------
(* Finding an element *)

\* A set of numbers that is not empty has a least one.
LEMMA MinIsLeast ==
    ASSUME NEW S \in SUBSET Nat, S # {}
    PROVE  Min(S) \in S /\ \A x \in S : Min(S) <= x
  <1>1. PICK n \in S : \A x \in S : <<x, n>> \notin OpToRel(<, Nat)
    BY WFMin, NatLessThanWellFounded
  <1>2. ASSUME NEW x \in S PROVE n <= x
    <2>1. x \in Nat /\ n \in Nat
      OBVIOUS
    <2>2. ~(x < n)
      BY <1>1, <2>1 DEF OpToRel
    <2>3. QED
      BY <2>1, <2>2
  <1>3. \E y \in S : \A x \in S : y <= x
    BY <1>2
  <1>4. QED
    BY <1>3 DEF Min

\* The first with this id is found.
LEMMA FoundFirst ==
    ASSUME NEW s, Pieces(s), NEW id, NEW k \in 1..Len(s), s[k].id = id,
           \A j \in 1..Len(s) : j < k => s[j].id # id
    PROVE  FindIE(AllReceived(s), id) = Filled(s[k].value)
  <1> DEFINE r == AllReceived(s)
             found == {i \in 1..Len(r) : r[i].id = id}
  <1>1. Len(s) \in Nat /\ Listed(r) /\ Len(r) = Len(s)
    BY ListLength, ReceivedListed DEF Pieces
  <1>2. \A i \in 1..Len(s) : r[i].id = s[i].id /\ r[i].value = Filled(s[i].value)
    BY DEF AllReceived, Received, IE
  <1> HIDE DEF r
  <1>3. k \in found /\ found \in SUBSET Nat
    BY <1>1, <1>2
  <1>4. Min(found) \in found /\ Min(found) <= k
    BY <1>3, MinIsLeast
  <1>5. Min(found) = k
    <2>1. Min(found) \in 1..Len(s) /\ s[Min(found)].id = id
      BY <1>1, <1>2, <1>4
    <2>2. ~(Min(found) < k)
      BY <2>1
    <2>3. QED
      BY <1>4, <2>1, <2>2
  <1>6. FindIE(r, id) = r[k].value
    BY <1>3, <1>5 DEF FindIE
  <1>7. QED
    BY <1>2, <1>6 DEF r

\* None is found if there is none.
LEMMA NoneFound ==
    ASSUME NEW s, Pieces(s), NEW id, \A j \in 1..Len(s) : s[j].id # id
    PROVE  FindIE(AllReceived(s), id) = None
  <1> DEFINE r == AllReceived(s)
  <1>1. Len(r) = Len(s)
    BY ReceivedListed DEF Pieces
  <1>2. \A i \in 1..Len(s) : r[i].id = s[i].id
    BY DEF AllReceived, Received, IE
  <1> HIDE DEF r
  <1>3. {i \in 1..Len(r) : r[i].id = id} = {}
    BY <1>1, <1>2
  <1>4. QED
    BY <1>3 DEF FindIE, r

-----------------------------------------------------------------------------
(* A short PDU can be encoded *)

\* A value of at most so many bits.
Fitting(ie) == Element(ie) /\ ie.value # None /\ Len(Filled(ie.value)) <= 17500

\* Filling up a short value keeps it short.
LEMMA FilledLength ==
    ASSUME NoneIsNoList, NEW v, Whole(v)
    PROVE  Len(Filled(v)) \in Nat /\ Listed(Filled(v)) /\ Len(Filled(v)) % 8 = 0 /\ (Len(v) <= 17500 => Len(Filled(v)) <= 17500)
  <1>1. CASE v = <<>>
    <2>1. Filled(v) = Bits(0, 8) /\ 8 \in 0..28 /\ 0 \in Nat
      BY <1>1 DEF Filled
    <2>2. Listed(Filled(v)) /\ Len(Filled(v)) = 8
      BY <2>1, BitsListed
    <2>3. QED
      BY <2>2
  <1>2. CASE v # <<>>
    BY <1>2, ListLength DEF Filled, Whole
  <1>3. QED
    BY <1>1, <1>2

\* The value of an element that fits can be contained in an open type.
LEMMA FittingIsContained ==
    ASSUME NoneIsNoList, NEW ie, Fitting(ie)
    PROVE  Contained(ie.value) /\ 8 * OctetCount(ie.value) = Len(Filled(ie.value)) /\ OctetCount(ie.value) <= 16383
  <1>1. Whole(ie.value)
    BY DEF Fitting, Element
  <1>2. Len(Filled(ie.value)) \in Nat /\ Len(Filled(ie.value)) <= 17500 /\ Len(Filled(ie.value)) % 8 = 0
    BY <1>1, FilledLength DEF Fitting
  <1>3. \A n \in Nat : n <= 17500 => n \div 8 <= 16383
    OBVIOUS
  <1>4. Contained(ie.value)
    <2> DEFINE n == Len(Filled(ie.value))
    <2>1. n \in Nat /\ n <= 17500
      BY <1>2
    <2> HIDE DEF n
    <2>2. n \div 8 <= 16383
      BY <1>3, <2>1
    <2>3. Len(Filled(ie.value)) = n
      BY DEF n
    <2> DEFINE c == ie.value
    <2>4. Whole(c) /\ Len(Filled(c)) = n
      BY <1>1, <2>3
    <2> HIDE DEF c
    <2>5. Contained(c)
      BY <2>2, <2>4 DEF Contained, Whole
    <2>6. QED
      BY <2>5 DEF c
  <1>5. QED
    BY <1>4, FilledIs

\* The bits around a short value are few.
LEMMA ElementBounds ==
    ASSUME NEW n \in Nat, NEW a \in 0..7, NEW b \in 0..7, NEW l \in {8, 16}, NEW m \in Nat, m <= 17500
    PROVE  ((((n + a) + 16) + 2) + b) + l + m <= n + 17600
  OBVIOUS

\* An element is written, in so many bits.
LEMMA ElementFits ==
    ASSUME NoneIsNoList, NEW w, Listed(w), NEW ie, Fitting(ie)
    PROVE  Listed(PutIE(w, ie)) /\ Len(PutIE(w, ie)) <= Len(w) + 17600
  <1> DEFINE id == ie.id
             crit == ie.criticality
             c == ie.value
             u1 == PutConstrainedWholeNumber(w, 0, 65535, id)
             u2 == PutConstrainedWholeNumber(u1, 0, 2, crit)
             w2 == PutOpenType(u2, c)
  <1>1. InRange(0, 65535, id) /\ crit \in 0..2
    BY DEF Fitting, Element
  <1>2. PutIE(w, ie) = w2
    BY DEF PutIE
  <1>3. Contained(c) /\ 8 * OctetCount(c) = Len(Filled(c)) /\ OctetCount(c) <= 16383
    BY FittingIsContained
  <1>4. Len(Filled(c)) <= 17500
    BY DEF Fitting
  <1> HIDE DEF id, crit, c
  <1>5. GoesOn(w, u1) /\ Len(u1) = Len(Align(w)) + Width(0, 65535)
    BY <1>1, LargePasses
  <1>6. Listed(u1)
    BY <1>5 DEF GoesOn
  <1>7. Width(0, 65535) = 16
    BY DEF Width
  <1>8. Len(Align(w)) = Len(w) + Padding(Len(w)) /\ Len(w) \in Nat /\ Padding(Len(w)) \in 0..7
    BY PaddingIsWritten, ListLength, PaddingIs
  <1> HIDE DEF u1
  <1>9. GoesOn(u1, u2) /\ Len(u2) = Len(u1) + 2
    BY <1>1, <1>6, SmallPasses
  <1>10. Listed(u2)
    BY <1>9 DEF GoesOn
  <1> HIDE DEF u2
  <1>11. Len(Align(u2)) = Len(u2) + Padding(Len(u2)) /\ Len(u2) \in Nat /\ Padding(Len(u2)) \in 0..7
    BY <1>10, PaddingIsWritten, ListLength, PaddingIs
  <1>12. GoesOn(u2, w2) /\ Len(w2) = Len(Align(u2)) + Len(Length(OctetCount(c))) + 8 * OctetCount(c)
    BY <1>3, <1>10, OpenTypePasses
  <1>13. Listed(w2)
    BY <1>12 DEF GoesOn
  <1>14. Len(Length(OctetCount(c))) \in {8, 16} /\ OctetCount(c) \in Nat
    BY <1>3, FilledIs, LengthIs
  <1> HIDE DEF w2
  <1>15. Len(w2) <= Len(w) + 17600
    <2> DEFINE n == Len(w)
               a == Padding(Len(w))
               b == Padding(Len(u2))
               l == Len(Length(OctetCount(c)))
               m == Len(Filled(c))
    <2>1. n \in Nat /\ a \in 0..7 /\ b \in 0..7 /\ l \in {8, 16} /\ m \in Nat /\ m <= 17500
      BY <1>3, <1>4, <1>8, <1>11, <1>14
    <2>2. Len(w2) = ((((n + a) + 16) + 2) + b) + l + m
      BY <1>3, <1>5, <1>7, <1>8, <1>9, <1>11, <1>12, SMTT(30)
    <2> HIDE DEF n, a, b, l, m
    <2>3. Len(w2) <= n + 17600
      BY <2>1, <2>2, ElementBounds
    <2>4. QED
      BY <2>3 DEF n
  <1>16. QED
    BY <1>2, <1>13, <1>15

\* Steps of at most 17600 bits add up.
LEMMA ThreeSums ==
    \A n \in Nat, m \in Nat, k \in Nat, i \in Nat :
        i >= 1 /\ m <= k + 17600 /\ k <= n + 17600 * (i - 1) => m <= n + 17600 * i
  OBVIOUS

\* Some of them.
AllFitting(ies) == Listed(ies) /\ \A i \in 1..Len(ies) : Fitting(ies[i])

\* Elements that fit are written, and few bits.
LEMMA ElementsFit ==
    ASSUME NoneIsNoList, NEW w, Listed(w), NEW ies, AllFitting(ies)
    PROVE  Listed(PutIEs(w, ies)) /\ Len(PutIEs(w, ies)) <= Len(w) + 17600 * Len(ies)
  <1> DEFINE n == Len(ies)
  <1>1. n \in Nat
    BY ListLength DEF AllFitting
  <1>2. PICK f : Walk("PutIE", 0, ies, w, n, f) /\ PutIEs(w, ies) = f[n]
    BY <1>1, PutIEsWalks
  <1>3. Walks("PutIE", 0, ies, w, f, n)
    BY <1>1, <1>2, WalkGoes
  <1>4. \A i \in 1..n : Fitting(ies[i])
    BY DEF AllFitting
  <1> HIDE DEF n
  <1> DEFINE S == {i \in 0..n : Listed(f[i]) /\ Len(f[i]) <= Len(w) + 17600 * i}
  <1>5. f[0] = w /\ \A i \in 1..n : f[i] = Step("PutIE", 0, ies, i, f[i - 1])
    BY <1>3 DEF Walks
  <1>6. 0 \in S
    <2>1. Len(w) \in Nat /\ 0 \in 0..n
      BY <1>1, ListLength, Indices
    <2>2. Len(w) <= Len(w) + 17600 * 0
      BY <2>1
    <2>3. QED
      BY <1>5, <2>1, <2>2
  <1>7. ASSUME NEW i \in 1..n, i - 1 \in S PROVE i \in S
    <2> DEFINE v == f[i - 1]
               x == ies[i]
    <2>1. Listed(v) /\ Len(v) <= Len(w) + 17600 * (i - 1) /\ f[i] = Step("PutIE", 0, ies, i, v)
      BY <1>5, <1>7
    <2>2. Fitting(x)
      BY <1>4
    <2>3. f[i] = PutIE(v, x)
      BY <2>1 DEF Step, NoneIsNoList
    <2> HIDE DEF v, x
    <2>4. Listed(f[i]) /\ Len(f[i]) <= Len(v) + 17600
      <3>1. Listed(v)
        BY <2>1
      <3>2. Listed(PutIE(v, x)) /\ Len(PutIE(v, x)) <= Len(v) + 17600
        BY <2>2, <3>1, ElementFits
      <3>3. QED
        BY <2>3, <3>2
    <2>5. Len(w) \in Nat /\ Len(v) \in Nat /\ Len(f[i]) \in Nat
      BY <2>1, <2>4, ListLength
    <2>6. i \in Nat /\ i >= 1 /\ i \in 0..n
      BY <1>1
    <2>7. Len(f[i]) <= Len(w) + 17600 * i
      BY <2>1, <2>4, <2>5, <2>6, ThreeSums
    <2>8. QED
      BY <2>4, <2>6, <2>7
  <1>8. n \in S
    <2> HIDE DEF S
    <2>1. QED
      BY <1>1, <1>6, <1>7, CountingUp, Indices
  <1>9. Listed(f[n]) /\ Len(f[n]) <= Len(w) + 17600 * n
    BY <1>8
  <1>10. QED
    BY <1>2, <1>9 DEF n

\* A body of at most three of them is short enough for one fragment.
LEMMA ShortBody ==
    ASSUME NEW n \in Nat, n <= 3, NEW p \in 0..7, NEW q \in 0..7, NEW m \in Nat, m <= (((2 + p) + 16) + 17600 * n)
    PROVE  (m + q) \div 8 <= 16383
  OBVIOUS

\* A PDU of at most three of them can be encoded.
LEMMA ShortPdu ==
    ASSUME NoneIsNoList, NEW choice, NEW procedure, NEW criticality, Heading(choice, procedure, criticality),
           NEW ies, AllFitting(ies), Len(ies) <= 3
    PROVE  Elements(ies) /\ EncodePDU(choice, procedure, criticality, ies) # None
  <1> DEFINE u0 == Bits(0, 2)
             n == Len(ies)
             u1 == PutConstrainedWholeNumber(u0, 0, 65535, n)
             u2 == PutIEs(u1, ies)
             b == Align(u2)
  <1>1. EncodeMessageBody(ies) = b
    BY DEF EncodeMessageBody, PutIEContainer
  <1>2. n \in Nat /\ n <= 3
    BY ListLength DEF AllFitting
  <1>3. Pieces(ies)
    BY DEF AllFitting, Fitting, Pieces
  <1>4. Elements(ies) /\ InRange(0, 65535, n)
    <2>1. Len(ies) <= 100
      BY <1>2
    <2>2. Elements(ies)
      BY <1>3, <2>1, FewElements
    <2>3. QED
      BY <2>2 DEF Elements
  <1>5. Listed(u0) /\ Len(u0) = 2
    BY ZeroBits
  <1> HIDE DEF u0, n
  <1>6. GoesOn(u0, u1) /\ Len(u1) = Len(Align(u0)) + Width(0, 65535)
    BY <1>4, <1>5, LargePasses
  <1>7. Listed(u1) /\ Len(u1) = (2 + Padding(2)) + 16 /\ Padding(2) \in 0..7
    <2>1. Width(0, 65535) = 16
      BY DEF Width
    <2>2. Len(Align(u0)) = 2 + Padding(2)
      BY <1>5, PaddingIsWritten
    <2>3. Padding(2) \in 0..7
      BY PaddingIs
    <2>4. QED
      BY <1>6, <2>1, <2>2, <2>3 DEF GoesOn
  <1> HIDE DEF u1
  <1>8. Listed(u2) /\ Len(u2) <= Len(u1) + 17600 * n
    BY <1>7, ElementsFit DEF n
  <1> HIDE DEF u2
  <1>9. Whole(b) /\ Len(b) = Len(u2) + Padding(Len(u2)) /\ Len(u2) \in Nat /\ Padding(Len(u2)) \in 0..7
    <2>1. Len(u2) \in Nat
      BY <1>8, ListLength
    <2>2. Listed(b) /\ Len(b) % 8 = 0 /\ Len(b) = Len(u2) + Padding(Len(u2))
      BY <1>8, PaddingIsWritten
    <2>3. QED
      BY <2>1, <2>2, PaddingIs DEF Whole
  <1>10. Len(b) \div 8 <= 16383
    <2> DEFINE p == Padding(2)
               q == Padding(Len(u2))
               m == Len(u2)
    <2>1. p \in 0..7 /\ q \in 0..7 /\ m \in Nat /\ m <= (((2 + p) + 16) + 17600 * n) /\ Len(b) = m + q
      BY <1>7, <1>8, <1>9
    <2> HIDE DEF p, q, m, b
    <2>2. QED
      BY <1>2, <2>1, ShortBody
  <1>11. Contained(b)
    <2> HIDE DEF b
    <2>1. b # None
      BY <1>9 DEF Whole, NoneIsNoList
    <2>2. Filled(b) = b
      BY <1>1, <1>4, <2>1, BodyPasses
    <2>3. QED
      BY <1>9, <1>10, <2>2 DEF Contained, Whole
  <1> HIDE DEF b
  <1>12. Listed(EncodePDU(choice, procedure, criticality, ies))
    BY <1>1, <1>11, PduIsWritten
  <1>13. QED
    BY <1>4, <1>12 DEF NoneIsNoList

=============================================================================
