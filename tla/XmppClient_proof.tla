-------------------------- MODULE XmppClient_proof --------------------------
(***************************************************************************)
(* Proofs about XmppClient, for any alerts, delays, bounds and faults.     *)
(***************************************************************************)
EXTENDS XmppClient, TLAPS

-----------------------------------------------------------------------------
(* The handshake, step by step *)

Written == {"stream", "starttls", "auth", "bind"}
Awaited == {"stream", "features", "features+tls", "proceed", "success", "iq"}

Steps == [do : {"write"}, what : Written] \cup [do : {"read"}, what : Awaited]
         \cup {[do |-> "tls"]}

\* The steps of a session are steps.
LEMMA StepTypes ==
    /\ \A e \in Written : Write(e) \in Steps /\ Write(e).do = "write" /\ Write(e).what = e
    /\ \A e \in Awaited : Read(e) \in Steps /\ Read(e).do = "read" /\ Read(e).what = e
    /\ [do |-> "tls"] \in Steps /\ [do |-> "tls"].do = "tls"
  BY DEF Steps, Write, Read

\* direct_tls: TLS first, then the protected stream.
LEMMA HandshakeDirect ==
    LET q == Handshake("direct_tls")
    IN  /\ q \in Seq(Steps) /\ Len(q) = 11
        /\ q[1] = [do |-> "tls"] /\ q[2] = Write("stream") /\ q[3] = Read("stream")
        /\ q[4] = Read("features") /\ q[5] = Write("auth") /\ q[6] = Read("success")
        /\ q[7] = Write("stream") /\ q[8] = Read("stream") /\ q[9] = Read("features")
        /\ q[10] = Write("bind") /\ q[11] = Read("iq")
  <1>1. /\ Write("stream") \in Steps /\ Write("auth") \in Steps /\ Write("bind") \in Steps
        /\ Read("stream") \in Steps /\ Read("features") \in Steps /\ Read("success") \in Steps
        /\ Read("iq") \in Steps /\ [do |-> "tls"] \in Steps
    BY StepTypes DEF Written, Awaited
  <1>2. QED
    BY <1>1 DEF Handshake, openStream, Authenticate, Bind

\* plain: STARTTLS in the clear, TLS as sixth step, then the protected stream.
LEMMA HandshakePlain ==
    LET q == Handshake("plain")
    IN  /\ q \in Seq(Steps) /\ Len(q) = 16
        /\ q[1] = Write("stream") /\ q[2] = Read("stream") /\ q[3] = Read("features+tls")
        /\ q[4] = Write("starttls") /\ q[5] = Read("proceed") /\ q[6] = [do |-> "tls"]
        /\ q[7] = Write("stream") /\ q[8] = Read("stream") /\ q[9] = Read("features")
        /\ q[10] = Write("auth") /\ q[11] = Read("success") /\ q[12] = Write("stream")
        /\ q[13] = Read("stream") /\ q[14] = Read("features") /\ q[15] = Write("bind")
        /\ q[16] = Read("iq")
  <1>1. /\ Write("stream") \in Steps /\ Write("auth") \in Steps /\ Write("bind") \in Steps
        /\ Read("stream") \in Steps /\ Read("features") \in Steps /\ Read("success") \in Steps
        /\ Read("iq") \in Steps /\ [do |-> "tls"] \in Steps
        /\ Read("features+tls") \in Steps /\ Write("starttls") \in Steps /\ Read("proceed") \in Steps
    BY StepTypes DEF Written, Awaited
  <1>2. QED
    BY <1>1 DEF Handshake, openStream, StartTLS, Authenticate, Bind

TlsStep(m) == IF m = "plain" THEN 6 ELSE 1

\* What step n + 1 of a handshake of len steps may be, TLS being step first:
\* TLS comes when its turn is, ahead of it only what leads to it is written and
\* awaited, and the bind is the last element written.
StepFits(now, n, first, len) ==
    /\ now.do \in {"write", "read", "tls"}
    /\ now.do = "write" => now.what \in Written
    /\ now.do = "read" => now.what \in Awaited
    /\ now.do = "tls" <=> n + 1 = first
    /\ now.do # "tls" /\ n < first
         => now.what \in {"stream", "features+tls", "starttls", "proceed"}
    /\ now.do = "write" /\ now.what = "bind" => n + 2 = len

\* Every step of the STARTTLS handshake fits.
LEMMA PlainFits == \A n \in 0..15 : StepFits(Handshake("plain")[n + 1], n, 6, 16)
  <1> DEFINE q == Handshake("plain")
  <1>1. /\ q[1] = Write("stream") /\ q[2] = Read("stream") /\ q[3] = Read("features+tls")
        /\ q[4] = Write("starttls") /\ q[5] = Read("proceed") /\ q[6] = [do |-> "tls"]
        /\ q[7] = Write("stream") /\ q[8] = Read("stream") /\ q[9] = Read("features")
        /\ q[10] = Write("auth") /\ q[11] = Read("success") /\ q[12] = Write("stream")
        /\ q[13] = Read("stream") /\ q[14] = Read("features") /\ q[15] = Write("bind")
        /\ q[16] = Read("iq")
    BY HandshakePlain
  <1> HIDE DEF q
  <1>2. /\ StepFits(q[1], 0, 6, 16) /\ StepFits(q[2], 1, 6, 16) /\ StepFits(q[3], 2, 6, 16)
        /\ StepFits(q[4], 3, 6, 16) /\ StepFits(q[5], 4, 6, 16) /\ StepFits(q[6], 5, 6, 16)
        /\ StepFits(q[7], 6, 6, 16) /\ StepFits(q[8], 7, 6, 16) /\ StepFits(q[9], 8, 6, 16)
        /\ StepFits(q[10], 9, 6, 16) /\ StepFits(q[11], 10, 6, 16) /\ StepFits(q[12], 11, 6, 16)
        /\ StepFits(q[13], 12, 6, 16) /\ StepFits(q[14], 13, 6, 16) /\ StepFits(q[15], 14, 6, 16)
        /\ StepFits(q[16], 15, 6, 16)
    BY <1>1 DEF StepFits, Write, Read, Written, Awaited
  <1>3. SUFFICES ASSUME NEW n \in 0..15
                 PROVE  StepFits(q[n + 1], n, 6, 16)
    BY DEF q
  <1>4. \/ n = 0 \/ n = 1 \/ n = 2 \/ n = 3 \/ n = 4 \/ n = 5 \/ n = 6 \/ n = 7
        \/ n = 8 \/ n = 9 \/ n = 10 \/ n = 11 \/ n = 12 \/ n = 13 \/ n = 14 \/ n = 15
    OBVIOUS
  <1>5. QED
    BY <1>2, <1>4

\* Every step of the handshake inside TLS from the start fits.
LEMMA DirectFits == \A n \in 0..10 : StepFits(Handshake("direct_tls")[n + 1], n, 1, 11)
  <1> DEFINE q == Handshake("direct_tls")
  <1>1. /\ q[1] = [do |-> "tls"] /\ q[2] = Write("stream") /\ q[3] = Read("stream")
        /\ q[4] = Read("features") /\ q[5] = Write("auth") /\ q[6] = Read("success")
        /\ q[7] = Write("stream") /\ q[8] = Read("stream") /\ q[9] = Read("features")
        /\ q[10] = Write("bind") /\ q[11] = Read("iq")
    BY HandshakeDirect
  <1> HIDE DEF q
  <1>2. /\ StepFits(q[1], 0, 1, 11) /\ StepFits(q[2], 1, 1, 11) /\ StepFits(q[3], 2, 1, 11)
        /\ StepFits(q[4], 3, 1, 11) /\ StepFits(q[5], 4, 1, 11) /\ StepFits(q[6], 5, 1, 11)
        /\ StepFits(q[7], 6, 1, 11) /\ StepFits(q[8], 7, 1, 11) /\ StepFits(q[9], 8, 1, 11)
        /\ StepFits(q[10], 9, 1, 11) /\ StepFits(q[11], 10, 1, 11)
    BY <1>1 DEF StepFits, Write, Read, Written, Awaited
  <1>3. SUFFICES ASSUME NEW n \in 0..10
                 PROVE  StepFits(q[n + 1], n, 1, 11)
    BY DEF q
  <1>4. \/ n = 0 \/ n = 1 \/ n = 2 \/ n = 3 \/ n = 4 \/ n = 5 \/ n = 6 \/ n = 7
        \/ n = 8 \/ n = 9 \/ n = 10
    OBVIOUS
  <1>5. QED
    BY <1>2, <1>4

\* How many steps the handshake has.
Total(m) == Len(Handshake(m))

\* 16 with STARTTLS, 11 without.
LEMMA Totals == Total("plain") = 16 /\ Total("direct_tls") = 11
  BY HandshakePlain, HandshakeDirect DEF Total

\* The handshake is over long after TLS.
LEMMA HandshakeLength ==
    ASSUME TypeOK
    PROVE  /\ Total(mode) \in Nat /\ step \in Nat /\ step <= Total(mode)
           /\ TlsStep(mode) \in Nat \ {0} /\ TlsStep(mode) + 1 < Total(mode)
  <1>1. mode \in {"plain", "direct_tls"} /\ step \in 0..Total(mode)
    BY DEF TypeOK, Total
  <1>2. QED
    BY <1>1, Totals DEF TlsStep

\* What the next step of the handshake may be.
LEMMA NowFits ==
    ASSUME TypeOK, step < Total(mode)
    PROVE  StepFits(Now, step, TlsStep(mode), Total(mode))
  <1>1. mode = "plain" \/ mode = "direct_tls"
    BY DEF TypeOK
  <1>2. step \in Nat
    BY HandshakeLength
  <1>3. CASE mode = "plain"
    <2>1. step \in 0..15 /\ TlsStep(mode) = 6 /\ Total(mode) = 16
      BY <1>2, <1>3, Totals DEF TlsStep
    <2>2. QED
      BY <1>3, <2>1, PlainFits DEF Now
  <1>4. CASE mode = "direct_tls"
    <2>1. step \in 0..10 /\ TlsStep(mode) = 1 /\ Total(mode) = 11
      BY <1>2, <1>4, Totals DEF TlsStep
    <2>2. QED
      BY <1>4, <2>1, DirectFits DEF Now
  <1>5. QED
    BY <1>1, <1>3, <1>4

-----------------------------------------------------------------------------
(* Alerts in the inbox *)

\* at lists the places of the alerts in box, of length len, which are the num
\* members of s after its n-th.
Places(at, box, len, s, n, num) ==
    /\ at \in [1..num -> 1..len]
    /\ \A k, l \in 1..num : k < l => at[k] < at[l]
    /\ \A k \in 1..num : box[at[k]].el = "alert" /\ box[at[k]].alert = s[n + k]
    /\ \A i \in 1..len : box[i].el = "alert" => \E k \in 1..num : at[k] = i

\* HoldsRest says that there are such places.
LEMMA PlacesHold ==
    ASSUME NEW box \in Seq(Elements), NEW s \in Seq(Alerts), NEW n \in Nat
    PROVE  HoldsRest(box, s, n) <=> \E at : Places(at, box, Len(box), s, n, Len(s) - n)
  <1>1. DOMAIN box = 1..Len(box)
    OBVIOUS
  <1>2. ASSUME NEW at \in [1..(Len(s) - n) -> DOMAIN box]
        PROVE  DOMAIN at = 1..(Len(s) - n)
    OBVIOUS
  <1>3. QED
    BY <1>1, <1>2, ZenonT(60) DEF HoldsRest, Places

\* Without a first element that is no alert, every place moves one ahead.
LEMMA PlacesSkip ==
    ASSUME NEW box, NEW len \in Nat \ {0}, NEW rest, NEW s, NEW n \in Nat, NEW num \in Int,
           \A i \in 1..(len - 1) : rest[i] = box[i + 1],
           box[1].el # "alert",
           NEW at, Places(at, box, len, s, n, num)
    PROVE  \E moved : Places(moved, rest, len - 1, s, n, num)
  <1> DEFINE new == [k \in 1..num |-> at[k] - 1]
  <1>1. \A k \in 1..num : at[k] \in 1..len /\ box[at[k]].el = "alert"
    BY DEF Places
  <1>2. \A k \in 1..num : at[k] \in 2..len
    BY <1>1
  <1>3. \A k \in 1..num : new[k] = at[k] - 1 /\ new[k] \in 1..(len - 1) /\ new[k] + 1 = at[k]
    BY <1>2
  <1>4. new \in [1..num -> 1..(len - 1)]
    BY <1>3
  <1> HIDE DEF new
  <1>5. \A k \in 1..num : rest[new[k]] = box[at[k]]
    BY <1>3
  <1>6. \A k, l \in 1..num : k < l => new[k] < new[l]
    <2>1. \A k, l \in 1..num : k < l => at[k] < at[l]
      BY DEF Places
    <2>2. QED
      BY <1>2, <1>3, <2>1
  <1>7. ASSUME NEW i \in 1..(len - 1), rest[i].el = "alert"
        PROVE  \E k \in 1..num : new[k] = i
    <2>1. i + 1 \in 1..len /\ box[i + 1].el = "alert"
      BY <1>7
    <2>2. PICK k \in 1..num : at[k] = i + 1
      BY <2>1 DEF Places
    <2>3. QED
      BY <1>3, <2>2
  <1>8. QED
    <2>1. \A k \in 1..num : box[at[k]].el = "alert" /\ box[at[k]].alert = s[n + k]
      BY DEF Places
    <2>2. Places(new, rest, len - 1, s, n, num)
      BY <1>4, <1>5, <1>6, <1>7, <2>1 DEF Places
    <2>3. QED
      BY <2>2

\* A first element that is an alert is the next one of s; the places of the
\* others move one ahead.
LEMMA PlacesTake ==
    ASSUME NEW box, NEW len \in Nat \ {0}, NEW rest, NEW s, NEW n \in Nat, NEW num \in Int,
           \A i \in 1..(len - 1) : rest[i] = box[i + 1],
           box[1].el = "alert",
           NEW at, Places(at, box, len, s, n, num)
    PROVE  /\ num >= 1 /\ box[1].alert = s[n + 1]
           /\ \E moved : Places(moved, rest, len - 1, s, n + 1, num - 1)
  <1> DEFINE new == [k \in 1..(num - 1) |-> at[k + 1] - 1]
  <1>1. \A k \in 1..num : at[k] \in 1..len
    BY DEF Places
  <1>2. \A k, l \in 1..num : k < l => at[k] < at[l]
    BY DEF Places
  <1>3. 1 \in 1..len
    OBVIOUS
  <1>4. PICK k1 \in 1..num : at[k1] = 1
    BY <1>3 DEF Places
  <1>5. 1 \in 1..num /\ num >= 1
    BY <1>4
  <1>6. at[1] = 1
    <2>1. 1 < k1 => at[1] < at[k1]
      BY <1>2, <1>4, <1>5
    <2>2. at[1] \in 1..len
      BY <1>1, <1>5
    <2>3. QED
      BY <1>4, <2>1, <2>2
  <1>7. box[1].alert = s[n + 1]
    BY <1>5, <1>6 DEF Places
  <1>8. \A k \in 1..(num - 1) : k + 1 \in 1..num /\ 1 < k + 1
    OBVIOUS
  <1>9. \A k \in 1..(num - 1) : at[k + 1] \in 2..len
    BY <1>1, <1>2, <1>5, <1>6, <1>8
  <1>10. \A k \in 1..(num - 1) :
            new[k] = at[k + 1] - 1 /\ new[k] \in 1..(len - 1) /\ new[k] + 1 = at[k + 1]
    BY <1>9
  <1>11. new \in [1..(num - 1) -> 1..(len - 1)]
    BY <1>10
  <1> HIDE DEF new
  <1>12. \A k, l \in 1..(num - 1) : k < l => new[k] < new[l]
    <2> SUFFICES ASSUME NEW k \in 1..(num - 1), NEW l \in 1..(num - 1), k < l
                 PROVE  new[k] < new[l]
      OBVIOUS
    <2>1. at[k + 1] < at[l + 1]
      BY <1>2, <1>8
    <2>2. QED
      BY <1>9, <1>10, <2>1
  <1>13. \A k \in 1..(num - 1) : rest[new[k]].el = "alert" /\ rest[new[k]].alert = s[(n + 1) + k]
    <2> SUFFICES ASSUME NEW k \in 1..(num - 1)
                 PROVE  rest[new[k]].el = "alert" /\ rest[new[k]].alert = s[(n + 1) + k]
      OBVIOUS
    <2>1. rest[new[k]] = box[at[k + 1]]
      BY <1>10
    <2>2. box[at[k + 1]].el = "alert" /\ box[at[k + 1]].alert = s[n + (k + 1)]
      BY <1>8 DEF Places
    <2>3. n + (k + 1) = (n + 1) + k
      OBVIOUS
    <2>4. QED
      BY <2>1, <2>2, <2>3
  <1>14. ASSUME NEW i \in 1..(len - 1), rest[i].el = "alert"
         PROVE  \E k \in 1..(num - 1) : new[k] = i
    <2>1. i + 1 \in 1..len /\ i + 1 # 1 /\ box[i + 1].el = "alert"
      BY <1>14
    <2>2. PICK k \in 1..num : at[k] = i + 1
      BY <2>1 DEF Places
    <2>3. k # 1
      BY <1>6, <2>1, <2>2
    <2>4. k - 1 \in 1..(num - 1) /\ (k - 1) + 1 = k
      BY <2>3
    <2>5. new[k - 1] = i
      BY <1>10, <2>2, <2>4
    <2>6. QED
      BY <2>4, <2>5
  <1>15. Places(new, rest, len - 1, s, n + 1, num - 1)
    BY <1>11, <1>12, <1>13, <1>14 DEF Places
  <1>16. QED
    BY <1>5, <1>7, <1>15

\* Elements that are no alerts, added at the end, leave the places as they are.
LEMMA PlacesOther ==
    ASSUME NEW box, NEW len \in Nat, NEW box2, NEW len2 \in Nat, NEW s, NEW n, NEW num \in Int,
           len <= len2,
           \A i \in 1..len : box2[i] = box[i],
           \A i \in (len + 1)..len2 : box2[i].el # "alert",
           NEW at, Places(at, box, len, s, n, num)
    PROVE  Places(at, box2, len2, s, n, num)
  <1>1. /\ at \in [1..num -> 1..len]
        /\ \A k, l \in 1..num : k < l => at[k] < at[l]
        /\ \A k \in 1..num : box[at[k]].el = "alert" /\ box[at[k]].alert = s[n + k]
        /\ \A i \in 1..len : box[i].el = "alert" => \E k \in 1..num : at[k] = i
    BY DEF Places
  <1>2. at \in [1..num -> 1..len2]
    <2>1. 1..len \subseteq 1..len2
      OBVIOUS
    <2>2. QED
      BY <1>1, <2>1
  <1>3. \A k \in 1..num : box2[at[k]] = box[at[k]]
    BY <1>1
  <1>4. ASSUME NEW i \in 1..len2, box2[i].el = "alert"
        PROVE  \E k \in 1..num : at[k] = i
    <2>1. i \in 1..len
      BY <1>4
    <2>2. QED
      BY <1>1, <1>4, <2>1
  <1>5. QED
    BY <1>1, <1>2, <1>3, <1>4 DEF Places

\* An alert added at the end of both: its place is the last.
LEMMA PlacesOffer ==
    ASSUME NEW box, NEW len \in Nat, NEW box2, NEW s, NEW s2, NEW n \in Nat, NEW num \in Nat,
           \A i \in 1..len : box2[i] = box[i],
           \A i \in 1..(n + num) : s2[i] = s[i],
           box2[len + 1].el = "alert", box2[len + 1].alert = s2[n + num + 1],
           NEW at, Places(at, box, len, s, n, num)
    PROVE  \E more : Places(more, box2, len + 1, s2, n, num + 1)
  <1> DEFINE new == [k \in 1..(num + 1) |-> IF k = num + 1 THEN len + 1 ELSE at[k]]
  <1>1. \A k \in 1..num : at[k] \in 1..len
    BY DEF Places
  <1>2. new[num + 1] = len + 1 /\ num + 1 \in 1..(num + 1)
    OBVIOUS
  <1>3. \A k \in 1..num : new[k] = at[k] /\ k \in 1..(num + 1) /\ k # num + 1
    OBVIOUS
  <1>4. \A k \in 1..(num + 1) : k = num + 1 \/ k \in 1..num
    OBVIOUS
  <1>5. new \in [1..(num + 1) -> 1..(len + 1)]
    <2>1. \A k \in 1..(num + 1) : new[k] \in 1..(len + 1)
      BY <1>1, <1>2, <1>3, <1>4
    <2>2. QED
      BY <2>1
  <1> HIDE DEF new
  <1>6. \A k, l \in 1..(num + 1) : k < l => new[k] < new[l]
    <2> SUFFICES ASSUME NEW k \in 1..(num + 1), NEW l \in 1..(num + 1), k < l
                 PROVE  new[k] < new[l]
      OBVIOUS
    <2>1. k \in 1..num /\ new[k] = at[k] /\ at[k] \in 1..len
      BY <1>1, <1>3, <1>4
    <2>2. CASE l = num + 1
      BY <1>2, <2>1, <2>2
    <2>3. CASE l \in 1..num
      <3>1. at[k] < at[l]
        BY <2>1, <2>3 DEF Places
      <3>2. QED
        BY <1>3, <2>1, <2>3, <3>1
    <2>4. QED
      BY <1>4, <2>2, <2>3
  <1>7. ASSUME NEW k \in 1..(num + 1)
        PROVE  box2[new[k]].el = "alert" /\ box2[new[k]].alert = s2[n + k]
    <2>1. CASE k = num + 1
      <3>1. n + k = n + num + 1
        BY <2>1
      <3>2. QED
        BY <1>2, <2>1, <3>1
    <2>2. CASE k \in 1..num
      <3>1. n + k \in 1..(n + num)
        BY <2>2
      <3>2. s2[n + k] = s[n + k]
        BY <3>1
      <3>3. box2[new[k]] = box[at[k]]
        BY <1>1, <1>3, <2>2
      <3>4. box[at[k]].el = "alert" /\ box[at[k]].alert = s[n + k]
        BY <2>2 DEF Places
      <3>5. QED
        BY <3>2, <3>3, <3>4
    <2>3. QED
      BY <1>4, <2>1, <2>2
  <1>8. ASSUME NEW i \in 1..(len + 1), box2[i].el = "alert"
        PROVE  \E k \in 1..(num + 1) : new[k] = i
    <2>1. CASE i = len + 1
      BY <1>2, <2>1
    <2>2. CASE i # len + 1
      <3>1. i \in 1..len /\ box[i].el = "alert"
        BY <1>8, <2>2
      <3>2. PICK k \in 1..num : at[k] = i
        BY <3>1 DEF Places
      <3>3. QED
        BY <1>3, <3>2
    <2>3. QED
      BY <2>1, <2>2
  <1>9. Places(new, box2, len + 1, s2, n, num + 1)
    BY <1>5, <1>6, <1>7, <1>8 DEF Places
  <1>10. QED
    BY <1>9

-----------------------------------------------------------------------------
(* The same of sequences *)

\* An element that is no alert is read.
LEMMA RestAfterSkip ==
    ASSUME NEW box \in Seq(Elements), box # <<>>, Head(box).el # "alert",
           NEW s \in Seq(Alerts), NEW n \in Nat, HoldsRest(box, s, n)
    PROVE  HoldsRest(Tail(box), s, n)
  <1>1. PICK at : Places(at, box, Len(box), s, n, Len(s) - n)
    BY PlacesHold
  <1>2. /\ Tail(box) \in Seq(Elements) /\ Len(Tail(box)) = Len(box) - 1
        /\ Len(box) \in Nat \ {0} /\ box[1].el # "alert"
        /\ \A i \in 1..(Len(box) - 1) : Tail(box)[i] = box[i + 1]
        /\ Len(s) - n \in Int
    OBVIOUS
  <1>3. \E new : Places(new, Tail(box), Len(box) - 1, s, n, Len(s) - n)
    BY <1>1, <1>2, PlacesSkip
  <1>4. QED
    BY <1>2, <1>3, PlacesHold

\* An alert is read: it is the next one of s.
LEMMA RestAfterTake ==
    ASSUME NEW box \in Seq(Elements), box # <<>>, Head(box).el = "alert",
           NEW s \in Seq(Alerts), NEW n \in Nat, HoldsRest(box, s, n)
    PROVE  n + 1 <= Len(s) /\ Head(box).alert = s[n + 1] /\ HoldsRest(Tail(box), s, n + 1)
  <1>1. PICK at : Places(at, box, Len(box), s, n, Len(s) - n)
    BY PlacesHold
  <1>2. /\ Tail(box) \in Seq(Elements) /\ Len(Tail(box)) = Len(box) - 1
        /\ Len(box) \in Nat \ {0} /\ box[1].el = "alert" /\ box[1] = Head(box)
        /\ \A i \in 1..(Len(box) - 1) : Tail(box)[i] = box[i + 1]
        /\ Len(s) - n \in Int /\ Len(s) - n - 1 = Len(s) - (n + 1) /\ n + 1 \in Nat /\ Len(s) \in Nat
    OBVIOUS
  <1>3. /\ Len(s) - n >= 1 /\ box[1].alert = s[n + 1]
        /\ \E new : Places(new, Tail(box), Len(box) - 1, s, n + 1, Len(s) - n - 1)
    <2> DEFINE num == Len(s) - n
               len == Len(box)
               rest == Tail(box)
    <2>1. /\ num \in Int /\ len \in Nat \ {0} /\ box[1].el = "alert"
          /\ \A i \in 1..(len - 1) : rest[i] = box[i + 1]
          /\ Places(at, box, len, s, n, num)
      BY <1>1, <1>2
    <2> HIDE DEF num, len, rest
    <2>2. /\ num >= 1 /\ box[1].alert = s[n + 1]
          /\ \E new : Places(new, rest, len - 1, s, n + 1, num - 1)
      BY <2>1, PlacesTake
    <2>3. QED
      BY <2>2 DEF num, len, rest
  <1>4. HoldsRest(Tail(box), s, n + 1)
    BY <1>2, <1>3, PlacesHold
  <1>5. QED
    BY <1>2, <1>3, <1>4

\* Elements that are no alerts arrive.
LEMMA RestAfterOther ==
    ASSUME NEW box \in Seq(Elements), NEW more \in Seq(Elements),
           \A i \in 1..Len(more) : more[i].el # "alert",
           NEW s \in Seq(Alerts), NEW n \in Nat, HoldsRest(box, s, n)
    PROVE  HoldsRest(box \o more, s, n)
  <1>1. PICK at : Places(at, box, Len(box), s, n, Len(s) - n)
    BY PlacesHold
  <1>2. /\ box \o more \in Seq(Elements) /\ Len(box \o more) = Len(box) + Len(more)
        /\ Len(box) \in Nat /\ Len(more) \in Nat /\ Len(s) - n \in Int
        /\ \A i \in 1..Len(box) : (box \o more)[i] = box[i]
        /\ \A i \in (Len(box) + 1)..(Len(box) + Len(more)) : (box \o more)[i] = more[i - Len(box)]
    OBVIOUS
  <1>3. \A i \in (Len(box) + 1)..(Len(box) + Len(more)) : (box \o more)[i].el # "alert"
    <2>1. \A i \in (Len(box) + 1)..(Len(box) + Len(more)) : i - Len(box) \in 1..Len(more)
      BY <1>2
    <2>2. QED
      BY <1>2, <2>1
  <1>4. Len(box) + Len(more) \in Nat /\ Len(box) <= Len(box) + Len(more)
    BY <1>2
  <1>5. Places(at, box \o more, Len(box) + Len(more), s, n, Len(s) - n)
    BY <1>1, <1>2, <1>3, <1>4, PlacesOther
  <1>6. QED
    BY <1>2, <1>5, PlacesHold

\* An alert arrives.
LEMMA RestAfterOffer ==
    ASSUME NEW box \in Seq(Elements), NEW e \in Elements, NEW a \in Alerts,
           e.el = "alert", e.alert = a,
           NEW s \in Seq(Alerts), NEW n \in Nat, n <= Len(s), HoldsRest(box, s, n)
    PROVE  HoldsRest(Append(box, e), Append(s, a), n)
  <1>1. PICK at : Places(at, box, Len(box), s, n, Len(s) - n)
    BY PlacesHold
  <1> DEFINE box2 == Append(box, e)
             s2 == Append(s, a)
  <1>2. /\ box2 \in Seq(Elements) /\ Len(box2) = Len(box) + 1 /\ Len(box) \in Nat
        /\ \A i \in 1..Len(box) : box2[i] = box[i]
        /\ box2[Len(box) + 1] = e
    OBVIOUS
  <1>3. /\ s2 \in Seq(Alerts) /\ Len(s2) = Len(s) + 1 /\ Len(s) \in Nat
        /\ \A i \in 1..Len(s) : s2[i] = s[i]
        /\ s2[Len(s) + 1] = a
    OBVIOUS
  <1> HIDE DEF box2, s2
  <1>4. /\ Len(s) - n \in Nat /\ n + (Len(s) - n) = Len(s)
        /\ Len(s2) - n = (Len(s) - n) + 1
    BY <1>3
  <1>5. \E new : Places(new, box2, Len(box) + 1, s2, n, (Len(s) - n) + 1)
    BY <1>1, <1>2, <1>3, <1>4, PlacesOffer
  <1>6. HoldsRest(box2, s2, n)
    BY <1>2, <1>3, <1>4, <1>5, PlacesHold
  <1>7. QED
    BY <1>6 DEF box2, s2

\* Where no alert is waiting, none is missed when the inbox is thrown away.
LEMMA RestDropped ==
    ASSUME NEW box \in Seq(Elements), \A i \in 1..Len(box) : box[i].el # "alert",
           NEW s \in Seq(Alerts), NEW n \in Nat, HoldsRest(box, s, n)
    PROVE  HoldsRest(<<>>, s, n)
  <1>1. PICK at : Places(at, box, Len(box), s, n, Len(s) - n)
    BY PlacesHold
  <1>2. <<>> \in Seq(Elements) /\ Len(<<>>) = 0 /\ Len(s) - n \in Int
    OBVIOUS
  <1>3. 1..(Len(s) - n) = {}
    <2>1. \A k \in 1..(Len(s) - n) : at[k] \in 1..Len(box) /\ box[at[k]].el = "alert"
      BY <1>1 DEF Places
    <2>2. QED
      BY <2>1
  <1>4. 1..0 = {}
    OBVIOUS
  <1>5. Places([k \in {} |-> 0], <<>>, 0, s, n, Len(s) - n)
    BY <1>3, <1>4 DEF Places
  <1>6. QED
    BY <1>2, <1>5, PlacesHold

\* A session starts with nothing sent and nothing waiting.
LEMMA RestAtStart == HoldsRest(<<>>, <<>>, 0)
  <1>1. <<>> \in Seq(Elements) /\ <<>> \in Seq(Alerts) /\ Len(<<>>) = 0 /\ 0 - 0 = 0 /\ 1..0 = {}
    OBVIOUS
  <1>2. Places([k \in {} |-> 0], <<>>, 0, <<>>, 0, 0)
    BY <1>1 DEF Places
  <1>3. QED
    BY <1>1, <1>2, PlacesHold

-----------------------------------------------------------------------------
(* The inductive invariant *)

\* The connection is encrypted from the TLS step on, and nothing written before
\* it is left to be read then; a bind is asked for, granted and followed by
\* alerts only when all but the last step of the handshake is done.
HandInv ==
    /\ tls <=> step >= TlsStep(mode)
    /\ tls => \A i \in 1..Len(inbox) : inbox[i].secure
    /\ request = "bind" \/ bound => step + 1 >= Total(mode)
    /\ \A i \in 1..Len(inbox) : inbox[i].el = "alert" => step + 1 >= Total(mode)

IInv == TypeOK /\ HandInv /\ OnlyInsideTLS /\ NoAlertPassedOver

\* Short sequences have the type of their elements.
LEMMA ShortSeqs ==
    ASSUME NEW S
    PROVE  /\ \A a \in S : <<a>> \in Seq(S)
           /\ \A a, b \in S : <<a, b>> \in Seq(S)
           /\ \A a, b, c \in S : <<a, b, c>> \in Seq(S)
  OBVIOUS

\* Sequences of different lengths or first elements differ.
LEMMA ShortSeqsDiffer ==
    ASSUME NEW a, NEW b, NEW c, NEW d
    PROVE  <<a, b>> # <<d>> /\ <<a, b, c>> # <<d>> /\ (a # d => <<a>> # <<d>>)
  OBVIOUS

\* What the CBE answers is made of replies, and only a bind is granted.
LEMMA AnswersFit ==
    ASSUME NEW r \in {"none", "stream", "starttls", "auth", "bind"}, NEW els \in Answers(r)
    PROVE  els \in Seq(Replies) /\ (els = <<"iq result">> => r = "bind")
  <1>1. /\ "stream" \in Replies /\ "features" \in Replies /\ "features+tls" \in Replies
        /\ "proceed" \in Replies /\ "success" \in Replies /\ "failure" \in Replies
        /\ "iq result" \in Replies /\ "iq error" \in Replies
    BY Zenon DEF Replies
  <1>2. CASE r = "none"
    BY <1>2 DEF Answers
  <1>3. CASE r = "stream"
    <2>1. els = <<"stream", "features">> \/ els = <<"stream", "features+tls">>
      BY <1>3, Zenon DEF Answers
    <2>2. QED
      BY <1>1, <2>1, ShortSeqs, ShortSeqsDiffer, Zenon
  <1>4. CASE r = "starttls"
    <2>1. \/ els = <<"proceed">> \/ els = <<"failure">> \/ els = <<"proceed", "stream", "features">>
      BY <1>4, Zenon DEF Answers
    <2>2. "proceed" # "iq result" /\ "failure" # "iq result"
      BY Zenon
    <2>3. QED
      BY <1>1, <2>1, <2>2, ShortSeqs, ShortSeqsDiffer, Zenon
  <1>5. CASE r = "auth"
    <2>1. els = <<"success">> \/ els = <<"failure">>
      BY <1>5, Zenon DEF Answers
    <2>2. "success" # "iq result" /\ "failure" # "iq result"
      BY Zenon
    <2>3. QED
      BY <1>1, <2>1, <2>2, ShortSeqs, ShortSeqsDiffer, Zenon
  <1>6. CASE r = "bind"
    <2>1. els = <<"iq result">> \/ els = <<"iq error">>
      BY <1>6, Zenon DEF Answers
    <2>2. QED
      BY <1>1, <1>6, <2>1, ShortSeqs, Zenon
  <1>7. QED
    BY <1>2, <1>3, <1>4, <1>5, <1>6, Zenon

\* The parts of the inbox that a read leaves are those it was made of.
LEMMA TailFits ==
    ASSUME NEW box \in Seq(Elements), box # <<>>
    PROVE  /\ Tail(box) \in Seq(Elements) /\ Head(box) \in Elements
           /\ Len(box) \in Nat /\ 1 \in 1..Len(box) /\ box[1] = Head(box)
           /\ \A i \in 1..Len(Tail(box)) : i + 1 \in 1..Len(box) /\ Tail(box)[i] = box[i + 1]
  OBVIOUS

\* A new connection starts all over.
LEMMA DialKeeps ==
    ASSUME IInv, DialSucceeds
    PROVE  IInv'
  <1>1. TypeOK'
    <2>1. <<>> \in Seq(Elements) /\ <<>> \in Seq(Alerts)
      OBVIOUS
    <2>2. 0 \in 0..Total(mode)
      BY HandshakeLength DEF IInv
    <2>3. QED
      BY <2>1, <2>2 DEF IInv, TypeOK, DialSucceeds, Total
  <1>2. HandInv'
    <2>1. ~(0 >= TlsStep(mode))
      BY HandshakeLength DEF IInv
    <2>2. 1..Len(<<>>) = {}
      OBVIOUS
    <2>3. tls' = FALSE /\ step' = 0 /\ mode' = mode /\ inbox' = <<>> /\ request' = "none" /\ bound' = FALSE
      BY DEF DialSucceeds
    <2>4. TlsStep(mode)' = TlsStep(mode) /\ Total(mode)' = Total(mode)
      BY <2>3 DEF TlsStep, Total
    <2>5. QED
      BY <2>1, <2>2, <2>3, <2>4 DEF HandInv
  <1>3. OnlyInsideTLS'
    BY DEF DialSucceeds, OnlyInsideTLS
  <1>4. NoAlertPassedOver'
    <2>1. Len(<<>>) = 0 /\ 1..0 = {} /\ 0 <= 0
      OBVIOUS
    <2>2. HoldsRest(inbox', sent', Len(taken'))
      BY <2>1, RestAtStart DEF DialSucceeds
    <2>3. QED
      BY <2>1, <2>2 DEF DialSucceeds, NoAlertPassedOver
  <1>5. QED
    BY <1>1, <1>2, <1>3, <1>4 DEF IInv

\* A step that leaves the session as it is, and starts none.
LEMMA SessionKept ==
    ASSUME IInv, UNCHANGED <<mode, session, ingested>>,
           phase' \in {"session", "dial", "ended", "wait", "returned"},
           phase' = "session" => phase = "session",
           backoff' \in ReconnectMin..ReconnectMax,
           cancelled' \in BOOLEAN, connected' \in BOOLEAN
    PROVE  IInv'
  <1>1. TypeOK'
    BY DEF IInv, TypeOK, session
  <1>2. HandInv'
    BY DEF IInv, HandInv, session, TlsStep, Total
  <1>3. OnlyInsideTLS'
    BY DEF IInv, OnlyInsideTLS, session
  <1>4. NoAlertPassedOver'
    BY DEF IInv, NoAlertPassedOver, session
  <1>5. QED
    BY <1>1, <1>2, <1>3, <1>4 DEF IInv

\* runOnce returns.
LEMMA EndsKeeps ==
    ASSUME IInv, Ends
    PROVE  IInv'
  BY SessionKept DEF Ends, IInv, TypeOK

\* The delay stays between its bounds.
LEMMA DoubleFits ==
    ASSUME NEW b \in ReconnectMin..ReconnectMax
    PROVE  Double(b) \in ReconnectMin..ReconnectMax
  BY ClientAssumption DEF Double

\* The steps of Run outside runOnce.
LEMMA RunKeeps ==
    ASSUME IInv, OnState \/ WaitOver \/ Return \/ Cancel
    PROVE  IInv'
  <1>1. CASE OnState
    BY <1>1, SessionKept DEF OnState, IInv, TypeOK
  <1>2. CASE WaitOver
    <2>1. backoff' \in ReconnectMin..ReconnectMax
      BY <1>2, DoubleFits DEF WaitOver, IInv, TypeOK
    <2>2. QED
      BY <1>2, <2>1, SessionKept DEF WaitOver, IInv, TypeOK
  <1>3. CASE Return
    BY <1>3, SessionKept DEF Return, IInv, TypeOK
  <1>4. CASE Cancel
    BY <1>4, SessionKept DEF Cancel, IInv, TypeOK
  <1>5. QED
    BY <1>1, <1>2, <1>3, <1>4

\* One element of the handshake is written.
LEMMA WriteKeeps ==
    ASSUME IInv, WriteElement
    PROVE  IInv'
  <1>1. /\ TypeOK /\ step < Total(mode) /\ Now.do = "write" /\ request' = Now.what /\ step' = step + 1
        /\ clear' = (IF tls THEN clear ELSE clear \cup {Now.what})
        /\ UNCHANGED <<mode, phase, backoff, tls, inbox, bound, cancelled, connected, ingested, sent, taken>>
    BY DEF IInv, WriteElement, InHandshake, Total
  <1>2. /\ Total(mode) \in Nat /\ step \in Nat /\ TlsStep(mode) \in Nat \ {0}
        /\ TlsStep(mode)' = TlsStep(mode) /\ Total(mode)' = Total(mode)
    BY <1>1, HandshakeLength DEF TlsStep, Total
  <1>3. /\ Now.what \in Written
        /\ step + 1 # TlsStep(mode)
        /\ step < TlsStep(mode) => Now.what \in {"stream", "features+tls", "starttls", "proceed"}
        /\ Now.what = "bind" => step + 2 = Total(mode)
    BY <1>1, NowFits DEF StepFits
  <1>4. TypeOK'
    <2>1. step' \in 0..Total(mode)'
      BY <1>1, <1>2
    <2>2. request' \in {"none", "stream", "starttls", "auth", "bind"}
      BY <1>1, <1>3 DEF Written
    <2>3. QED
      BY <1>1, <2>1, <2>2 DEF TypeOK, Total
  <1>5. HandInv'
    BY <1>1, <1>2, <1>3 DEF IInv, HandInv
  <1>6. OnlyInsideTLS'
    <2>1. ~tls => step < TlsStep(mode)
      BY <1>2 DEF IInv, HandInv
    <2>2. QED
      BY <1>1, <1>3, <2>1 DEF IInv, OnlyInsideTLS
  <1>7. NoAlertPassedOver'
    BY <1>1 DEF IInv, NoAlertPassedOver
  <1>8. QED
    BY <1>4, <1>5, <1>6, <1>7 DEF IInv

\* No step of the handshake passes an alert for its answer.
LEMMA AlertNotNamed ==
    ASSUME NEW w \in Awaited
    PROVE  ~Named("alert", w)
  BY Zenon DEF Awaited, Named

\* One element of the handshake is read.
LEMMA ReadKeeps ==
    ASSUME IInv, ReadElement
    PROVE  IInv'
  <1>1. /\ TypeOK /\ step < Total(mode) /\ Now.do = "read" /\ inbox # <<>>
        /\ Named(Head(inbox).el, Now.what) /\ inbox' = Tail(inbox) /\ step' = step + 1
        /\ connected' = (IF step' = Total(mode) THEN TRUE ELSE connected)
        /\ clear' = (IF Head(inbox).secure THEN clear ELSE clear \cup {Now.what})
        /\ UNCHANGED <<mode, phase, backoff, tls, request, bound, cancelled, ingested, sent, taken>>
    BY DEF IInv, ReadElement, InHandshake, Total
  <1>2. /\ Total(mode) \in Nat /\ step \in Nat /\ TlsStep(mode) \in Nat \ {0}
        /\ TlsStep(mode)' = TlsStep(mode) /\ Total(mode)' = Total(mode)
    BY <1>1, HandshakeLength DEF TlsStep, Total
  <1>3. /\ Now.what \in Awaited
        /\ step + 1 # TlsStep(mode)
        /\ step < TlsStep(mode) => Now.what \in {"stream", "features+tls", "starttls", "proceed"}
    BY <1>1, NowFits DEF StepFits
  <1>4. /\ Tail(inbox) \in Seq(Elements) /\ Len(inbox) \in Nat /\ 1 \in 1..Len(inbox)
        /\ inbox[1] = Head(inbox)
        /\ \A i \in 1..Len(Tail(inbox)) : i + 1 \in 1..Len(inbox) /\ Tail(inbox)[i] = inbox[i + 1]
    BY <1>1, TailFits DEF TypeOK
  <1>5. TypeOK'
    <2>1. step' \in 0..Total(mode)'
      BY <1>1, <1>2
    <2>2. connected' \in BOOLEAN
      BY <1>1 DEF TypeOK
    <2>3. QED
      BY <1>1, <1>4, <2>1, <2>2 DEF TypeOK, Total
  <1>6. HandInv'
    <2>1. tls' <=> step' >= TlsStep(mode)'
      BY <1>1, <1>2, <1>3 DEF IInv, HandInv
    <2>2. tls' => \A i \in 1..Len(inbox') : inbox'[i].secure
      BY <1>1, <1>4 DEF IInv, HandInv
    <2>3. request' = "bind" \/ bound' => step' + 1 >= Total(mode)'
      BY <1>1, <1>2 DEF IInv, HandInv
    <2>4. \A i \in 1..Len(inbox') : inbox'[i].el = "alert" => step' + 1 >= Total(mode)'
      BY <1>1, <1>2, <1>4 DEF IInv, HandInv
    <2>5. QED
      BY <2>1, <2>2, <2>3, <2>4 DEF HandInv
  <1>7. OnlyInsideTLS'
    <2>1. ~Head(inbox).secure => step < TlsStep(mode)
      BY <1>2, <1>4 DEF IInv, HandInv
    <2>2. QED
      BY <1>1, <1>3, <2>1 DEF IInv, OnlyInsideTLS
  <1>8. NoAlertPassedOver'
    <2>1. Head(inbox).el # "alert"
      BY <1>1, <1>3, AlertNotNamed
    <2>2. phase = "session" => HoldsRest(Tail(inbox), sent, Len(taken))
      BY <1>1, <2>1, RestAfterSkip DEF IInv, NoAlertPassedOver, TypeOK
    <2>3. QED
      BY <1>1, <2>2 DEF IInv, NoAlertPassedOver
  <1>9. QED
    BY <1>5, <1>6, <1>7, <1>8 DEF IInv

\* The connection becomes encrypted; what was written before is not read.
LEMMA TlsKeeps ==
    ASSUME IInv, TlsHandshake
    PROVE  IInv'
  <1>1. /\ TypeOK /\ step < Total(mode) /\ Now.do = "tls" /\ tls' = TRUE /\ step' = step + 1
        /\ inbox' = <<>>
        /\ UNCHANGED <<mode, phase, backoff, request, bound, cancelled, connected, ingested, sent,
                       taken, clear>>
    BY DEF IInv, TlsHandshake, InHandshake, Total
  <1>2. /\ Total(mode) \in Nat /\ step \in Nat /\ TlsStep(mode) \in Nat \ {0}
        /\ TlsStep(mode) + 1 < Total(mode)
        /\ TlsStep(mode)' = TlsStep(mode) /\ Total(mode)' = Total(mode)
    BY <1>1, HandshakeLength DEF TlsStep, Total
  <1>3. step + 1 = TlsStep(mode)
    BY <1>1, NowFits DEF StepFits
  <1>4. <<>> \in Seq(Elements) /\ 1..Len(<<>>) = {}
    OBVIOUS
  <1>5. TypeOK'
    <2>1. step' \in 0..Total(mode)'
      BY <1>1, <1>2
    <2>2. QED
      BY <1>1, <1>4, <2>1 DEF TypeOK, Total
  <1>6. HandInv'
    BY <1>1, <1>2, <1>3, <1>4 DEF IInv, HandInv
  <1>7. OnlyInsideTLS'
    BY <1>1 DEF IInv, OnlyInsideTLS
  <1>8. NoAlertPassedOver'
    <2>1. \A i \in 1..Len(inbox) : inbox[i].el # "alert"
      BY <1>2, <1>3 DEF IInv, HandInv
    <2>2. phase = "session" => HoldsRest(<<>>, sent, Len(taken))
      BY <2>1, RestDropped DEF IInv, NoAlertPassedOver, TypeOK
    <2>3. QED
      BY <1>1, <2>2 DEF IInv, NoAlertPassedOver
  <1>9. QED
    BY <1>5, <1>6, <1>7, <1>8 DEF IInv

\* The loop passes by what is no alert.
LEMMA SkipKeeps ==
    ASSUME IInv, SkipElement
    PROVE  IInv'
  <1>1. /\ TypeOK /\ inbox # <<>> /\ Head(inbox).el # "alert" /\ inbox' = Tail(inbox)
        /\ UNCHANGED <<mode, phase, backoff, step, tls, request, bound, cancelled, connected, ingested,
                       sent, taken, clear>>
    BY DEF IInv, SkipElement, Incoming
  <1>2. /\ Tail(inbox) \in Seq(Elements)
        /\ \A i \in 1..Len(Tail(inbox)) : i + 1 \in 1..Len(inbox) /\ Tail(inbox)[i] = inbox[i + 1]
    BY <1>1, TailFits DEF TypeOK
  <1>3. TypeOK'
    BY <1>1, <1>2 DEF TypeOK
  <1>4. HandInv'
    <2>1. TlsStep(mode)' = TlsStep(mode) /\ Total(mode)' = Total(mode)
      BY <1>1 DEF TlsStep, Total
    <2>2. QED
      BY <1>1, <1>2, <2>1 DEF IInv, HandInv
  <1>5. OnlyInsideTLS'
    BY <1>1 DEF IInv, OnlyInsideTLS
  <1>6. NoAlertPassedOver'
    <2>1. phase = "session" => HoldsRest(Tail(inbox), sent, Len(taken))
      BY <1>1, RestAfterSkip DEF IInv, NoAlertPassedOver, TypeOK
    <2>2. QED
      BY <1>1, <2>1 DEF IInv, NoAlertPassedOver
  <1>7. QED
    BY <1>3, <1>4, <1>5, <1>6 DEF IInv

\* The loop hands an alert to Ingest, which accepts it.
LEMMA AcceptKeeps ==
    ASSUME IInv, NEW a \in Alerts, AcceptAlert(a)
    PROVE  IInv'
  <1>1. /\ TypeOK /\ phase = "session" /\ step = Total(mode) /\ inbox # <<>>
        /\ Head(inbox).el = "alert" /\ Head(inbox).alert = a
        /\ ingested' = ingested \cup {a} /\ taken' = Append(taken, a) /\ inbox' = Tail(inbox)
        /\ clear' = (IF Head(inbox).secure THEN clear ELSE clear \cup {"alert"})
        /\ UNCHANGED <<mode, phase, backoff, step, tls, request, bound, cancelled, connected, sent>>
    BY DEF IInv, AcceptAlert, Incoming, InLoop, Total
  <1>2. /\ Tail(inbox) \in Seq(Elements) /\ 1 \in 1..Len(inbox) /\ inbox[1] = Head(inbox)
        /\ \A i \in 1..Len(Tail(inbox)) : i + 1 \in 1..Len(inbox) /\ Tail(inbox)[i] = inbox[i + 1]
    BY <1>1, TailFits DEF TypeOK
  <1>3. /\ taken' \in Seq(Alerts) /\ Len(taken) \in Nat /\ Len(taken') = Len(taken) + 1
        /\ \A i \in 1..Len(taken) : taken'[i] = taken[i]
        /\ taken'[Len(taken) + 1] = a
    BY <1>1 DEF TypeOK
  <1>4. TypeOK'
    BY <1>1, <1>2, <1>3 DEF TypeOK
  <1>5. TlsStep(mode)' = TlsStep(mode) /\ Total(mode)' = Total(mode)
    BY <1>1 DEF TlsStep, Total
  <1>6. HandInv'
    BY <1>1, <1>2, <1>5 DEF IInv, HandInv
  <1>7. OnlyInsideTLS'
    <2>1. tls
      BY <1>1, HandshakeLength DEF IInv, HandInv
    <2>2. QED
      BY <1>1, <1>2, <2>1 DEF IInv, HandInv, OnlyInsideTLS
  <1>8. NoAlertPassedOver'
    <2>1. /\ Len(taken) + 1 <= Len(sent) /\ a = sent[Len(taken) + 1]
          /\ HoldsRest(Tail(inbox), sent, Len(taken) + 1)
      BY <1>1, <1>3, RestAfterTake DEF IInv, NoAlertPassedOver, TypeOK
    <2>2. \A i \in 1..Len(taken') : taken'[i] = sent[i]
      <3>1. \A i \in 1..Len(taken') : i \in 1..Len(taken) \/ i = Len(taken) + 1
        BY <1>3
      <3>2. \A i \in 1..Len(taken) : taken[i] = sent[i]
        BY <1>1 DEF IInv, NoAlertPassedOver
      <3>3. QED
        BY <1>3, <2>1, <3>1, <3>2
    <2>3. QED
      BY <1>1, <1>3, <2>1, <2>2 DEF NoAlertPassedOver
  <1>9. QED
    BY <1>4, <1>6, <1>7, <1>8 DEF IInv

\* What is written at the end of the inbox is encrypted if the connection is.
LEMMA AppendedInv ==
    ASSUME IInv, NEW more \in Seq(Elements), inbox' = inbox \o more,
           \A i \in 1..Len(more) : more[i].secure = tls,
           \A i \in 1..Len(more) : more[i].el = "alert" => step + 1 >= Total(mode),
           request' = "bind" \/ bound' => step + 1 >= Total(mode),
           UNCHANGED <<mode, step, tls>>
    PROVE  HandInv'
  <1>1. /\ inbox \in Seq(Elements) /\ Len(inbox) \in Nat /\ Len(more) \in Nat
        /\ Len(inbox') = Len(inbox) + Len(more)
        /\ \A i \in 1..Len(inbox) : inbox'[i] = inbox[i]
        /\ \A i \in (Len(inbox) + 1)..(Len(inbox) + Len(more)) : inbox'[i] = more[i - Len(inbox)]
    BY DEF IInv, TypeOK
  <1>2. ASSUME NEW i \in 1..Len(inbox')
        PROVE  \/ i \in 1..Len(inbox) /\ inbox'[i] = inbox[i]
               \/ i - Len(inbox) \in 1..Len(more) /\ inbox'[i] = more[i - Len(inbox)]
    BY <1>1
  <1>3. TlsStep(mode)' = TlsStep(mode) /\ Total(mode)' = Total(mode)
    BY DEF TlsStep, Total
  <1>4. tls' => \A i \in 1..Len(inbox') : inbox'[i].secure
    BY <1>2 DEF IInv, HandInv
  <1>5. \A i \in 1..Len(inbox') : inbox'[i].el = "alert" => step + 1 >= Total(mode)
    BY <1>2 DEF IInv, HandInv
  <1>6. QED
    BY <1>3, <1>4, <1>5 DEF IInv, HandInv

\* The CBE answers the last element written.
LEMMA AnswersKeeps ==
    ASSUME IInv, NEW els \in Answers(request), CbeAnswers(els)
    PROVE  IInv'
  <1> DEFINE more == [i \in DOMAIN els |-> [el |-> els[i], secure |-> tls]]
             granted == els = <<"iq result">>
  <1>1. request \in {"none", "stream", "starttls", "auth", "bind"}
    BY DEF IInv, TypeOK
  <1>2. els \in Seq(Replies) /\ (granted => request = "bind")
    BY <1>1, AnswersFit, Zenon
  <1>3. /\ inbox' = inbox \o more /\ bound' = granted /\ request' = "none"
        /\ UNCHANGED <<mode, phase, backoff, step, tls, cancelled, connected, ingested, sent, taken, clear>>
    BY Zenon DEF CbeAnswers
  <1>4. granted \in BOOLEAN
    BY Zenon
  <1> HIDE DEF granted
  <1>5. TypeOK /\ HandInv
    BY DEF IInv
  <1>6. /\ more \in Seq(Elements) /\ Len(more) = Len(els)
        /\ \A i \in 1..Len(more) : more[i].secure = tls /\ more[i].el \in Replies
    <2>1. \A i \in 1..Len(els) : els[i] \in Replies
      BY <1>2
    <2>2. \A r \in Replies : [el |-> r, secure |-> tls] \in Elements
      BY <1>5 DEF Elements, TypeOK
    <2>3. QED
      BY <1>2, <2>1, <2>2
  <1> HIDE DEF more
  <1>7. "alert" \notin Replies
    BY Zenon DEF Replies
  <1>8. \A i \in 1..Len(more) : more[i].el # "alert"
    BY <1>6, <1>7
  <1>9. TypeOK'
    <2>1. inbox' \in Seq(Elements)
      BY <1>3, <1>5, <1>6 DEF TypeOK
    <2>2. QED
      BY <1>3, <1>4, <1>5, <2>1 DEF TypeOK
  <1>10. HandInv'
    <2>1. request' = "bind" \/ bound' => step + 1 >= Total(mode)
      BY <1>2, <1>3, <1>5 DEF HandInv
    <2>2. QED
      BY <1>3, <1>6, <1>8, <2>1, AppendedInv
  <1>11. OnlyInsideTLS'
    BY <1>3 DEF IInv, OnlyInsideTLS
  <1>12. NoAlertPassedOver'
    <2>1. phase = "session" => HoldsRest(inbox \o more, sent, Len(taken))
      BY <1>5, <1>6, <1>8, RestAfterOther DEF IInv, NoAlertPassedOver, TypeOK
    <2>2. QED
      BY <1>3, <2>1 DEF IInv, NoAlertPassedOver
  <1>13. QED
    BY <1>9, <1>10, <1>11, <1>12 DEF IInv

\* The CBE writes one more message to a client that is bound.
LEMMA PushKeeps ==
    ASSUME IInv, NEW e \in Elements, e.secure = tls, Pushes(e)
    PROVE  /\ HandInv' /\ OnlyInsideTLS' /\ inbox' \in Seq(Elements)
           /\ inbox' = inbox \o <<e>> /\ <<e>> \in Seq(Elements) /\ Len(<<e>>) = 1 /\ <<e>>[1] = e
  <1>1. /\ bound /\ inbox' = Append(inbox, e)
        /\ UNCHANGED <<mode, phase, backoff, step, tls, request, bound, cancelled, connected, ingested,
                       taken, clear>>
    BY DEF Pushes
  <1>2. step + 1 >= Total(mode)
    BY <1>1 DEF IInv, HandInv
  <1>3. <<e>> \in Seq(Elements) /\ Len(<<e>>) = 1 /\ <<e>>[1] = e
    OBVIOUS
  <1>4. inbox \in Seq(Elements)
    BY DEF IInv, TypeOK
  <1>5. inbox' = inbox \o <<e>> /\ inbox' \in Seq(Elements)
    BY <1>1, <1>4
  <1>6. \A i \in 1..Len(<<e>>) : <<e>>[i] = e
    OBVIOUS
  <1>7. HandInv'
    BY <1>1, <1>2, <1>3, <1>5, <1>6, AppendedInv
  <1>8. OnlyInsideTLS'
    BY <1>1 DEF IInv, OnlyInsideTLS
  <1>9. QED
    BY <1>3, <1>5, <1>7, <1>8

\* It is an alert.
LEMMA OffersKeeps ==
    ASSUME IInv, NEW a \in Alerts, CbeOffers(a)
    PROVE  IInv'
  <1> DEFINE e == [el |-> "alert", alert |-> a, secure |-> tls]
  <1>1. TypeOK /\ tls \in BOOLEAN
    BY DEF IInv, TypeOK
  <1>2. e \in Elements /\ e.el = "alert" /\ e.alert = a /\ e.secure = tls
    BY <1>1 DEF Elements
  <1>3. Pushes(e) /\ sent' = Append(sent, a)
    BY DEF CbeOffers
  <1> HIDE DEF e
  <1>4. HandInv' /\ OnlyInsideTLS' /\ inbox' \in Seq(Elements)
    BY <1>2, <1>3, PushKeeps
  <1>5. /\ inbox' = Append(inbox, e) /\ phase = "session"
        /\ UNCHANGED <<mode, phase, backoff, step, tls, request, bound, cancelled, connected, ingested,
                       taken, clear>>
    BY <1>3 DEF Pushes
  <1>6. /\ sent' \in Seq(Alerts) /\ Len(sent) \in Nat /\ Len(sent') = Len(sent) + 1
        /\ \A i \in 1..Len(sent) : sent'[i] = sent[i]
    BY <1>1, <1>3 DEF TypeOK
  <1>7. TypeOK'
    BY <1>1, <1>4, <1>5, <1>6 DEF TypeOK
  <1>8. NoAlertPassedOver'
    <2>1. /\ Len(taken) \in Nat /\ Len(taken) <= Len(sent)
          /\ \A i \in 1..Len(taken) : taken[i] = sent[i]
          /\ HoldsRest(inbox, sent, Len(taken))
      BY <1>1, <1>5 DEF IInv, NoAlertPassedOver, TypeOK
    <2>2. HoldsRest(Append(inbox, e), Append(sent, a), Len(taken))
      BY <1>1, <1>2, <2>1, RestAfterOffer DEF TypeOK
    <2>3. \A i \in 1..Len(taken) : taken[i] = sent'[i]
      BY <1>6, <2>1
    <2>4. QED
      BY <1>3, <1>5, <1>6, <2>1, <2>2, <2>3 DEF NoAlertPassedOver
  <1>9. QED
    BY <1>4, <1>7, <1>8 DEF IInv

\* It is something else.
LEMMA ChattersKeeps ==
    ASSUME IInv, NEW w \in Noise, CbeChatters(w)
    PROVE  IInv'
  <1> DEFINE e == [el |-> w, secure |-> tls]
  <1>1. TypeOK /\ tls \in BOOLEAN
    BY DEF IInv, TypeOK
  <1>2. e \in Elements /\ e.el # "alert" /\ e.secure = tls
    BY <1>1 DEF Elements, Noise
  <1>3. Pushes(e) /\ UNCHANGED sent
    BY DEF CbeChatters
  <1> HIDE DEF e
  <1>4. /\ HandInv' /\ OnlyInsideTLS' /\ inbox' \in Seq(Elements)
        /\ inbox' = inbox \o <<e>> /\ <<e>> \in Seq(Elements) /\ Len(<<e>>) = 1 /\ <<e>>[1] = e
    BY <1>2, <1>3, PushKeeps
  <1>5. UNCHANGED <<mode, phase, backoff, step, tls, request, bound, cancelled, connected, ingested,
                    sent, taken, clear>>
    BY <1>3 DEF Pushes
  <1>6. TypeOK'
    BY <1>1, <1>4, <1>5 DEF TypeOK
  <1>7. NoAlertPassedOver'
    <2> DEFINE more == <<e>>
    <2>1. \A i \in 1..Len(more) : more[i].el # "alert"
      BY <1>2, <1>4
    <2>2. inbox' = inbox \o more /\ more \in Seq(Elements)
      BY <1>4
    <2> HIDE DEF more
    <2>3. inbox \in Seq(Elements) /\ sent \in Seq(Alerts) /\ Len(taken) \in Nat
      BY <1>1 DEF TypeOK
    <2>4. phase = "session" => HoldsRest(inbox, sent, Len(taken))
      BY DEF IInv, NoAlertPassedOver
    <2>5. phase = "session" => HoldsRest(inbox \o more, sent, Len(taken))
      BY <2>1, <2>2, <2>3, <2>4, RestAfterOther
    <2>6. QED
      BY <1>5, <2>2, <2>5 DEF IInv, NoAlertPassedOver
  <1>8. QED
    BY <1>4, <1>6, <1>7 DEF IInv

-----------------------------------------------------------------------------

\* Before the first dial.
LEMMA InitFits == Init => IInv
  <1> SUFFICES ASSUME Init PROVE IInv
    OBVIOUS
  <1>1. <<>> \in Seq(Elements) /\ <<>> \in Seq(Alerts) /\ 1..Len(<<>>) = {}
    OBVIOUS
  <1>2. mode \in {"plain", "direct_tls"} /\ step = 0
    BY DEF Init
  <1>3. Total(mode) \in Nat /\ TlsStep(mode) \in Nat \ {0}
    BY <1>2, Totals DEF TlsStep
  <1>4. TypeOK
    <2>1. step \in 0..Total(mode) /\ ReconnectMin \in ReconnectMin..ReconnectMax
      BY <1>2, <1>3, ClientAssumption
    <2>2. QED
      BY <1>1, <2>1 DEF Init, TypeOK, Total
  <1>5. HandInv
    BY <1>1, <1>3 DEF Init, HandInv
  <1>6. OnlyInsideTLS /\ NoAlertPassedOver
    BY DEF Init, OnlyInsideTLS, NoAlertPassedOver
  <1>7. QED
    BY <1>4, <1>5, <1>6 DEF IInv

\* Every step keeps the invariant.
LEMMA NextKeeps ==
    ASSUME IInv, [Next]_vars
    PROVE  IInv'
  <1>1. CASE Client
    <2>1. \/ DialSucceeds \/ DialFails \/ WriteElement \/ ReadElement \/ ReadUnexpected
          \/ TlsHandshake \/ SkipElement \/ (\E a \in Alerts : AcceptAlert(a)) \/ EndOnRefusal
          \/ OnState \/ WaitOver \/ Return
      BY <1>1 DEF Client
    <2>2. CASE DialFails \/ ReadUnexpected \/ EndOnRefusal
      BY <2>2, EndsKeeps DEF DialFails, ReadUnexpected, EndOnRefusal
    <2>3. QED
      BY <2>1, <2>2, DialKeeps, WriteKeeps, ReadKeeps, TlsKeeps, SkipKeeps, AcceptKeeps, RunKeeps
  <1>2. CASE \E els \in Answers(request) : CbeAnswers(els)
    BY <1>2, AnswersKeeps
  <1>3. CASE \E a \in Alerts : CbeOffers(a)
    BY <1>3, OffersKeeps
  <1>4. CASE \E e \in Noise : CbeChatters(e)
    BY <1>4, ChattersKeeps
  <1>5. CASE HangUp \/ CbeCloses
    BY <1>5, EndsKeeps DEF HangUp, CbeCloses
  <1>6. CASE Cancel
    BY <1>6, RunKeeps
  <1>7. CASE UNCHANGED vars
    BY <1>7, SessionKept DEF vars, session, IInv, TypeOK
  <1>8. QED
    BY <1>1, <1>2, <1>3, <1>4, <1>5, <1>6, <1>7 DEF Next

\* The invariant holds in every state of the client and the CBE.
THEOREM Invariance == Spec => []IInv
  <1>1. IInv /\ [Next]_vars => IInv'
    BY NextKeeps
  <1>2. QED
    BY InitFits, <1>1, PTL DEF Spec

\* Type correctness of the CBE session: whatever the CBE writes and wherever
\* connections break, a session is at a step of its handshake, and the reconnect
\* delay of Run stays between its two bounds.
THEOREM TypeCorrect == Spec => []TypeOK
  <1>1. IInv => TypeOK
    BY DEF IInv
  <1>2. QED
    BY Invariance, <1>1, PTL

\* runOnce writes the password, reads its verdict, binds and accepts alerts
\* inside TLS only, in both modes, even if the CBE writes ahead in the clear.
THEOREM OnlyInsideTLSHolds == Spec => []OnlyInsideTLS
  <1>1. IInv => OnlyInsideTLS
    BY DEF IInv
  <1>2. QED
    BY Invariance, <1>1, PTL

\* The message loop passes over no alert: what Ingest has accepted in a session
\* and what is still to be read make up what the CBE sent, in its order.
THEOREM NoAlertPassedOverHolds == Spec => []NoAlertPassedOver
  <1>1. IInv => NoAlertPassedOver
    BY DEF IInv
  <1>2. QED
    BY Invariance, <1>1, PTL
=============================================================================
