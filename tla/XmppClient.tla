----------------------------- MODULE XmppClient -----------------------------
(***************************************************************************)
(* The CBE session: xmpp.Client.Run, its reconnect loop, the handshake and *)
(* the message loop of runOnce, and the flag that readiness and metrics    *)
(* show.                                                                   *)
(*                                                                         *)
(* The client writes one element and reads one element per step; nothing   *)
(* in runOnce has a deadline.  The CBE is external: it answers each        *)
(* element as the protocol asks, refuses it, or hangs up at any point; it  *)
(* holds alerts and offers each at most once per session, in any order.    *)
(* Ingest (AlertLifecycle) is a call that accepts an alert or refuses it.  *)
(* Namespaces and attributes are left out: the client compares element     *)
(* names, and the two kinds of iq and of features that it treats alike or  *)
(* not are elements of their own here.                                     *)
(***************************************************************************)
EXTENDS Integers, Sequences

CONSTANTS
    Alerts,         \* the CAP messages the CBE holds
    ReconnectMin,   \* cbe.reconnect_min
    ReconnectMax,   \* cbe.reconnect_max
    MaxInbox,       \* bound on messages not read yet
    MaxFaults       \* bound on failed dials, broken connections and refusals by the CBE

\* header: identifier, sender and sent are there; infos: what each info block
\* has for an expiry.
CapAlerts == [id : Nat, header : BOOLEAN, sentParses : BOOLEAN, msgType : STRING,
              infos : Seq({"none", "time", "malformed"})]

ASSUME ClientAssumption ==
    /\ Alerts \subseteq CapAlerts
    /\ ReconnectMin \in Nat \ {0} /\ ReconnectMax \in Nat /\ ReconnectMin <= ReconnectMax
    /\ MaxInbox \in Nat \ {0} /\ MaxFaults \in Nat

\* What the CBE writes.  "features+tls" offers STARTTLS; "presence" stands for
\* everything that is no message, "chat" for a message without an alert,
\* "garbage" for a message that does not decode.
Replies == {"stream", "features", "features+tls", "proceed", "success", "failure",
            "iq result", "iq error"}
Noise == {"presence", "chat", "garbage"}

\* secure: written inside TLS.
Elements == [el : Replies \cup Noise, secure : BOOLEAN]
            \cup [el : {"alert"}, alert : Alerts, secure : BOOLEAN]

VARIABLES
    mode,       \* cbe.tls_mode
    phase,      \* where Run is
    backoff,    \* its reconnect delay
    step,       \* how many steps of the handshake are done
    tls,        \* whether the connection is encrypted
    request,    \* the element the CBE has yet to answer, or "none"
    inbox,      \* what the CBE has written and the decoder not yet read
    bound,      \* whether the CBE has granted the bind
    cancelled,  \* ctx is done
    connected,  \* Service.connected
    ingested,   \* the alerts Ingest has accepted
    sent,       \* alerts the CBE has written in this session, in order
    taken,      \* alerts of this session that Ingest has accepted, in order
    clear,      \* history: what this session relied on outside TLS
    faults      \* faults so far

vars == <<mode, phase, backoff, step, tls, request, inbox, bound, cancelled,
          connected, ingested, sent, taken, clear, faults>>

session == <<step, tls, request, inbox, bound, sent, taken, clear>>

-----------------------------------------------------------------------------
(* The handshake of runOnce, as a sequence of steps *)

Write(e) == [do |-> "write", what |-> e]
Read(e) == [do |-> "read", what |-> e]

openStream == <<Write("stream"), Read("stream")>>

StartTLS == <<Read("features+tls"), Write("starttls"), Read("proceed"), [do |-> "tls"]>>

\* Faulty variant: the features after the first stream are not read.
AuthenticateUnread ==
    <<Write("auth"), Read("success")>> \o openStream \o <<Read("features")>>

Authenticate ==
    <<Read("features"), Write("auth"), Read("success")>> \o openStream \o <<Read("features")>>

Bind == <<Write("bind"), Read("iq")>>

Handshake(m) ==
    (IF m = "direct_tls" THEN <<[do |-> "tls"]>> ELSE <<>>)
    \o openStream
    \o (IF m = "plain" THEN StartTLS \o openStream ELSE <<>>)
    \o Authenticate \o Bind

\* expectStart, skipFeatures, requireFeature: names are compared, so that any
\* iq passes for an answer, and any features where none is required.
Named(e, name) ==
    \/ e = name
    \/ name = "iq" /\ e \in {"iq result", "iq error"}
    \/ name = "features" /\ e = "features+tls"

InHandshake == phase = "session" /\ step < Len(Handshake(mode))

Now == Handshake(mode)[step + 1]

-----------------------------------------------------------------------------
(* runOnce *)

\* A new connection.
DialSucceeds ==
    /\ phase = "dial" /\ ~cancelled
    /\ phase' = "session"
    /\ step' = 0 /\ tls' = FALSE /\ request' = "none" /\ inbox' = <<>>
    /\ bound' = FALSE /\ sent' = <<>> /\ taken' = <<>> /\ clear' = {}
    /\ UNCHANGED <<mode, faults, backoff, cancelled, connected, ingested>>

\* runOnce returns: the dial failed, the connection broke or closed, an
\* element was not the expected one.
Ends ==
    /\ phase' = "ended"
    /\ UNCHANGED <<mode, backoff, session, cancelled, connected, ingested>>

Faulty == faults < MaxFaults /\ faults' = faults + 1

DialFails == phase = "dial" /\ Ends /\ Faulty

WriteElement ==
    /\ InHandshake /\ Now.do = "write" /\ request = "none"
    /\ request' = Now.what
    /\ step' = step + 1
    /\ clear' = IF tls THEN clear ELSE clear \cup {Now.what}
    /\ UNCHANGED <<mode, faults, phase, backoff, tls, inbox, bound, cancelled, connected, ingested, sent, taken>>

\* After the last element of the handshake onState(true) is called.
ReadElement ==
    /\ InHandshake /\ Now.do = "read" /\ inbox # <<>>
    /\ Named(Head(inbox).el, Now.what)
    /\ inbox' = Tail(inbox)
    /\ step' = step + 1
    /\ connected' = IF step' = Len(Handshake(mode)) THEN TRUE ELSE connected
    /\ clear' = IF Head(inbox).secure THEN clear ELSE clear \cup {Now.what}
    /\ UNCHANGED <<mode, faults, phase, backoff, tls, request, bound, cancelled, ingested, sent, taken>>

ReadUnexpected ==
    /\ InHandshake /\ Now.do = "read" /\ inbox # <<>>
    /\ ~Named(Head(inbox).el, Now.what)
    /\ Ends /\ UNCHANGED faults

\* Faulty variant: the old decoder, and what it has buffered, stays in use.
TlsHandshakeOldDecoder ==
    /\ InHandshake /\ Now.do = "tls"
    /\ tls' = TRUE /\ step' = step + 1
    /\ UNCHANGED <<mode, faults, phase, backoff, request, inbox, bound, cancelled, connected, ingested,
                   sent, taken, clear>>

\* The TLS handshake succeeds; a new decoder starts empty.  (What the old one
\* had not buffered breaks the handshake, which HangUp covers.)
TlsHandshake ==
    /\ InHandshake /\ Now.do = "tls"
    /\ tls' = TRUE /\ step' = step + 1
    /\ inbox' = <<>>
    /\ UNCHANGED <<mode, faults, phase, backoff, request, bound, cancelled, connected, ingested,
                   sent, taken, clear>>

InLoop == phase = "session" /\ step = Len(Handshake(mode))

Incoming == InLoop /\ inbox # <<>>

\* Not a message, or a message without an alert.
SkipElement ==
    /\ Incoming /\ Head(inbox).el \in {"presence", "chat"}
    /\ inbox' = Tail(inbox)
    /\ UNCHANGED <<mode, faults, phase, backoff, step, tls, request, bound, cancelled, connected,
                   ingested, sent, taken, clear>>

\* Alert.Validate.
Valid(a) ==
    /\ a.header /\ a.sentParses
    /\ a.msgType \in {"Alert", "Update", "Cancel"}
    /\ a.msgType # "Cancel" => a.infos # <<>>
    /\ \A i \in DOMAIN a.infos : a.infos[i] # "malformed"

\* An alert that Validate and Ingest accept; the loop goes on.
AcceptAlert(a) ==
    /\ Incoming /\ Head(inbox).el = "alert" /\ Head(inbox).alert = a
    /\ Valid(a)
    /\ ingested' = ingested \cup {a}
    /\ taken' = Append(taken, a)
    /\ inbox' = Tail(inbox)
    /\ clear' = IF Head(inbox).secure THEN clear ELSE clear \cup {"alert"}
    /\ UNCHANGED <<mode, faults, phase, backoff, step, tls, request, bound, cancelled, connected, sent>>

\* A message that does not decode, an alert that Validate refuses, or one that
\* Ingest refuses (never one it has accepted before).
Refusable(e) == e.el = "garbage" \/ (e.el = "alert" /\ e.alert \notin ingested)

\* Faulty variant: what is refused is dropped and the loop goes on.
SkipRefused ==
    /\ Incoming /\ Refusable(Head(inbox))
    /\ inbox' = Tail(inbox)
    /\ UNCHANGED <<mode, faults, phase, backoff, step, tls, request, bound, cancelled, connected,
                   ingested, sent, taken, clear>>

\* It ends the session.
EndOnRefusal == Incoming /\ Refusable(Head(inbox)) /\ Ends /\ UNCHANGED faults

-----------------------------------------------------------------------------
(* Run *)

\* onState(false), and the end of Run if ctx is done.
OnState ==
    /\ phase = "ended"
    /\ connected' = FALSE
    /\ phase' = IF cancelled THEN "returned" ELSE "wait"
    /\ UNCHANGED <<mode, faults, backoff, session, cancelled, ingested>>

\* Faulty variant: the cap is missing.
DoubleUncapped(b) == 2 * b

Double(b) == IF 2 * b > ReconnectMax THEN ReconnectMax ELSE 2 * b

\* The timer fires.  The delay grows after every session, however long it
\* lasted, and nothing resets it.
WaitOver ==
    /\ phase = "wait"
    /\ phase' = "dial"
    /\ backoff' = Double(backoff)
    /\ UNCHANGED <<mode, faults, session, cancelled, connected, ingested>>

\* ctx is done while Run waits, or when it comes round to the loop condition.
Return ==
    /\ cancelled /\ phase \in {"wait", "dial"}
    /\ phase' = "returned"
    /\ UNCHANGED <<mode, faults, backoff, session, cancelled, connected, ingested>>

Cancel ==
    /\ ~cancelled /\ cancelled' = TRUE
    /\ UNCHANGED <<mode, faults, phase, backoff, session, connected, ingested>>

-----------------------------------------------------------------------------
(* The CBE and the network: external *)

\* What the CBE may answer to an element.  One that is ahead of itself restarts
\* the stream after proceed before TLS is there.
Answers(e) ==
    CASE e = "stream" -> {<<"stream", "features">>, <<"stream", "features+tls">>}
      [] e = "starttls" -> {<<"proceed">>, <<"failure">>, <<"proceed", "stream", "features">>}
      [] e = "auth" -> {<<"success">>, <<"failure">>}
      [] e = "bind" -> {<<"iq result">>, <<"iq error">>}
      [] OTHER -> {}

\* The answer that takes the session on.
GoodAnswer(e) ==
    CASE e = "stream" -> <<"stream", "features+tls">>
      [] e = "starttls" -> <<"proceed">>
      [] e = "auth" -> <<"success">>
      [] e = "bind" -> <<"iq result">>
      [] OTHER -> <<>>

CbeAnswers(els) ==
    /\ phase = "session" /\ els \in Answers(request)
    /\ inbox' = inbox \o [i \in DOMAIN els |-> [el |-> els[i], secure |-> tls]]
    /\ bound' = (els = <<"iq result">>)
    /\ request' = "none"
    /\ IF els = GoodAnswer(request) THEN UNCHANGED faults ELSE Faulty
    /\ UNCHANGED <<mode, phase, backoff, step, tls, cancelled, connected, ingested,
                   sent, taken, clear>>

\* Messages go to a client that is bound.
Pushes(e) ==
    /\ phase = "session" /\ bound /\ Len(inbox) < MaxInbox
    /\ inbox' = Append(inbox, e)
    /\ UNCHANGED <<mode, faults, phase, backoff, step, tls, request, bound, cancelled, connected,
                   ingested, taken, clear>>

CbeOffers(a) ==
    /\ \A i \in DOMAIN sent : sent[i] # a
    /\ Pushes([el |-> "alert", alert |-> a, secure |-> tls])
    /\ sent' = Append(sent, a)

\* An alert that no message the client may refuse is ahead of.
CbeOffersFirst(a) ==
    CbeOffers(a) /\ \A i \in DOMAIN inbox : inbox[i].el \notin {"garbage", "alert"}

CbeChatters(e) == Pushes([el |-> e, secure |-> tls]) /\ UNCHANGED sent

\* The connection breaks or a TLS handshake fails: the next read does too.
HangUp == phase = "session" /\ Ends /\ Faulty

\* The CBE closes the stream of a client whose bind it has refused.
CbeCloses == InLoop /\ ~bound /\ Ends /\ UNCHANGED faults

-----------------------------------------------------------------------------

Init ==
    /\ mode \in {"plain", "direct_tls"}
    /\ phase = "dial" /\ backoff = ReconnectMin
    /\ step = 0 /\ tls = FALSE /\ request = "none" /\ inbox = <<>> /\ bound = FALSE
    /\ cancelled = FALSE /\ connected = FALSE
    /\ ingested = {} /\ sent = <<>> /\ taken = <<>> /\ clear = {} /\ faults = 0

Client ==
    \/ DialSucceeds \/ DialFails
    \/ WriteElement \/ ReadElement \/ ReadUnexpected \/ TlsHandshake
    \/ SkipElement \/ (\E a \in Alerts : AcceptAlert(a)) \/ EndOnRefusal
    \/ OnState \/ WaitOver \/ Return

Next ==
    \/ Client
    \/ \E els \in Answers(request) : CbeAnswers(els)
    \/ \E a \in Alerts : CbeOffers(a)
    \/ \E e \in Noise : CbeChatters(e)
    \/ HangUp \/ CbeCloses \/ Cancel

\* The goroutine runs.  The CBE answers, and closes a session whose bind it has
\* refused: the client waits for it without a deadline.  In session after
\* session it offers every valid alert ahead of what the client refuses (one
\* that redelivers a refused message first starves all others), and Ingest
\* refuses no valid alert for ever.
Fairness ==
    /\ WF_vars(Client)
    /\ WF_vars(CbeAnswers(GoodAnswer(request))) /\ WF_vars(CbeCloses)
    /\ \A a \in {b \in Alerts : Valid(b)} : SF_vars(CbeOffersFirst(a)) /\ SF_vars(AcceptAlert(a))

Spec == Init /\ [][Next]_vars /\ Fairness

-----------------------------------------------------------------------------
(* Properties *)

\* Everything has its type; the delay stays between its bounds.
TypeOK ==
    /\ mode \in {"plain", "direct_tls"}
    /\ phase \in {"dial", "session", "ended", "wait", "returned"}
    /\ backoff \in ReconnectMin..ReconnectMax
    /\ step \in 0..Len(Handshake(mode))
    /\ tls \in BOOLEAN /\ bound \in BOOLEAN /\ cancelled \in BOOLEAN /\ connected \in BOOLEAN
    /\ request \in {"none", "stream", "starttls", "auth", "bind"}
    /\ inbox \in Seq(Elements)
    /\ ingested \subseteq Alerts /\ sent \in Seq(Alerts) /\ taken \in Seq(Alerts)

\* The password is written, its verdict and the features of the protected
\* stream are read, the bind is made and alerts are accepted inside TLS only,
\* in both modes and even if the CBE writes ahead in the clear: only the steps
\* that lead to TLS are seen outside it.
OnlyInsideTLS == clear \subseteq {"stream", "features+tls", "starttls", "proceed"}

\* The alerts in box are those of s after its first n, in the same order: the
\* k-th of them is at place at[k].
HoldsRest(box, s, n) ==
    \E at \in [1..(Len(s) - n) -> DOMAIN box] :
        /\ \A k, l \in DOMAIN at : k < l => at[k] < at[l]
        /\ \A k \in DOMAIN at : box[at[k]].el = "alert" /\ box[at[k]].alert = s[n + k]
        /\ \A i \in DOMAIN box : box[i].el = "alert" => \E k \in DOMAIN at : at[k] = i

\* No alert of a session is passed over: what was accepted and what is still to
\* be read make up what the CBE sent, in its order.  So an alert that is
\* refused is followed by none of the same session.
NoAlertPassedOver ==
    phase = "session" =>
        /\ Len(taken) <= Len(sent) /\ \A i \in 1..Len(taken) : taken[i] = sent[i]
        /\ HoldsRest(inbox, sent, Len(taken))

\* A valid alert that the CBE keeps offering gets through, whatever else it
\* sends and wherever sessions are interrupted: the client gets back to a
\* complete session, and alerts that are refused for ever end one each.
AlertGetsThrough == \A a \in Alerts : Valid(a) => <>(a \in ingested \/ cancelled)

=============================================================================
