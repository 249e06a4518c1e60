--------------------------- MODULE MmeAssociation ---------------------------
(***************************************************************************)
(* One SBcAP association of the CBC with an MME: delivery.mmeAssociation,  *)
(* the maintain goroutine that dials, reads and redials it, and the        *)
(* callers of sendAndAwait (Publish, and one goroutine per eNB restart     *)
(* indication).                                                            *)
(*                                                                         *)
(* A step is what the code does under one of its mutexes or in one call    *)
(* on the connection.  Connections and pending jobs are identities that    *)
(* the code allocates afresh; here they come from finite sets and one is   *)
(* reused only when nothing refers to it any more, so behaviours are not   *)
(* bounded in length.  The MME is external: it answers what it was asked,  *)
(* late, never, or out of order, and drops the association when it likes.  *)
(***************************************************************************)
EXTENDS Integers, Sequences, FiniteSets

CONSTANTS
    Senders,         \* goroutines that may call sendAndAwait
    Handlers,        \* those started by a restart indication
    Requests,        \* [procedure, ids]; ids stands for message identifier and serial
    Conns,           \* identities of connections
    Jobs,            \* identities of pendingJob objects
    MaxOutstanding,  \* bound on copies of one request the MME has not answered
    MaxInbox,        \* bound on PDUs not read yet
    ReconnectMin, ReconnectMax,
    None

ASSUME ConstantsAssumption ==
    /\ Handlers \subseteq Senders
    /\ MaxOutstanding \in Nat \ {0} /\ MaxInbox \in Nat \ {0}
    /\ ReconnectMin \in Nat \ {0} /\ ReconnectMax \in Nat /\ ReconnectMin <= ReconnectMax
    /\ None \notin Senders /\ None \notin Requests /\ None \notin Conns /\ None \notin Jobs

\* A request is known by its procedure and its identifiers.
ASSUME RequestsAssumption ==
    \A q, r \in Requests : q.procedure = r.procedure /\ q.ids = r.ids => q = r

VARIABLES
    phase,     \* where maintain is
    backoff,   \* its reconnect delay
    mine,      \* the connection it dialed last
    conn,      \* mmeAssociation.conn
    link,      \* per connection: up, dead (Read fails) or closed (Write fails too)
    done,      \* connections whose done channel is closed
    sendMu,    \* the sender that holds the lock, or None
    awaiting,  \* mmeAssociation.awaiting
    call,      \* per sender, its call of sendAndAwait
    reader,    \* what readLoop is about to put into a job's result channel
    pending,   \* per request, how many the MME has yet to answer on connection mine
    inbox      \* PDUs from the MME on connection mine, not read yet

vars == <<phase, backoff, mine, conn, link, done, sendMu, awaiting, call, reader,
          pending, inbox>>

senderVars == <<sendMu, awaiting, call>>
mmeVars == <<pending, inbox>>

\* What ends up in a result channel, with the request it was the MME's answer
\* to and the connection it came from (the code keeps the error only).
Results ==
    [kind : {"accepted", "rejected"}, req : Requests, conn : Conns]
    \cup [kind : {"lost"}, conn : Conns]

NonePending == [r \in Requests |-> 0]

PendingJobs == [id : Jobs, req : Requests]

\* nil is no job.
ASSUME NoneIsNoJob == None \notin PendingJobs

Pdus == [kind : {"accepted", "rejected"}, req : Requests] \cup [kind : {"restart"}]

Calls == [pc : {"idle", "queued", "register", "write", "await"},
          req : Requests \cup {None}, conn : Conns \cup {None},
          job : PendingJobs \cup {None}, result : Results \cup {None}]

IdleCall == [pc |-> "idle", req |-> None, conn |-> None, job |-> None, result |-> None]

QueuedCall(r) == [pc |-> "queued", req |-> r, conn |-> None, job |-> None, result |-> None]

Init ==
    /\ phase = "dial" /\ backoff = ReconnectMin
    /\ mine = None /\ conn = None
    /\ link = [c \in Conns |-> "closed"] /\ done = {}
    /\ sendMu = None /\ awaiting = None
    /\ call = [s \in Senders |-> IdleCall]
    /\ reader = None
    /\ pending = NonePending /\ inbox = <<>>

-----------------------------------------------------------------------------
(* sendAndAwait *)

\* Publish calls sendAndAwait and queues behind sendMu.
Call(s, r) ==
    /\ s \notin Handlers
    /\ call[s].pc = "idle"
    /\ call' = [call EXCEPT ![s] = QueuedCall(r)]
    /\ UNCHANGED <<phase, backoff, mine, conn, link, done, sendMu, awaiting, reader, mmeVars>>

\* The lock is taken and the current connection read.  Without one the call
\* fails at once: a send never dials.
Begin(s) ==
    /\ call[s].pc = "queued"
    /\ sendMu = None
    /\ IF conn = None
       THEN call' = [call EXCEPT ![s] = IdleCall] /\ UNCHANGED sendMu
       ELSE /\ call' = [call EXCEPT ![s].pc = "register", ![s].conn = conn]
            /\ sendMu' = s
    /\ UNCHANGED <<phase, backoff, mine, conn, link, done, awaiting, reader, mmeVars>>

\* A new job becomes the one readLoop will answer.
Register(s) ==
    /\ call[s].pc = "register"
    /\ \E j \in Jobs :
         LET job == [id |-> j, req |-> call[s].req]
         IN  /\ reader # None => reader.job.id # j
             /\ awaiting' = job
             /\ call' = [call EXCEPT ![s].pc = "write", ![s].job = job]
    /\ UNCHANGED <<phase, backoff, mine, conn, link, done, sendMu, reader, mmeVars>>

\* Faulty variant: the deferred clearing of awaiting is missing.
ReturnAwaiting(s) ==
    /\ awaiting' = awaiting
    /\ sendMu' = None
    /\ call' = [call EXCEPT ![s] = IdleCall]

\* The deferred calls: awaiting is cleared if it is still this job, then the
\* lock is released.
Return(s) ==
    /\ awaiting' = IF awaiting = call[s].job THEN None ELSE awaiting
    /\ sendMu' = None
    /\ call' = [call EXCEPT ![s] = IdleCall]

\* The write succeeds.  What is written to a connection that died and is not
\* closed yet is lost.
Write(s) ==
    /\ call[s].pc = "write"
    /\ link[call[s].conn] # "closed"
    /\ pending[call[s].req] < MaxOutstanding
    /\ call' = [call EXCEPT ![s].pc = "await"]
    /\ pending' = IF link[call[s].conn] = "up"
                  THEN [pending EXCEPT ![call[s].req] = @ + 1] ELSE pending
    /\ UNCHANGED <<phase, backoff, mine, conn, link, done, sendMu, awaiting, reader, inbox>>

\* Faulty variant: the early return forgets to unlock.
WriteFailsLocked(s) ==
    /\ call[s].pc = "write"
    /\ awaiting' = None
    /\ call' = [call EXCEPT ![s] = IdleCall]
    /\ UNCHANGED <<phase, backoff, mine, conn, link, done, sendMu, reader, mmeVars>>

\* The write fails.
WriteFails(s) ==
    /\ call[s].pc = "write"
    /\ Return(s)
    /\ UNCHANGED <<phase, backoff, mine, conn, link, done, reader, mmeVars>>

\* The write times out, and the connection is closed to unblock it.
WriteTimesOut(s) ==
    /\ call[s].pc = "write"
    /\ link[call[s].conn] # "closed"
    /\ Return(s)
    /\ link' = [link EXCEPT ![call[s].conn] = "closed"]
    /\ pending' = NonePending /\ inbox' = <<>>
    /\ UNCHANGED <<phase, backoff, mine, conn, done, reader>>

\* The select of sendAndAwait: a result, the closed done channel, or the timer.
TakeResult(s) ==
    /\ call[s].pc = "await" /\ call[s].result # None
    /\ Return(s)
    /\ UNCHANGED <<phase, backoff, mine, conn, link, done, reader, mmeVars>>

TakeDone(s) ==
    /\ call[s].pc = "await" /\ call[s].conn \in done
    /\ Return(s)
    /\ UNCHANGED <<phase, backoff, mine, conn, link, done, reader, mmeVars>>

Timeout(s) ==
    /\ call[s].pc = "await"
    /\ Return(s)
    /\ UNCHANGED <<phase, backoff, mine, conn, link, done, reader, mmeVars>>

-----------------------------------------------------------------------------
(* maintain and readLoop *)

\* Faulty variant: the cap is missing.
DoubledUncapped(b) == 2 * b

Doubled(b) == IF 2 * b > ReconnectMax THEN ReconnectMax ELSE 2 * b

\* Faulty variant: a failed dial ends the goroutine.
DialFailsForGood ==
    /\ phase = "dial"
    /\ phase' = "returned"
    /\ UNCHANGED <<backoff, mine, conn, link, done, senderVars, reader, mmeVars>>

\* Dialing fails: maintain sleeps before it tries again.
DialFails ==
    /\ phase = "dial"
    /\ phase' = "sleep"
    /\ UNCHANGED <<backoff, mine, conn, link, done, senderVars, reader, mmeVars>>

SleepOver ==
    /\ phase = "sleep"
    /\ phase' = "dial"
    /\ backoff' = Doubled(backoff)
    /\ UNCHANGED <<mine, conn, link, done, senderVars, reader, mmeVars>>

\* setConn with a fresh connection and an open done channel; readLoop starts.
DialSucceeds ==
    /\ phase = "dial"
    /\ \E c \in Conns :
         /\ \A s \in Senders : call[s].conn # c
         /\ mine' = c /\ conn' = c
         /\ link' = [link EXCEPT ![c] = "up"]
         /\ done' = done \ {c}
    /\ phase' = "read"
    /\ UNCHANGED <<backoff, senderVars, reader, pending, inbox>>

\* Faulty variant: successful outcomes are not correlated either.
AnswersByProcedure(pdu) ==
    awaiting # None /\ awaiting.req.procedure = pdu.req.procedure

\* deliverResponse: an outcome answers the job in flight if the procedures
\* agree and, for a successful outcome only, the identifiers do.
Answers(pdu) ==
    /\ awaiting # None
    /\ awaiting.req.procedure = pdu.req.procedure
    /\ pdu.kind = "accepted" => awaiting.req.ids = pdu.req.ids

Outcome(pdu) == [kind |-> pdu.kind, req |-> pdu.req, conn |-> mine]

\* Faulty variant: a restart is handled on the reading goroutine, which reads
\* nothing until its re-broadcast is over.
ReadOutcomeAfterRestart ==
    /\ phase = "read"
    /\ inbox # <<>> /\ Head(inbox).kind # "restart"
    /\ \A h \in Handlers : call[h].pc = "idle"
    /\ IF Answers(Head(inbox))
       THEN phase' = "deliver" /\ reader' = [job |-> awaiting, result |-> Outcome(Head(inbox))]
       ELSE UNCHANGED <<phase, reader>>
    /\ inbox' = Tail(inbox)
    /\ UNCHANGED <<backoff, mine, conn, link, done, senderVars, pending>>

\* readLoop reads an outcome; what answers nothing is dropped.
ReadOutcome ==
    /\ phase = "read"
    /\ inbox # <<>> /\ Head(inbox).kind # "restart"
    /\ IF Answers(Head(inbox))
       THEN phase' = "deliver" /\ reader' = [job |-> awaiting, result |-> Outcome(Head(inbox))]
       ELSE UNCHANGED <<phase, reader>>
    /\ inbox' = Tail(inbox)
    /\ UNCHANGED <<backoff, mine, conn, link, done, senderVars, pending>>

\* readLoop reads a restart indication and starts a goroutine, which will
\* write again a message already broadcast.
ReadRestart ==
    /\ phase = "read"
    /\ inbox # <<>> /\ Head(inbox).kind = "restart"
    /\ \E h \in Handlers, r \in Requests :
         /\ call[h].pc = "idle" /\ r.procedure = "write"
         /\ call' = [call EXCEPT ![h] = QueuedCall(r)]
    /\ inbox' = Tail(inbox)
    /\ UNCHANGED <<phase, backoff, mine, conn, link, done, sendMu, awaiting, reader, pending>>

\* Read returns an error: failAwaiting picks up the job in flight.
ReadError ==
    /\ phase = "read" /\ link[mine] # "up" /\ inbox = <<>>
    /\ phase' = "fail"
    /\ reader' = IF awaiting = None THEN None
                 ELSE [job |-> awaiting, result |-> [kind |-> "lost", conn |-> mine]]
    /\ UNCHANGED <<backoff, mine, conn, link, done, senderVars, mmeVars>>

\* The result goes into the job's channel if that is empty.  A job whose caller
\* has left would take it too, and nobody would read it.
PutResult ==
    /\ phase \in {"deliver", "fail"}
    /\ call' = [s \in Senders |->
         IF reader # None /\ call[s].job = reader.job /\ call[s].result = None
         THEN [call[s] EXCEPT !.result = reader.result] ELSE call[s]]
    /\ reader' = None
    /\ phase' = IF phase = "deliver" THEN "read" ELSE "close"
    /\ UNCHANGED <<backoff, mine, conn, link, done, sendMu, awaiting, mmeVars>>

CloseConn ==
    /\ phase = "close"
    /\ phase' = "clear"
    /\ link' = [link EXCEPT ![mine] = "closed"]
    /\ UNCHANGED <<backoff, mine, conn, done, senderVars, reader, mmeVars>>

ClearConn ==
    /\ phase = "clear"
    /\ phase' = "signal"
    /\ conn' = IF conn = mine THEN None ELSE conn
    /\ UNCHANGED <<backoff, mine, link, done, senderVars, reader, mmeVars>>

\* close(done).  A connection that lasted ReconnectMin is redialed at once
\* with the delay reset; a shorter one is treated like a failed dial.
SignalDone ==
    /\ phase = "signal"
    /\ done' = done \cup {mine}
    /\ \/ phase' = "dial" /\ backoff' = ReconnectMin
       \/ phase' = "sleep" /\ UNCHANGED backoff
    /\ UNCHANGED <<mine, conn, link, senderVars, reader, mmeVars>>

-----------------------------------------------------------------------------
(* The MME and the network: external *)

Restarts == Cardinality({i \in 1..Len(inbox) : inbox[i].kind = "restart"})

\* It answers any request it has, accepting or refusing it.
MmeAnswers ==
    /\ Len(inbox) < MaxInbox
    /\ \E r \in Requests, kind \in {"accepted", "rejected"} :
         /\ pending[r] > 0
         /\ inbox' = Append(inbox, [kind |-> kind, req |-> r])
         /\ pending' = [pending EXCEPT ![r] = @ - 1]
    /\ UNCHANGED <<phase, backoff, mine, conn, link, done, senderVars, reader>>

\* An eNB restarted.  Not more often than there are handlers to model.
MmeIndicatesRestart ==
    /\ mine # None /\ link[mine] = "up"
    /\ Len(inbox) < MaxInbox
    /\ Restarts + Cardinality({h \in Handlers : call[h].pc # "idle"}) < Cardinality(Handlers)
    /\ inbox' = Append(inbox, [kind |-> "restart"])
    /\ UNCHANGED <<phase, backoff, mine, conn, link, done, senderVars, reader, pending>>

\* The association breaks; what had arrived may still be read, or not.
LinkDies ==
    /\ mine # None /\ link[mine] = "up"
    /\ link' = [link EXCEPT ![mine] = "dead"]
    /\ pending' = NonePending
    /\ inbox' \in {inbox, <<>>}
    /\ UNCHANGED <<phase, backoff, mine, conn, done, senderVars, reader>>

-----------------------------------------------------------------------------

Maintain ==
    \/ DialFails \/ SleepOver \/ DialSucceeds
    \/ ReadOutcome \/ ReadRestart \/ ReadError \/ PutResult
    \/ CloseConn \/ ClearConn \/ SignalDone

\* What a sender does on its own account, its timer apart.
Advance(s) ==
    \/ Register(s)
    \/ Write(s) \/ WriteFails(s) \/ WriteTimesOut(s)
    \/ TakeResult(s) \/ TakeDone(s)

Mme == MmeAnswers \/ MmeIndicatesRestart \/ LinkDies

Next ==
    \/ \E s \in Senders, r \in Requests : Call(s, r)
    \/ \E s \in Senders : Begin(s) \/ Advance(s) \/ Timeout(s)
    \/ Maintain
    \/ Mme

\* Goroutines run; sync.Mutex does not starve a waiter; a peer that can be
\* dialed again and again is reached in the end.  Nothing is assumed of the
\* response timer, nor of the MME's answers.
Fairness ==
    /\ WF_vars(Maintain)
    /\ SF_vars(DialSucceeds)
    /\ \A s \in Senders : WF_vars(Advance(s)) /\ SF_vars(Begin(s))

SafetySpec == Init /\ [][Next]_vars

Spec == SafetySpec /\ Fairness

\* The response timer of sendAndAwait fires.
TimersFire == \A s \in Senders : WF_vars(Timeout(s))

-----------------------------------------------------------------------------
(* Properties *)

\* Everything has its type; the delay stays between its bounds.
TypeOK ==
    /\ phase \in {"dial", "sleep", "read", "deliver", "fail", "close", "clear", "signal"}
    /\ backoff \in ReconnectMin..ReconnectMax
    /\ mine \in Conns \cup {None} /\ conn \in Conns \cup {None}
    /\ link \in [Conns -> {"up", "dead", "closed"}]
    /\ done \subseteq Conns
    /\ sendMu \in Senders \cup {None}
    /\ awaiting \in PendingJobs \cup {None}
    /\ call \in [Senders -> Calls]
    /\ reader \in [job : PendingJobs, result : Results] \cup {None}
    /\ pending \in [Requests -> 0..MaxOutstanding]
    /\ inbox \in Seq(Pdus) /\ Len(inbox) <= MaxInbox

\* The correlation slot belongs to the caller that holds sendMu: it is never
\* left over from a call that has returned, on whatever path it returned.
SlotHasOwner ==
    awaiting # None =>
        /\ sendMu # None
        /\ call[sendMu].pc \in {"write", "await"}
        /\ call[sendMu].job = awaiting

\* A call that succeeds was granted: the MME accepted a request with its
\* procedure and identifiers, on the connection the call was made on.  Late
\* answers to calls that timed out, and reconnects, do not confuse it.
SuccessIsGenuine ==
    \A s \in Senders :
        call[s].result # None /\ call[s].result.kind = "accepted"
        => call[s].result.req = call[s].req /\ call[s].result.conn = call[s].conn

\* sendAndAwait "blocks for the matching successful/unsuccessful outcome":
\* a call that is told it was rejected was rejected.
RejectionIsGenuine ==
    \A s \in Senders :
        call[s].result # None /\ call[s].result.kind = "rejected"
        => call[s].result.req = call[s].req

\* A caller is woken without the help of its timer, by an answer that has
\* arrived, as readLoop never waits for a sender, not even after a restart, and
\* by the death of its connection, even if it registered after failAwaiting had
\* looked.
NewsReachesCaller ==
    \A s \in Senders :
        /\ call[s].pc = "await"
        /\ \/ link[call[s].conn] # "up"
           \/ \E i \in 1..Len(inbox) : inbox[i].kind = "accepted" /\ inbox[i].req = call[s].req
        ~> call[s].pc # "await"

\* The association is maintained: whenever it is down it comes up again, with
\* no alert traffic needed.
AssociationReturns == conn = None ~> conn # None

\* Every call of sendAndAwait returns, whatever the MME does, if its timer
\* fires.
EverySendReturns ==
    TimersFire => \A s \in Senders : call[s].pc # "idle" ~> call[s].pc = "idle"

=============================================================================
