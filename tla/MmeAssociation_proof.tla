------------------------ MODULE MmeAssociation_proof ------------------------
(***************************************************************************)
(* Proofs about MmeAssociation, for any number of senders, handlers,       *)
(* connections and requests.  One inductive invariant carries all of them: *)
(* who holds sendMu, what maintain knows of its connection in each phase,  *)
(* and that a caller on an old connection finds nothing on the new one     *)
(* that it could take for its answer.                                      *)
(***************************************************************************)
EXTENDS MmeAssociation, TLAPS

Holding == {"register", "write", "await"}
Posted == {"write", "await"}
Serving == {"read", "deliver", "fail", "close", "clear"}

-----------------------------------------------------------------------------
(* The inductive invariant *)

\* A call has what its program counter says: nothing before the lock is taken,
\* then a connection, then a job for its own request.
CallShape ==
    \A s \in Senders :
        /\ call[s].pc # "idle" => call[s].req \in Requests
        /\ call[s].pc \in Holding <=> call[s].conn \in Conns
        /\ call[s].pc \in Posted => call[s].job \in PendingJobs /\ call[s].job.req = call[s].req
        /\ call[s].pc \notin Posted => call[s].job = None /\ call[s].result = None

\* sendMu is held by the sender inside the critical section, and by no other.
LockInv == \A s \in Senders : call[s].pc \in Holding <=> sendMu = s

\* The slot is the job of the sender inside, and empty when nobody waits.
SlotInv ==
    /\ \A s \in Senders : call[s].pc \in Posted => awaiting = call[s].job
    /\ awaiting # None => \E s \in Senders : call[s].pc \in Posted

\* What maintain knows of its connection: published while it is served, up at
\* most while it is read, closed before it is given up.
ConnInv ==
    /\ phase \in Serving => mine \in Conns /\ conn = mine
    /\ phase \notin Serving => conn = None
    /\ phase = "signal" => mine \in Conns
    /\ \A c \in Conns : link[c] = "up" => c = mine /\ phase \in {"read", "deliver"}
    /\ \A c \in Conns : c # mine \/ phase \in {"clear", "signal", "dial", "sleep"}
                        => link[c] = "closed"

\* Nothing is outstanding on a connection that is not up, nothing unread once
\* reading has failed.
TrafficInv ==
    /\ (\A c \in Conns : link[c] # "up") => pending = NonePending
    /\ phase \notin {"read", "deliver"} => inbox = <<>>

\* readLoop carries a result in two phases only, from its own connection; an
\* acceptance it carries is of the job's request.
ReaderInv ==
    /\ phase \notin {"deliver", "fail"} => reader = None
    /\ reader # None =>
         /\ reader.result.conn = mine
         /\ reader.result.kind = "accepted" => reader.result.req = reader.job.req

\* A caller that took the lock on an older connection is alone on the new one:
\* nobody has written to it, so that it holds no outcome.
OldCallInv ==
    (\E s \in Senders : call[s].pc \in Holding /\ call[s].conn # mine) =>
        /\ pending = NonePending
        /\ \A i \in 1..Len(inbox) : inbox[i].kind = "restart"
        /\ reader # None => reader.result.kind = "lost"

IInv ==
    /\ TypeOK /\ CallShape /\ LockInv /\ SlotInv
    /\ ConnInv /\ TrafficInv /\ ReaderInv /\ OldCallInv /\ SuccessIsGenuine

-----------------------------------------------------------------------------

\* A call keeps its type when its program counter moves, and when it is given
\* a connection, a job or a result.
LEMMA CallTypes ==
    ASSUME NEW k \in Calls, NEW pc \in {"register", "write", "await"}
    PROVE  /\ [k EXCEPT !.pc = pc] \in Calls
           /\ \A c \in Conns : [k EXCEPT !.pc = pc, !.conn = c] \in Calls
           /\ \A job \in PendingJobs : [k EXCEPT !.pc = pc, !.job = job] \in Calls
           /\ \A result \in Results : [k EXCEPT !.result = result] \in Calls
  BY DEF Calls

\* No connection, no call: the invariant holds.
LEMMA InitIInv == Init => IInv
  <1> SUFFICES ASSUME Init PROVE IInv
    OBVIOUS
  <1> USE ConstantsAssumption
  <1>1. call \in [Senders -> Calls] /\ \A s \in Senders : call[s] = IdleCall
    BY DEF Init, Calls, IdleCall
  <1>2. TypeOK
    BY <1>1 DEF Init, TypeOK, NonePending
  <1>3. CallShape /\ LockInv /\ SlotInv /\ SuccessIsGenuine
    BY <1>1 DEF Init, CallShape, LockInv, SlotInv, SuccessIsGenuine, IdleCall, Holding, Posted
  <1>4. ConnInv /\ TrafficInv /\ ReaderInv /\ OldCallInv
    BY <1>1 DEF Init, ConnInv, TrafficInv, ReaderInv, OldCallInv, IdleCall, Holding, Serving
  <1>5. QED
    BY <1>2, <1>3, <1>4 DEF IInv

-----------------------------------------------------------------------------
(* The senders *)

\* A caller that queues for the lock has nothing yet.
LEMMA CallKeeps ==
    ASSUME IInv, NEW s \in Senders, NEW r \in Requests, Call(s, r)
    PROVE  IInv'
  <1> USE ConstantsAssumption DEF IInv
  <1>1. call' = [call EXCEPT ![s] = QueuedCall(r)]
    BY DEF Call
  <1>2. QueuedCall(r) \in Calls
    BY DEF QueuedCall, Calls
  <1>3. TypeOK'
    BY <1>1, <1>2 DEF TypeOK, Call, mmeVars
  <1>4. CallShape' /\ LockInv' /\ SlotInv' /\ SuccessIsGenuine'
    BY <1>1, <1>2, <1>3 DEF Call, QueuedCall, TypeOK, CallShape, LockInv, SlotInv, SuccessIsGenuine, Holding, Posted
  <1>5. ConnInv' /\ TrafficInv' /\ ReaderInv'
    BY DEF Call, ConnInv, TrafficInv, ReaderInv, mmeVars
  <1>6. OldCallInv'
    BY <1>1 DEF Call, OldCallInv, Holding, QueuedCall, TypeOK, mmeVars
  <1>7. QED
    BY <1>3, <1>4, <1>5, <1>6 DEF IInv

\* A caller that waited returns: it empties the slot and gives up the lock.
LEMMA ReturnKeeps ==
    ASSUME IInv, NEW s \in Senders, call[s].pc \in Posted, Return(s),
           UNCHANGED <<phase, backoff, mine, conn, link, done, reader, mmeVars>>
    PROVE  IInv'
  <1> USE ConstantsAssumption DEF IInv
  <1>1. call' = [call EXCEPT ![s] = IdleCall] /\ sendMu' = None
    BY DEF Return
  <1>2. IdleCall \in Calls
    BY DEF IdleCall, Calls
  <1>3. awaiting' = None
    BY DEF Return, SlotInv
  <1>4. TypeOK'
    BY <1>1, <1>2, <1>3 DEF TypeOK, mmeVars
  <1>5. \A t \in Senders : call[t].pc \in Holding => t = s
    BY DEF LockInv, Holding, Posted
  <1>6. \A t \in Senders : call'[t].pc \notin Holding
    BY <1>1, <1>5 DEF TypeOK, IdleCall, Holding
  <1>7. CallShape' /\ LockInv' /\ SlotInv' /\ SuccessIsGenuine'
    BY <1>1, <1>2, <1>3, <1>4, <1>6 DEF IdleCall, TypeOK, CallShape, LockInv, SlotInv, SuccessIsGenuine, Holding, Posted
  <1>8. ConnInv' /\ TrafficInv' /\ ReaderInv'
    BY DEF ConnInv, TrafficInv, ReaderInv, mmeVars
  <1>9. OldCallInv'
    BY <1>6 DEF OldCallInv
  <1>10. QED
    BY <1>4, <1>7, <1>8, <1>9 DEF IInv

\* Whoever takes the lock found it free; without a connection it returns at once.
LEMMA BeginKeeps ==
    ASSUME IInv, NEW s \in Senders, Begin(s)
    PROVE  IInv'
  <1> USE ConstantsAssumption DEF IInv
  <1>1. CASE conn = None
    <2>1. call' = [call EXCEPT ![s] = IdleCall] /\ IdleCall \in Calls
      BY <1>1 DEF Begin, IdleCall, Calls
    <2>2. TypeOK'
      BY <1>1, <2>1 DEF Begin, TypeOK, mmeVars
    <2>3. CallShape' /\ LockInv' /\ SlotInv' /\ SuccessIsGenuine'
      BY <1>1, <2>1, <2>2 DEF Begin, IdleCall, TypeOK, CallShape, LockInv, SlotInv,
                              SuccessIsGenuine, Holding, Posted
    <2>4. ConnInv' /\ TrafficInv' /\ ReaderInv'
      BY DEF Begin, ConnInv, TrafficInv, ReaderInv, mmeVars
    <2>5. OldCallInv'
      BY <2>1 DEF Begin, OldCallInv, Holding, IdleCall, TypeOK, mmeVars
    <2>6. QED
      BY <2>2, <2>3, <2>4, <2>5 DEF IInv
  <1>2. CASE conn # None
    <2>1. /\ call' = [call EXCEPT ![s] = [call[s] EXCEPT !.pc = "register", !.conn = conn]]
          /\ sendMu' = s /\ conn = mine /\ mine \in Conns
      BY <1>2 DEF Begin, ConnInv, TypeOK, Calls
    <2> [call[s] EXCEPT !.pc = "register", !.conn = conn] \in Calls
      BY <2>1, CallTypes DEF TypeOK
    <2>2. TypeOK'
      BY <2>1 DEF Begin, TypeOK, mmeVars
    <2>3. CallShape' /\ LockInv' /\ SlotInv' /\ SuccessIsGenuine'
      BY <2>1, <2>2 DEF Begin, TypeOK, Calls, CallShape, LockInv, SlotInv,
                        SuccessIsGenuine, Holding, Posted
    <2>4. ConnInv' /\ TrafficInv' /\ ReaderInv'
      BY DEF Begin, ConnInv, TrafficInv, ReaderInv, mmeVars
    <2>5. OldCallInv'
      BY <2>1 DEF Begin, OldCallInv, LockInv, Holding, TypeOK, Calls, mmeVars
    <2>6. QED
      BY <2>2, <2>3, <2>4, <2>5 DEF IInv
  <1>3. QED
    BY <1>1, <1>2

\* The slot was empty, and the job is one that no result carries.
LEMMA RegisterKeeps ==
    ASSUME IInv, NEW s \in Senders, Register(s)
    PROVE  IInv'
  <1> USE ConstantsAssumption DEF IInv
  <1>0. PICK job :
          /\ job \in [id : Jobs, req : {call[s].req}]
          /\ awaiting' = job
          /\ call' = [call EXCEPT ![s].pc = "write", ![s].job = job]
    BY DEF Register
  <1>1. /\ awaiting' = job
        /\ call' = [call EXCEPT ![s] = [call[s] EXCEPT !.pc = "write", !.job = job]]
    BY <1>0 DEF TypeOK, Calls
  <1>2. job \in PendingJobs /\ job.req = call[s].req
    BY <1>0 DEF Register, CallShape, PendingJobs
  <1> [call[s] EXCEPT !.pc = "write", !.job = job] \in Calls
    BY <1>2, CallTypes DEF TypeOK
  <1>3. TypeOK'
    BY <1>1, <1>2 DEF Register, TypeOK, mmeVars
  <1>4. CallShape' /\ LockInv' /\ SuccessIsGenuine'
    BY <1>1, <1>2, <1>3, SMTT(30) DEF Register, TypeOK, Calls, CallShape, LockInv, 
                      SuccessIsGenuine, Holding, Posted
  <1>5. SlotInv'
    BY <1>1, <1>2, <1>3 DEF Register, TypeOK, Calls, LockInv, SlotInv, Holding, Posted
  <1>6. ConnInv' /\ TrafficInv' /\ ReaderInv'
    BY DEF Register, ConnInv, TrafficInv, ReaderInv, mmeVars
  <1>7. OldCallInv'
    BY <1>1 DEF Register, OldCallInv, Holding, TypeOK, Calls, mmeVars
  <1>8. QED
    BY <1>3, <1>4, <1>5, <1>6, <1>7 DEF IInv

\* What a caller writes is outstanding only if its connection is up, which is then the
\* one in use.
LEMMA WriteKeeps ==
    ASSUME IInv, NEW s \in Senders, Write(s)
    PROVE  IInv'
  <1> USE ConstantsAssumption DEF IInv
  <1>1. /\ call' = [call EXCEPT ![s] = [call[s] EXCEPT !.pc = "await"]]
        /\ call[s].pc = "write" /\ call[s].conn \in Conns /\ call[s].req \in Requests
    BY DEF Write, TypeOK, Calls, CallShape, Holding
  <1> [call[s] EXCEPT !.pc = "await"] \in Calls
    BY CallTypes DEF TypeOK
  <1> pending' \in [Requests -> 0..MaxOutstanding]
    BY <1>1, SMTT(30) DEF Write, TypeOK
  <1>2. TypeOK'
    BY <1>1 DEF Write, TypeOK
  <1>3. CallShape' /\ LockInv' /\ SlotInv' /\ SuccessIsGenuine'
    BY <1>1, <1>2 DEF Write, TypeOK, Calls, CallShape, LockInv, SlotInv,
                      SuccessIsGenuine, Holding, Posted
  <1>4. ConnInv' /\ TrafficInv' /\ ReaderInv'
    BY <1>1 DEF Write, ConnInv, TrafficInv, ReaderInv
  <1>5. OldCallInv'
    BY <1>1 DEF Write, OldCallInv, LockInv, ConnInv, Holding, TypeOK, Calls
  <1>6. QED
    BY <1>2, <1>3, <1>4, <1>5 DEF IInv

\* A caller whose write failed returns as one that waited does.
LEMMA WriteTimesOutKeeps ==
    ASSUME IInv, NEW s \in Senders, WriteTimesOut(s)
    PROVE  IInv'
  <1> USE ConstantsAssumption DEF IInv
  <1>1. call' = [call EXCEPT ![s] = IdleCall] /\ sendMu' = None /\ call[s].pc \in Posted
    BY DEF WriteTimesOut, Return, Posted
  <1>2. IdleCall \in Calls
    BY DEF IdleCall, Calls
  <1>3. awaiting' = None
    BY <1>1 DEF WriteTimesOut, Return, SlotInv
  <1> /\ pending' \in [Requests -> 0..MaxOutstanding]
      /\ inbox' = <<>> /\ inbox' \in Seq(Pdus) /\ Len(inbox') = 0
    BY DEF WriteTimesOut, NonePending
  <1> link' \in [Conns -> {"up", "dead", "closed"}]
    BY DEF WriteTimesOut, TypeOK
  <1>4. TypeOK'
    BY <1>1, <1>2, <1>3 DEF WriteTimesOut, TypeOK
  <1>5. \A t \in Senders : call[t].pc \in Holding => t = s
    BY <1>1 DEF LockInv, Holding, Posted
  <1>6. \A t \in Senders : call'[t].pc \notin Holding
    BY <1>1, <1>5 DEF TypeOK, IdleCall, Holding
  <1>7. CallShape' /\ LockInv' /\ SlotInv' /\ SuccessIsGenuine'
    BY <1>1, <1>2, <1>3, <1>4, <1>6
    DEF IdleCall, TypeOK, CallShape, LockInv, SlotInv, SuccessIsGenuine, Holding, Posted
  <1>8. ConnInv' /\ ReaderInv'
    BY DEF WriteTimesOut, ConnInv, ReaderInv, TypeOK
  <1>9. TrafficInv' /\ OldCallInv'
    BY <1>6 DEF WriteTimesOut, TrafficInv, OldCallInv, NonePending
  <1>10. QED
    BY <1>4, <1>7, <1>8, <1>9 DEF IInv

-----------------------------------------------------------------------------
(* maintain and readLoop *)

\* Waiting to dial again concerns nobody.
LEMMA SleepKeeps ==
    ASSUME IInv, DialFails \/ SleepOver
    PROVE  IInv'
  <1> USE ConstantsAssumption DEF IInv, senderVars, mmeVars
  <1>1. TypeOK'
    BY DEF DialFails, SleepOver, TypeOK, Doubled
  <1>2. CallShape' /\ LockInv' /\ SlotInv' /\ SuccessIsGenuine'
    BY DEF DialFails, SleepOver, CallShape, LockInv, SlotInv, SuccessIsGenuine
  <1>3. ConnInv' /\ TrafficInv' /\ ReaderInv' /\ OldCallInv'
    BY DEF DialFails, SleepOver, ConnInv, TrafficInv, ReaderInv, OldCallInv, Serving
  <1>4. QED
    BY <1>1, <1>2, <1>3 DEF IInv

\* The new connection is one no caller has, and nothing is outstanding on it.
LEMMA DialSucceedsKeeps ==
    ASSUME IInv, DialSucceeds
    PROVE  IInv'
  <1> USE ConstantsAssumption DEF IInv, senderVars
  <1>1. PICK c \in Conns :
          /\ \A s \in Senders : call[s].conn # c
          /\ mine' = c /\ conn' = c
          /\ link' = [link EXCEPT ![c] = "up"]
          /\ done' = done \ {c}
    BY DEF DialSucceeds
  <1>2. TypeOK'
    BY <1>1 DEF DialSucceeds, TypeOK
  <1>3. CallShape' /\ LockInv' /\ SlotInv' /\ SuccessIsGenuine'
    BY DEF DialSucceeds, CallShape, LockInv, SlotInv, SuccessIsGenuine
  <1>4. ConnInv'
    BY <1>1 DEF DialSucceeds, ConnInv, Serving, TypeOK
  <1>5. pending = NonePending /\ inbox = <<>> /\ reader = None
    BY DEF DialSucceeds, ConnInv, TrafficInv, ReaderInv
  <1>6. TrafficInv' /\ ReaderInv' /\ OldCallInv'
    BY <1>1, <1>5 DEF DialSucceeds, TrafficInv, ReaderInv, OldCallInv, TypeOK, NonePending
  <1>7. QED
    BY <1>2, <1>3, <1>4, <1>6 DEF IInv

\* What is left of the inbox after its first PDU has been read.
LEMMA TailOfInbox ==
    ASSUME TypeOK, inbox # <<>>
    PROVE  /\ Head(inbox) \in Pdus /\ Head(inbox) = inbox[1] /\ Len(inbox) > 0
           /\ Tail(inbox) \in Seq(Pdus) /\ Len(Tail(inbox)) = Len(inbox) - 1
           /\ \A i \in 1..Len(Tail(inbox)) : Tail(inbox)[i] = inbox[i + 1]
  BY DEF TypeOK

\* readLoop carries an outcome to the job in the slot; an acceptance only if it is of
\* the job's own request.
LEMMA ReadOutcomeKeeps ==
    ASSUME IInv, ReadOutcome
    PROVE  IInv'
  <1> USE ConstantsAssumption DEF IInv, senderVars
  <1> DEFINE pdu == Head(inbox)
  <1>1. /\ phase = "read" /\ inbox # <<>> /\ mine \in Conns
        /\ inbox' = Tail(inbox) /\ inbox' \in Seq(Pdus) /\ Len(inbox') <= MaxInbox
    BY TailOfInbox DEF ReadOutcome, TypeOK, ConnInv, Serving
  <1>2. pdu.kind \in {"accepted", "rejected"} /\ pdu.req \in Requests
    BY TailOfInbox DEF ReadOutcome, Pdus
  <1>3. /\ Outcome(pdu) \in Results /\ Outcome(pdu).kind = pdu.kind
        /\ Outcome(pdu).req = pdu.req /\ Outcome(pdu).conn = mine
    BY <1>1, <1>2 DEF Outcome, Results
  <1>4. CallShape' /\ LockInv' /\ SlotInv' /\ SuccessIsGenuine'
    BY DEF ReadOutcome, CallShape, LockInv, SlotInv, SuccessIsGenuine
  <1>5. ConnInv' /\ TrafficInv'
    BY DEF ReadOutcome, ConnInv, TrafficInv, Serving
  \* The outcome read is an outcome in the inbox of the current connection.
  <1>6. ~ \E s \in Senders : call[s].pc \in Holding /\ call[s].conn # mine
    BY <1>1, <1>2, TailOfInbox DEF OldCallInv
  <1>7. OldCallInv'
    BY <1>6 DEF ReadOutcome, OldCallInv
  <1>8. CASE Answers(pdu)
    <2>1. reader' = [job |-> awaiting, result |-> Outcome(pdu)] /\ phase' = "deliver"
      BY <1>8 DEF ReadOutcome
    <2>2. awaiting \in PendingJobs
      BY <1>8 DEF Answers, TypeOK
    <2>3. TypeOK'
      BY <1>1, <1>3, <2>1, <2>2 DEF ReadOutcome, TypeOK
    <2>4. pdu.kind = "accepted" => pdu.req = awaiting.req
      BY <1>2, <1>8, <2>2, RequestsAssumption DEF Answers, PendingJobs
    <2>5. ReaderInv'
      BY <1>3, <2>1, <2>4 DEF ReaderInv, ReadOutcome
    <2>6. QED
      BY <1>4, <1>5, <1>7, <2>3, <2>5 DEF IInv
  <1>9. CASE ~Answers(pdu)
    <2>1. TypeOK' /\ ReaderInv'
      BY <1>1, <1>9 DEF ReadOutcome, TypeOK, ReaderInv
    <2>2. QED
      BY <1>4, <1>5, <1>7, <2>1 DEF IInv
  <1>10. QED
    BY <1>8, <1>9

\* A restart starts a caller of its own and leaves the others alone.
LEMMA ReadRestartKeeps ==
    ASSUME IInv, ReadRestart
    PROVE  IInv'
  <1> USE ConstantsAssumption DEF IInv
  <1>1. PICK h \in Senders, r \in Requests :
          call[h].pc = "idle" /\ call' = [call EXCEPT ![h] = QueuedCall(r)]
    BY DEF ReadRestart
  <1>2. QueuedCall(r) \in Calls
    BY DEF QueuedCall, Calls
  <1>3. inbox' = Tail(inbox) /\ inbox' \in Seq(Pdus) /\ Len(inbox') <= MaxInbox
    BY TailOfInbox DEF ReadRestart, TypeOK
  <1>4. TypeOK'
    BY <1>1, <1>2, <1>3 DEF ReadRestart, TypeOK
  <1>5. CallShape' /\ LockInv' /\ SlotInv' /\ SuccessIsGenuine'
    BY <1>1, <1>2, <1>4 DEF ReadRestart, QueuedCall, TypeOK, CallShape, LockInv, SlotInv,
                            SuccessIsGenuine, Holding, Posted
  <1>6. ConnInv' /\ TrafficInv' /\ ReaderInv'
    BY DEF ReadRestart, ConnInv, TrafficInv, ReaderInv
  <1>7. \A i \in 1..Len(inbox') : i + 1 \in 1..Len(inbox) /\ inbox'[i] = inbox[i + 1]
    BY <1>3, TailOfInbox DEF ReadRestart, TypeOK
  <1>8. OldCallInv'
    BY <1>1, <1>7 DEF ReadRestart, OldCallInv, Holding, QueuedCall, TypeOK
  <1>9. QED
    BY <1>4, <1>5, <1>6, <1>8 DEF IInv

\* Once reading has failed nothing is unread, and whoever waits is told of a loss.
LEMMA ReadErrorKeeps ==
    ASSUME IInv, ReadError
    PROVE  IInv'
  <1> USE ConstantsAssumption DEF IInv, senderVars, mmeVars
  <1> DEFINE lost == [kind |-> "lost", conn |-> mine]
  <1>1. mine \in Conns /\ lost \in Results
    BY DEF ReadError, ConnInv, Serving, Results
  <1>2. reader' = None \/ (reader' = [job |-> awaiting, result |-> lost] /\ awaiting \in PendingJobs)
    BY DEF ReadError, TypeOK
  <1>3. TypeOK'
    BY <1>1, <1>2 DEF ReadError, TypeOK
  <1>4. CallShape' /\ LockInv' /\ SlotInv' /\ SuccessIsGenuine'
    BY DEF ReadError, CallShape, LockInv, SlotInv, SuccessIsGenuine
  <1>5. ConnInv' /\ TrafficInv'
    BY <1>1 DEF ReadError, ConnInv, TrafficInv, Serving
  <1>6. ReaderInv' /\ OldCallInv'
    BY <1>2 DEF ReadError, ReaderInv, OldCallInv
  <1>7. QED
    BY <1>3, <1>4, <1>5, <1>6 DEF IInv

\* The result goes to the caller whose job it carries, and to no other.
LEMMA PutResultKeeps ==
    ASSUME IInv, PutResult
    PROVE  IInv'
  <1> USE ConstantsAssumption DEF IInv
  <1> DEFINE Gets(s) == reader # None /\ call[s].job = reader.job /\ call[s].result = None
  <1>1. /\ call' = [s \in Senders |->
             IF Gets(s) THEN [call[s] EXCEPT !.result = reader.result] ELSE call[s]]
        /\ reader' = None
    BY DEF PutResult
  <1>2. ASSUME NEW s \in Senders
        PROVE  /\ call'[s] \in Calls
               /\ call'[s].pc = call[s].pc /\ call'[s].req = call[s].req
               /\ call'[s].conn = call[s].conn /\ call'[s].job = call[s].job
               /\ call'[s].result = IF Gets(s) THEN reader.result ELSE call[s].result
    <2>1. call[s] \in Calls /\ (Gets(s) => reader.result \in Results)
      BY DEF TypeOK
    <2>2. call'[s] \in Calls
      BY <1>1, <2>1, CallTypes
    <2>3. QED
      BY <1>1, <2>1, <2>2 DEF Calls
  <1>3. TypeOK'
    BY <1>1, <1>2 DEF PutResult, TypeOK, mmeVars
  <1>4. \A s \in Senders : Gets(s) => call[s].pc \in Posted
    BY NoneIsNoJob DEF CallShape, TypeOK
  <1>5. CallShape' /\ LockInv' /\ SlotInv'
    BY <1>2, <1>4 DEF PutResult, CallShape, LockInv, SlotInv
  <1>6. ConnInv' /\ TrafficInv'
    BY DEF PutResult, ConnInv, TrafficInv, Serving, mmeVars
  <1>7. ReaderInv' /\ OldCallInv'
    BY <1>2 DEF PutResult, ReaderInv, OldCallInv, mmeVars
  <1>8. ASSUME NEW s \in Senders, call'[s].result # None, call'[s].result.kind = "accepted"
        PROVE  call'[s].result.req = call'[s].req /\ call'[s].result.conn = call'[s].conn
    <2>1. CASE ~Gets(s)
      BY <1>2, <1>8, <2>1 DEF SuccessIsGenuine
    <2>2. CASE Gets(s)
      <3>1. reader.result.kind = "accepted" /\ call[s].pc \in Posted
        BY <1>2, <1>4, <1>8, <2>2
      <3>2. call[s].conn = mine
        BY <2>2, <3>1 DEF OldCallInv, Holding, Posted
      <3>3. reader.result.req = call[s].req /\ reader.result.conn = mine
        BY <2>2, <3>1 DEF ReaderInv, CallShape
      <3>4. QED
        BY <1>2, <2>2, <3>2, <3>3
    <2>3. QED
      BY <2>1, <2>2
  <1>9. SuccessIsGenuine'
    BY <1>8 DEF SuccessIsGenuine
  <1>10. QED
    BY <1>3, <1>5, <1>6, <1>7, <1>9 DEF IInv

\* maintain closes, clears and signals in this order, so that conn is served or None.
LEMMA GiveUpKeeps ==
    ASSUME IInv, CloseConn \/ ClearConn \/ SignalDone
    PROVE  IInv'
  <1> USE ConstantsAssumption DEF IInv, senderVars, mmeVars
  <1>1. phase \in {"close", "clear", "signal"} /\ mine \in Conns
    BY DEF CloseConn, ClearConn, SignalDone, ConnInv, Serving
  <1>2. TypeOK'
    BY <1>1, SMTT(30) DEF CloseConn, ClearConn, SignalDone, TypeOK
  <1>3. CallShape' /\ LockInv' /\ SlotInv' /\ SuccessIsGenuine'
    BY DEF CloseConn, ClearConn, SignalDone, CallShape, LockInv, SlotInv, SuccessIsGenuine
  <1>4. ConnInv'
    BY <1>1 DEF CloseConn, ClearConn, SignalDone, ConnInv, Serving, TypeOK
  <1>5. TrafficInv' /\ ReaderInv' /\ OldCallInv'
    BY <1>1 DEF CloseConn, ClearConn, SignalDone, TrafficInv, ReaderInv, OldCallInv, ConnInv, TypeOK
  <1>6. QED
    BY <1>2, <1>3, <1>4, <1>5 DEF IInv

-----------------------------------------------------------------------------
(* The MME and the network *)

\* An answer is to a request outstanding.
LEMMA MmeAnswersKeeps ==
    ASSUME IInv, MmeAnswers
    PROVE  IInv'
  <1> USE ConstantsAssumption DEF IInv, senderVars
  <1>1. PICK r \in Requests, kind \in {"accepted", "rejected"} :
          /\ pending[r] > 0
          /\ inbox' = Append(inbox, [kind |-> kind, req |-> r])
          /\ pending' = [pending EXCEPT ![r] = @ - 1]
    BY DEF MmeAnswers
  <1>2. pending # NonePending
    BY <1>1 DEF NonePending
  <1>3. PICK c \in Conns : link[c] = "up" /\ phase \in {"read", "deliver"}
    BY <1>2 DEF TrafficInv, ConnInv
  <1>4. [kind |-> kind, req |-> r] \in Pdus
    BY DEF Pdus
  <1>5. inbox' \in Seq(Pdus) /\ Len(inbox') <= MaxInbox
    BY <1>1, <1>4 DEF MmeAnswers, TypeOK
  <1>6. pending' \in [Requests -> 0..MaxOutstanding]
    BY <1>1 DEF TypeOK
  <1>7. TypeOK'
    BY <1>5, <1>6 DEF MmeAnswers, TypeOK
  <1>8. CallShape' /\ LockInv' /\ SlotInv' /\ SuccessIsGenuine' /\ ConnInv' /\ ReaderInv'
    BY DEF MmeAnswers, CallShape, LockInv, SlotInv, SuccessIsGenuine, ConnInv, ReaderInv
  <1>9. TrafficInv' /\ OldCallInv'
    BY <1>2, <1>3 DEF MmeAnswers, TrafficInv, OldCallInv
  <1>10. QED
    BY <1>7, <1>8, <1>9 DEF IInv

\* An indication is no outcome.
LEMMA MmeIndicatesRestartKeeps ==
    ASSUME IInv, MmeIndicatesRestart
    PROVE  IInv'
  <1> USE ConstantsAssumption DEF IInv, senderVars
  <1>1. /\ inbox' = Append(inbox, [kind |-> "restart"]) /\ Len(inbox) < MaxInbox
        /\ mine \in Conns /\ link[mine] = "up"
    BY DEF MmeIndicatesRestart, TypeOK
  <1>2. [kind |-> "restart"] \in Pdus
    BY DEF Pdus
  <1>3. inbox \in Seq(Pdus) /\ inbox' \in Seq(Pdus) /\ Len(inbox') = Len(inbox) + 1
    BY <1>1, <1>2 DEF TypeOK
  <1>4. TypeOK'
    BY <1>1, <1>3 DEF MmeIndicatesRestart, TypeOK
  <1>5. CallShape' /\ LockInv' /\ SlotInv' /\ SuccessIsGenuine' /\ ConnInv' /\ ReaderInv'
    BY DEF MmeIndicatesRestart, CallShape, LockInv, SlotInv, SuccessIsGenuine, ConnInv, ReaderInv
  <1>6. \A i \in 1..Len(inbox') : (i \in 1..Len(inbox) /\ inbox'[i] = inbox[i])
                                  \/ inbox'[i] = [kind |-> "restart"]
    BY <1>1, <1>3
  <1>7. TrafficInv' /\ OldCallInv'
    BY <1>1, <1>6 DEF MmeIndicatesRestart, TrafficInv, OldCallInv, ConnInv
  <1>8. QED
    BY <1>4, <1>5, <1>7 DEF IInv

\* A dead link leaves nothing outstanding.
LEMMA LinkDiesKeeps ==
    ASSUME IInv, LinkDies
    PROVE  IInv'
  <1> USE ConstantsAssumption DEF IInv, senderVars
  <1>1. mine \in Conns /\ link' = [link EXCEPT ![mine] = "dead"] /\ pending' = NonePending
    BY DEF LinkDies, TypeOK
  <1>2. /\ inbox' \in {inbox, <<>>} /\ inbox' \in Seq(Pdus) /\ Len(inbox') <= MaxInbox
        /\ \A i \in 1..Len(inbox') : i \in 1..Len(inbox) /\ inbox'[i] = inbox[i]
    <2>1. CASE inbox' = inbox
      BY <2>1 DEF TypeOK
    <2>2. CASE inbox' = <<>>
      BY <2>2
    <2>3. QED
      BY <2>1, <2>2 DEF LinkDies
  <1>3. TypeOK'
    BY <1>1, <1>2 DEF LinkDies, TypeOK, NonePending
  <1>4. CallShape' /\ LockInv' /\ SlotInv' /\ SuccessIsGenuine' /\ ReaderInv'
    BY DEF LinkDies, CallShape, LockInv, SlotInv, SuccessIsGenuine, ReaderInv
  <1>5. ConnInv'
    BY <1>1 DEF LinkDies, ConnInv, TypeOK
  <1>6. TrafficInv' /\ OldCallInv'
    BY <1>1, <1>2 DEF LinkDies, TrafficInv, OldCallInv, NonePending
  <1>7. QED
    BY <1>3, <1>4, <1>5, <1>6 DEF IInv

-----------------------------------------------------------------------------

\* The inductive invariant holds throughout: every step of a sender, of
\* maintain, of the MME and of the network keeps it.
THEOREM Invariance == SafetySpec => []IInv
  <1>1. IInv /\ [Next]_vars => IInv'
    <2> SUFFICES ASSUME IInv, [Next]_vars PROVE IInv'
      OBVIOUS
    <2>1. ASSUME NEW s \in Senders, NEW r \in Requests, Call(s, r) PROVE IInv'
      BY <2>1, CallKeeps
    <2>2. ASSUME NEW s \in Senders, Begin(s) PROVE IInv'
      BY <2>2, BeginKeeps
    <2>3. ASSUME NEW s \in Senders, Advance(s) \/ Timeout(s) PROVE IInv'
      <3>1. CASE Register(s)
        BY <3>1, RegisterKeeps
      <3>2. CASE Write(s)
        BY <3>2, WriteKeeps
      <3>3. CASE WriteTimesOut(s)
        BY <3>3, WriteTimesOutKeeps
      <3>4. CASE WriteFails(s) \/ TakeResult(s) \/ TakeDone(s) \/ Timeout(s)
        BY <3>4, ReturnKeeps DEF WriteFails, TakeResult, TakeDone, Timeout, Posted
      <3>5. QED
        BY <2>3, <3>1, <3>2, <3>3, <3>4 DEF Advance
    <2>4. CASE Maintain
      BY <2>4, SleepKeeps, DialSucceedsKeeps, ReadOutcomeKeeps, ReadRestartKeeps,
         ReadErrorKeeps, PutResultKeeps, GiveUpKeeps DEF Maintain
    <2>5. CASE Mme
      BY <2>5, MmeAnswersKeeps, MmeIndicatesRestartKeeps, LinkDiesKeeps DEF Mme
    <2>6. CASE UNCHANGED vars
      BY <2>6 DEF vars, IInv, TypeOK, CallShape, LockInv, SlotInv, ConnInv, TrafficInv,
                  ReaderInv, OldCallInv, SuccessIsGenuine
    <2>7. QED
      BY <2>1, <2>2, <2>3, <2>4, <2>5, <2>6 DEF Next
  <1>2. QED
    BY InitIInv, <1>1, PTL DEF SafetySpec

\* Type correctness: in particular the reconnect delay stays between its bounds
\* and no answer is counted that the MME does not owe.
THEOREM TypeCorrect == SafetySpec => []TypeOK
  BY Invariance, PTL DEF IInv

\* The slot of deliverResponse always belongs to the caller inside sendAndAwait,
\* whichever of its return paths the callers before it took.
THEOREM SlotHasOwnerHolds == SafetySpec => []SlotHasOwner
  <1>1. IInv => SlotHasOwner
    BY ConstantsAssumption DEF IInv, LockInv, SlotInv, SlotHasOwner, Holding, Posted
  <1>2. QED
    BY <1>1, Invariance, PTL

\* sendAndAwait reports success only for an acceptance of the caller's own
\* request on the caller's own connection, whatever timeouts, late answers and
\* reconnects came before.
THEOREM SuccessIsGenuineHolds == SafetySpec => []SuccessIsGenuine
  BY Invariance, PTL DEF IInv

=============================================================================
