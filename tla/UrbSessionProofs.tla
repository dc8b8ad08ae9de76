-------------------------- MODULE UrbSessionProofs --------------------------
(***************************************************************************)
(* Proofs about UrbSession, for any number of URBs, unlinks and replies.   *)
(* The session is shown to use the handler as UrbHandler lets it be used;  *)
(* what UrbHandlerProofs proves of the handler then holds in the session,  *)
(* and the answers the client gets follow from it.                         *)
(***************************************************************************)
EXTENDS UrbSession, SequenceTheorems, TLAPS

HP == INSTANCE UrbHandlerProofs WITH Seqnums <- 1 .. MaxUrbs

----------------------------------------------------------------------------
(* The connection as a sequence.                                           *)

\* Reading the first reply in flight leaves the replies as they are.
LEMMA ReadMoves ==
  ASSUME NEW S, NEW a \in Seq(S), NEW t \in Seq(S), t # <<>>
  PROVE  Append(a, Head(t)) \o Tail(t) = a \o t
  <1> DEFINE b == Append(a, Head(t))
             u == Tail(t)
  <1>1. /\ Len(a) \in Nat /\ Len(t) \in Nat /\ Len(t) # 0
        /\ b \in Seq(S) /\ Len(b) = Len(a) + 1 /\ u \in Seq(S) /\ Len(u) = Len(t) - 1
        /\ Head(t) = t[1]
        /\ \A i \in 1 .. Len(a) : b[i] = a[i]
        /\ b[Len(a) + 1] = Head(t)
        /\ \A i \in 1 .. Len(t) - 1 : u[i] = t[i + 1]
    OBVIOUS
  <1> HIDE DEF b, u
  <1>2. /\ b \o u \in Seq(S) /\ a \o t \in Seq(S)
        /\ Len(b \o u) = Len(a) + Len(t) /\ Len(a \o t) = Len(a) + Len(t)
        /\ \A i \in 1 .. Len(a) + Len(t) :
             /\ (b \o u)[i] = IF i <= Len(b) THEN b[i] ELSE u[i - Len(b)]
             /\ (a \o t)[i] = IF i <= Len(a) THEN a[i] ELSE t[i - Len(a)]
    <2>1. /\ b \o u \in Seq(S) /\ Len(b \o u) = Len(b) + Len(u)
          /\ \A i \in 1 .. Len(b) + Len(u) :
               (b \o u)[i] = IF i <= Len(b) THEN b[i] ELSE u[i - Len(b)]
      BY <1>1, ConcatProperties
    <2>2. /\ a \o t \in Seq(S) /\ Len(a \o t) = Len(a) + Len(t)
          /\ \A i \in 1 .. Len(a) + Len(t) :
               (a \o t)[i] = IF i <= Len(a) THEN a[i] ELSE t[i - Len(a)]
      BY ConcatProperties
    <2>3. Len(b) + Len(u) = Len(a) + Len(t)
      BY <1>1
    <2> QED BY <2>1, <2>2, <2>3
  <1>3. ASSUME NEW i \in 1 .. Len(a) + Len(t) PROVE (b \o u)[i] = (a \o t)[i]
    <2>1. CASE i <= Len(a)
      <3>1. (a \o t)[i] = a[i] /\ (b \o u)[i] = b[i] /\ i \in 1 .. Len(a)
        BY <1>1, <1>2, <2>1
      <3> QED BY <1>1, <3>1
    <2>2. CASE i = Len(a) + 1
      <3>1. (a \o t)[i] = t[i - Len(a)] /\ (b \o u)[i] = b[i] /\ i - Len(a) = 1
        BY <1>1, <1>2, <2>2
      <3> QED BY <1>1, <2>2, <3>1
    <2>3. CASE i > Len(a) + 1
      <3>1. /\ (a \o t)[i] = t[i - Len(a)] /\ (b \o u)[i] = u[i - Len(b)]
            /\ i - Len(b) \in 1 .. Len(t) - 1 /\ i - Len(b) + 1 = i - Len(a)
        BY <1>1, <1>2, <2>3
      <3> QED BY <1>1, <3>1
    <2> QED BY <1>1, <2>1, <2>2, <2>3
  <1>4. b \o u = a \o t
    BY <1>1, <1>2, <1>3, SeqEqual
  <1> QED BY <1>4 DEF b, u

\* A reply that is sent comes after all others.
LEMMA SendAppends ==
  ASSUME NEW S, NEW a \in Seq(S), NEW t \in Seq(S), NEW r \in S
  PROVE  a \o Append(t, r) = Append(a \o t, r)
  BY AppendIsConcat, ConcatAssociative, ConcatProperties

----------------------------------------------------------------------------
(* The connection carries what the two ends put into it.                   *)

Command == [cmd : {"submit", "unlink"}, seq : 1 .. MaxUrbs]
Reply == [ret : {"submit"}, urb : 1 .. MaxUrbs, status : {"none", "ok", "EIO", "ECANCELED"}]
           \cup [ret : {"unlink"}, target : 0 .. MaxUrbs, status : {0}]

\* Every command names a URB the client has submitted.
CommandsOK == toServer \in Seq(Command) /\ sent \in 0 .. MaxUrbs

\* Commands are taken from the front and added at the back.
LEMMA CommandsStep == CommandsOK /\ [Next]_vars => CommandsOK'
  <1> SUFFICES ASSUME CommandsOK, [Next]_vars PROVE CommandsOK'
    OBVIOUS
  <1> USE SessionAssumption DEF CommandsOK
  <1>1. CASE UNCHANGED <<toServer, sent>>
    BY <1>1
  <1>2. CASE toServer # <<>> /\ toServer' = Tail(toServer) /\ UNCHANGED sent
    BY <1>2
  <1>3. CASE ClientSubmit
    <2>1. sent + 1 \in 1 .. MaxUrbs /\ sent' = sent + 1
      BY <1>3 DEF ClientSubmit
    <2>2. [cmd |-> "submit", seq |-> sent + 1] \in Command
      BY <2>1 DEF Command
    <2>3. toServer' \in Seq(Command)
      BY <1>3, <2>2 DEF ClientSubmit
    <2> QED BY <2>1, <2>3
  <1>4. ASSUME NEW s \in 1 .. MaxUrbs, ClientUnlink(s) PROVE CommandsOK'
    <2>1. [cmd |-> "unlink", seq |-> s] \in Command
      BY DEF Command
    <2> QED BY <1>4, <2>1 DEF ClientUnlink
  <1>5. CASE ClientGone
    <2>1. <<>> \in Seq(Command)
      OBVIOUS
    <2>2. toServer' \in {toServer, <<>>} /\ UNCHANGED sent
      BY <1>5 DEF ClientGone
    <2> QED BY <2>1, <2>2
  <1>6. CASE RecvSubmit \/ RecvSubmitFails \/ RecvUnlink
    BY <1>6, <1>2 DEF RecvSubmit, RecvSubmitFails, RecvUnlink
  <1>7. CASE \/ Attached \/ AttachFails \/ LoopTop \/ RecvError \/ DrainNext
             \/ DrainSend \/ DrainSendFails \/ DrainDone \/ SendUnlinkRet
             \/ Detach \/ DetachClose \/ HandlerCall \/ Worker
             \/ ClientRead \/ ShutdownSignal \/ Finished \/ UNCHANGED vars
    BY <1>7, <1>1 DEF Attached, AttachFails, LoopTop, RecvError, DrainNext,
       DrainSend, DrainSendFails, DrainDone, SendUnlinkRet, Detach, DetachClose,
       HandlerCall, Worker, ClientRead, ShutdownSignal, Finished,
       vars, ownVars, netVars
  <1> QED BY <1>3, <1>4, <1>5, <1>6, <1>7 DEF Next, SessionThread, Client

----------------------------------------------------------------------------
(* The session implements the handler's contract.                          *)

\* Each step of the session, the worker and the client is a step of the
\* handler or leaves it alone.
LEMMA ContractStep == CommandsOK /\ [Next]_vars => [H!Next]_(H!vars)
  <1> SUFFICES ASSUME CommandsOK, [Next]_vars PROVE [H!Next]_(H!vars)
    OBVIOUS
  <1>1. CASE UNCHANGED handlerVars
    BY <1>1 DEF handlerVars, H!vars, H!sessionVars, H!heap, H!flags,
       H!workerVars, H!queues
  <1>2. CASE H!SessionStep \/ H!WorkerStep \/ H!Finished
    BY <1>2 DEF H!Next
  <1>3. ASSUME toServer # <<>> PROVE Head(toServer).seq \in 1 .. MaxUrbs
    <2>1. Head(toServer) \in Command
      BY <1>3 DEF CommandsOK
    <2> QED BY <2>1 DEF Command
  <1>4. CASE RecvSubmit
    <2>1. H!urb_handler_submit(Head(toServer).seq) /\ toServer # <<>>
      BY <1>4 DEF RecvSubmit
    <2> QED BY <1>2, <1>3, <2>1 DEF H!SessionStep
  <1>5. CASE RecvUnlink
    <2>1. /\ toServer # <<>>
          /\ H!urb_handler_unlink(Head(toServer).seq) \/ UNCHANGED handlerVars
      BY <1>5 DEF RecvUnlink
    <2> QED BY <1>1, <1>2, <1>3, <2>1 DEF H!SessionStep
  <1>6. CASE \/ Attached \/ AttachFails \/ DrainNext \/ DrainSend \/ DrainSendFails
             \/ Detach \/ DetachClose \/ HandlerCall \/ Worker \/ Finished
    BY <1>6, <1>2 DEF Attached, AttachFails, DrainNext, DrainSend, DrainSendFails,
       Detach, DetachClose, HandlerCall, Worker, Finished, H!SessionStep
  <1>7. CASE \/ LoopTop \/ RecvSubmitFails \/ RecvError \/ DrainDone
             \/ SendUnlinkRet \/ ClientSubmit \/ ClientRead \/ ClientGone
             \/ (\E s \in 1 .. MaxUrbs : ClientUnlink(s))
             \/ ShutdownSignal \/ UNCHANGED vars
    BY <1>7, <1>1 DEF LoopTop, RecvSubmitFails, RecvError, DrainDone,
       SendUnlinkRet, ClientSubmit, ClientRead, ClientGone, ClientUnlink,
       ShutdownSignal, vars
  <1> QED BY <1>4, <1>5, <1>6, <1>7 DEF Next, SessionThread, Client

\* What the client has sent names its URBs, in every state.
LEMMA CommandsCorrect == Spec => []CommandsOK
  <1>1. Init => CommandsOK
    BY SessionAssumption DEF Init, CommandsOK
  <1> QED BY <1>1, CommandsStep, PTL DEF Spec

\* The session keeps to the order of calls the handler requires, whatever the
\* client sends and whenever it goes: the composed system implements UrbHandler.
THEOREM SessionKeepsContract == Spec => HandlerContract
  <1>1. Init => H!Init
    BY DEF Init
  <1> QED BY <1>1, ContractStep, CommandsCorrect, PTL DEF Spec, HandlerContract, H!Spec

\* UrbHandler as the proofs about it see it is UrbHandler as the session sees it.
LEMMA SameHandler ==
  /\ H!Init => HP!Init
  /\ [H!Next]_(H!vars) => [HP!Next]_(HP!vars)
  <1>1. H!Init => HP!Init
    BY Zenon DEF H!Init, HP!Init, H!urb_handler_init, HP!urb_handler_init, H!Urbs, HP!Urbs
  <1>2. [H!Next]_(H!vars) => [HP!Next]_(HP!vars)
    BY Zenon DEF
       H!Next, H!SessionStep, H!WorkerStep, H!Finished,
       H!urb_handler_start, H!StartFails, H!urb_handler_submit,
       H!urb_handler_unlink, H!SubmitSignal, H!UnlinkRequeue,
       H!urb_handler_get_completed, H!urb_handler_free_entry,
       H!urb_handler_stop, H!StopSignal, H!StopJoin,
       H!urb_handler_cancel_all, H!CancelDone, H!urb_handler_cleanup,
       H!WorkerTest, H!WorkerPop, H!WorkerPark, H!WorkerWake,
       H!WorkerTimeout, H!WorkerWaitFailed, H!WorkerExecute,
       H!WorkerPush, H!vars, H!heap, H!flags, H!queues, H!sessionVars,
       H!workerVars, H!Gone, H!queue_push, H!RemoveAt, H!FirstMatch,
       H!event_signal, H!Elems, HP!Next, HP!SessionStep,
       HP!WorkerStep, HP!Finished, HP!urb_handler_start,
       HP!StartFails, HP!urb_handler_submit, HP!urb_handler_unlink,
       HP!SubmitSignal, HP!UnlinkRequeue,
       HP!urb_handler_get_completed, HP!urb_handler_free_entry,
       HP!urb_handler_stop, HP!StopSignal, HP!StopJoin,
       HP!urb_handler_cancel_all, HP!CancelDone,
       HP!urb_handler_cleanup, HP!WorkerTest, HP!WorkerPop,
       HP!WorkerPark, HP!WorkerWake, HP!WorkerTimeout,
       HP!WorkerWaitFailed, HP!WorkerExecute, HP!WorkerPush, HP!vars,
       HP!heap, HP!flags, HP!queues, HP!sessionVars, HP!workerVars,
       HP!Gone, HP!queue_push, HP!RemoveAt, HP!FirstMatch,
       HP!event_signal, HP!Elems
  <1> QED BY <1>1, <1>2

\* So all that is proved of the handler holds in a session.
THEOREM HandlerInSession == Spec => []HP!HandlerInv
  <1>1. HP!UrbAssumption
    BY SessionAssumption DEF HP!UrbAssumption
  <1>2. H!Spec => HP!Spec
    BY SameHandler, PTL DEF H!Spec, HP!Spec
  <1>3. HP!Spec => []HP!HandlerInv
    BY <1>1, HP!HandlerCorrect, PTL
  <1> QED BY <1>2, <1>3, SessionKeepsContract, PTL DEF HandlerContract

----------------------------------------------------------------------------
(* The device.                                                             *)

\* The device is closed in the step that ends the session, after the handler.
OpenInv ==
  /\ is_open <=> session # "closed"
  /\ session = "closed" => caller = "done"

\* No step but the last one of client_detach_device closes the device, and no
\* call of the handler follows it.
LEMMA OpenStep == OpenInv /\ [Next]_vars => OpenInv'
  <1> SUFFICES ASSUME OpenInv, [Next]_vars PROVE OpenInv'
    OBVIOUS
  <1> USE DEF OpenInv, Goto
  <1>1. CASE UNCHANGED <<session, is_open>> /\ (session # "closed" \/ UNCHANGED caller)
    BY <1>1
  <1>2. CASE \/ Attached \/ AttachFails \/ LoopTop \/ RecvSubmit \/ RecvSubmitFails
             \/ RecvError \/ DrainSendFails \/ DrainDone \/ RecvUnlink \/ SendUnlinkRet
    BY <1>2 DEF Attached, AttachFails, LoopTop, RecvSubmit, RecvSubmitFails,
       RecvError, DrainSendFails, DrainDone, RecvUnlink, SendUnlinkRet
  <1>3. CASE DrainNext \/ DrainSend \/ Detach
    BY <1>3, <1>1 DEF DrainNext, DrainSend, Detach, ownVars
  <1>4. CASE DetachClose
    BY <1>4 DEF DetachClose, H!urb_handler_cleanup
  <1>5. CASE HandlerCall
    <2>1. caller # "done" /\ UNCHANGED <<session, is_open>>
      BY <1>5 DEF HandlerCall, ownVars, H!SubmitSignal, H!UnlinkRequeue, H!StopSignal,
         H!StopJoin, H!urb_handler_cancel_all, H!CancelDone
    <2> QED BY <2>1, <1>1
  <1>6. CASE Worker
    BY <1>6, <1>1 DEF Worker, ownVars, H!WorkerStep, H!WorkerTest, H!WorkerPop,
       H!WorkerPark, H!WorkerWake, H!WorkerTimeout, H!WorkerWaitFailed,
       H!WorkerExecute, H!WorkerPush, H!sessionVars
  <1>7. CASE \/ ClientSubmit \/ ClientRead \/ ClientGone \/ ShutdownSignal
             \/ (\E s \in 1 .. MaxUrbs : ClientUnlink(s)) \/ Finished \/ UNCHANGED vars
    BY <1>7, <1>1 DEF ClientSubmit, ClientRead, ClientGone, ClientUnlink,
       ShutdownSignal, Finished, H!Finished, H!vars, H!sessionVars, vars,
       ownVars, handlerVars
  <1> QED BY <1>2, <1>3, <1>4, <1>5, <1>6, <1>7 DEF Next, SessionThread, Client

\* A transfer never runs on a device the session has closed.
THEOREM OpenWhileUsed == Spec => []DeviceOpenWhileUsed
  <1>1. Init => OpenInv
    BY DEF Init, OpenInv
  <1>2. OpenInv /\ HP!HandlerInv => DeviceOpenWhileUsed
    BY DEF OpenInv, DeviceOpenWhileUsed, HP!HandlerInv, HP!ControlInv, HP!Control, HP!Gone
  <1> QED BY <1>1, <1>2, OpenStep, HandlerInSession, PTL DEF Spec

----------------------------------------------------------------------------
(* The answers.                                                            *)

RepliesOK ==
  /\ answers \in Seq(Reply) /\ toClient \in Seq(Reply)
  /\ target \in 0 .. MaxUrbs

\* The three things a step can do to the replies: nothing, add the answer to an
\* unlink, or add the answer for the entry being delivered, which is then freed.
LEMMA RepliesStep ==
  ASSUME HP!HandlerInv, CommandsOK, RepliesOK, [Next]_vars
  PROVE  /\ RepliesOK'
         /\ \/ Replies' = Replies
            \/ \E s \in 0 .. MaxUrbs : Replies' = Append(Replies, RetUnlink(s))
            \/ /\ Replies' = Append(Replies, RetSubmit(moving))
               /\ H!urb_handler_free_entry
  <1> DEFINE Goal == /\ RepliesOK'
                     /\ \/ Replies' = Replies
                        \/ \E s \in 0 .. MaxUrbs : Replies' = Append(Replies, RetUnlink(s))
                        \/ /\ Replies' = Append(Replies, RetSubmit(moving))
                           /\ H!urb_handler_free_entry
  <1> USE SessionAssumption
  <1>1. CASE UNCHANGED <<answers, toClient, target>>
    BY <1>1 DEF RepliesOK, Replies
  <1>2. ASSUME NEW r \in Reply, toClient' = Append(toClient, r), UNCHANGED answers
        PROVE  /\ answers' \in Seq(Reply) /\ toClient' \in Seq(Reply)
               /\ Replies' = Append(Replies, r)
    <2>1. answers \in Seq(Reply) /\ toClient \in Seq(Reply)
      BY DEF RepliesOK
    <2>2. toClient' \in Seq(Reply) /\ answers' \in Seq(Reply)
      BY <1>2, <2>1
    <2>3. answers \o Append(toClient, r) = Append(answers \o toClient, r)
      BY <2>1, SendAppends
    <2> QED BY <1>2, <2>2, <2>3 DEF Replies
  <1>3. CASE DrainSend
    <2>1. /\ caller = "deliver" /\ toClient' = Append(toClient, RetSubmit(moving))
          /\ UNCHANGED <<answers, target>> /\ H!urb_handler_free_entry
      BY <1>3 DEF DrainSend
    <2>2. moving \in 1 .. MaxUrbs
      BY <2>1, HP!DeliverFacts DEF HP!Urbs
    <2>3. status[moving] \in {"none", "ok", "EIO", "ECANCELED"}
      BY <2>2 DEF HP!HandlerInv, HP!ControlInv, HP!TypeOK, HP!Urbs
    <2>4. RetSubmit(moving) \in Reply
      BY <2>2, <2>3 DEF RetSubmit, Reply
    <2>5. target' \in 0 .. MaxUrbs
      BY <2>1 DEF RepliesOK
    <2> QED BY <1>2, <2>1, <2>4, <2>5 DEF RepliesOK
  <1>4. CASE SendUnlinkRet
    <2>1. target \in 0 .. MaxUrbs /\ target' \in 0 .. MaxUrbs /\ UNCHANGED answers
      BY <1>4 DEF SendUnlinkRet, RepliesOK
    <2>2. CASE UNCHANGED toClient
      BY <2>1, <2>2 DEF RepliesOK, Replies
    <2>3. CASE toClient' = Append(toClient, RetUnlink(target))
      <3>1. RetUnlink(target) \in Reply
        BY <2>1 DEF RetUnlink, Reply
      <3> QED BY <1>2, <2>1, <2>3, <3>1 DEF RepliesOK
    <2> QED BY <1>4, <2>2, <2>3 DEF SendUnlinkRet
  <1>5. CASE RecvUnlink
    <2>1. toServer # <<>> /\ target' = Head(toServer).seq /\ UNCHANGED <<answers, toClient>>
      BY <1>5 DEF RecvUnlink
    <2>2. Head(toServer) \in Command
      BY <2>1 DEF CommandsOK
    <2>3. target' \in 0 .. MaxUrbs
      BY <2>1, <2>2 DEF Command
    <2> QED BY <2>1, <2>3 DEF RepliesOK, Replies
  <1>6. CASE ClientRead
    <2>1. /\ toClient # <<>> /\ answers' = Append(answers, Head(toClient))
          /\ toClient' = Tail(toClient) /\ UNCHANGED target
      BY <1>6 DEF ClientRead
    <2>2. answers \in Seq(Reply) /\ toClient \in Seq(Reply)
      BY DEF RepliesOK
    <2>3. answers' \in Seq(Reply) /\ toClient' \in Seq(Reply)
      BY <2>1, <2>2
    <2>4. Append(answers, Head(toClient)) \o Tail(toClient) = answers \o toClient
      BY <2>1, <2>2, ReadMoves
    <2> QED BY <2>1, <2>3, <2>4 DEF RepliesOK, Replies
  <1>7. CASE \/ Attached \/ AttachFails \/ LoopTop \/ RecvSubmit \/ RecvSubmitFails
             \/ RecvError \/ DrainNext \/ DrainSendFails \/ DrainDone \/ Detach
             \/ DetachClose \/ HandlerCall \/ Worker \/ ClientSubmit \/ ClientGone
             \/ (\E s \in 1 .. MaxUrbs : ClientUnlink(s))
             \/ ShutdownSignal \/ Finished \/ UNCHANGED vars
    BY <1>7, <1>1 DEF Attached, AttachFails, LoopTop, RecvSubmit, RecvSubmitFails,
       RecvError, DrainNext, DrainSendFails, DrainDone, Detach, DetachClose,
       HandlerCall, Worker, ClientSubmit, ClientGone, ClientUnlink,
       ShutdownSignal, Finished, vars, ownVars, netVars
  <1> QED BY <1>3, <1>4, <1>5, <1>6, <1>7 DEF Next, SessionThread, Client

\* An answered URB has been freed, its answer says what its status says, and
\* if it was executed, those that are executed and still on their way out were
\* submitted later.
Settled(r) ==
  /\ r.urb \in freed /\ r.status = status[r.urb]
  /\ r.urb \in executed => \A e \in HP!Outgoing : e \in executed => r.urb < e

\* The order of two answers.
InOrder(q, r) ==
  /\ q.urb # r.urb
  /\ q.urb \in executed /\ r.urb \in executed => q.urb < r.urb

AnswersInv ==
  /\ \A i \in DOMAIN Replies : IsRetSubmit(Replies[i]) => Settled(Replies[i])
  /\ \A i, j \in DOMAIN Replies :
       i < j /\ IsRetSubmit(Replies[i]) /\ IsRetSubmit(Replies[j])
         => InOrder(Replies[i], Replies[j])

\* An answer that has been given stays right whatever the two threads do.
LEMMA SettledStays ==
  ASSUME HP!HandlerInv, [HP!Next]_(HP!vars), NEW r, Settled(r)
  PROVE  Settled(r)'
  <1>a. HP!UrbAssumption
    BY SessionAssumption DEF HP!UrbAssumption
  <1>1. /\ r.urb \in freed /\ r.status = status[r.urb]
        /\ r.urb \in executed => \A e \in HP!Outgoing : e \in executed => r.urb < e
    BY DEF Settled
  <1>2. /\ r.urb \in HP!Urbs /\ r.urb \notin HP!Outgoing \cup HP!InHand(current)
        /\ status[r.urb] # "none"
        /\ r.urb \in executed /\ current # 0 => r.urb < current
    BY <1>1, <1>a, HP!FreedFacts
  <1>3. /\ freed \subseteq freed'
        /\ executed' \subseteq executed \cup HP!InHand(current)
        /\ \A e \in HP!Outgoing' : e \in executed' => e \in HP!Outgoing \cup HP!InHand(current)
    BY <1>a, HP!OutgoingStep
  <1>4. status'[r.urb] = status[r.urb]
    BY <1>a, <1>2, HP!DecidedStays DEF HP!HandlerInv
  <1>5. ASSUME r.urb \in executed', NEW e \in HP!Outgoing', e \in executed'
        PROVE  r.urb < e
    <2>1. r.urb \in executed
      BY <1>2, <1>3, <1>5
    <2>2. CASE e \in HP!InHand(current)
      BY <1>2, <2>1, <2>2 DEF HP!InHand
    <2>3. CASE e \in HP!Outgoing /\ e \notin HP!InHand(current)
      BY <1>1, <1>3, <1>5, <2>1, <2>3
    <2> QED BY <1>3, <1>5, <2>2, <2>3
  <1> QED BY <1>1, <1>3, <1>4, <1>5 DEF Settled

\* The answer for the entry being delivered is right when it is sent.
LEMMA DeliverySettled ==
  ASSUME HP!HandlerInv, H!urb_handler_free_entry, NEW r, r = RetSubmit(moving)
  PROVE  Settled(r)'
  <1>a. HP!UrbAssumption
    BY SessionAssumption DEF HP!UrbAssumption
  <1>1. /\ caller = "deliver" /\ caller' = "idle" /\ freed' = freed \cup {moving}
        /\ UNCHANGED <<status, executed, completed>>
    BY DEF H!urb_handler_free_entry, H!workerVars, H!queues
  <1>2. \A e \in HP!Elems(completed) :
          moving \in executed /\ e \in executed => moving < e
    BY <1>a, <1>1, HP!DeliverFacts
  <1>3. HP!Outgoing' = HP!Elems(completed)
    BY <1>1 DEF HP!Outgoing, HP!Elems
  <1>4. r.urb = moving /\ r.status = status[moving]
    BY DEF RetSubmit
  <1> QED BY <1>1, <1>2, <1>3, <1>4 DEF Settled

\* Two answers stay in their order: what is executed later is in the worker's
\* hand and not answered yet.
LEMMA OrderStays ==
  ASSUME HP!HandlerInv, [HP!Next]_(HP!vars), NEW q, NEW r,
         Settled(q), Settled(r), InOrder(q, r)
  PROVE  InOrder(q, r)'
  <1>a. HP!UrbAssumption
    BY SessionAssumption DEF HP!UrbAssumption
  <1>1. executed' \subseteq executed \cup HP!InHand(current)
    BY <1>a, HP!OutgoingStep
  <1>2. q.urb \notin HP!InHand(current) /\ r.urb \notin HP!InHand(current)
    BY <1>a, HP!FreedFacts DEF Settled
  <1> QED BY <1>1, <1>2 DEF InOrder

\* A new answer comes after the ones that were given.
LEMMA DeliveryInOrder ==
  ASSUME HP!HandlerInv, H!urb_handler_free_entry, NEW q, Settled(q),
         NEW r, r = RetSubmit(moving)
  PROVE  InOrder(q, r)'
  <1>a. HP!UrbAssumption
    BY SessionAssumption DEF HP!UrbAssumption
  <1>1. caller = "deliver" /\ UNCHANGED executed
    BY DEF H!urb_handler_free_entry, H!workerVars
  <1>2. moving \notin freed
    BY <1>a, <1>1, HP!DeliverFacts
  <1>3. moving \in HP!Outgoing
    BY <1>1 DEF HP!Outgoing
  <1>4. r.urb = moving
    BY DEF RetSubmit
  <1> QED BY <1>1, <1>2, <1>3, <1>4 DEF InOrder, Settled

\* No step spoils the answers.
LEMMA AnswersStep ==
  ASSUME HP!HandlerInv, CommandsOK, RepliesOK, AnswersInv, [Next]_vars
  PROVE  AnswersInv'
  <1> DEFINE R == Replies
             R2 == Replies'
  <1>1. [HP!Next]_(HP!vars)
    BY ContractStep, SameHandler
  <1>2. R \in Seq(Reply)
    BY ConcatProperties DEF RepliesOK, Replies
  <1>3. DOMAIN R = 1 .. Len(R) /\ Len(R) \in Nat
    BY <1>2
  <1> USE DEF IsRetSubmit
  <1>4. ASSUME NEW i \in DOMAIN R, R[i].ret = "submit", NEW r, r = R[i]
        PROVE  Settled(r) /\ Settled(r)'
    BY <1>1, <1>4, SettledStays DEF AnswersInv
  <1>5. ASSUME NEW i \in DOMAIN R, NEW j \in DOMAIN R, i < j, NEW q, q = R[i], NEW r, r = R[j],
               q.ret = "submit", r.ret = "submit"
        PROVE  InOrder(q, r)'
    <2>1. InOrder(q, r) /\ Settled(q) /\ Settled(r)
      BY <1>5 DEF AnswersInv
    <2> QED BY <1>1, <2>1, OrderStays
  \* An answer to a submit is an old one or the one for the entry in hand.
  <1>6. \A i \in DOMAIN R2 : R2[i].ret = "submit" =>
          \/ i \in DOMAIN R /\ R2[i] = R[i]
          \/ /\ i = Len(R) + 1 /\ R2[i] = RetSubmit(moving)
             /\ H!urb_handler_free_entry
    <2>1. CASE R2 = R
      BY <2>1
    <2>2. ASSUME NEW r, R2 = Append(R, r)
          PROVE  \A i \in DOMAIN R2 : \/ i \in DOMAIN R /\ R2[i] = R[i]
                                      \/ i = Len(R) + 1 /\ R2[i] = r
      <3> HIDE DEF R, R2
      <3> QED BY <1>2, <1>3, <2>2
    <2>3. ASSUME NEW s \in 0 .. MaxUrbs, R2 = Append(R, RetUnlink(s))
          PROVE  \A i \in DOMAIN R2 : R2[i].ret = "submit" => i \in DOMAIN R /\ R2[i] = R[i]
      <3>1. RetUnlink(s).ret # "submit"
        BY DEF RetUnlink
      <3> HIDE DEF R, R2
      <3> QED BY <2>2, <2>3, <3>1
    <2>4. ASSUME R2 = Append(R, RetSubmit(moving)), H!urb_handler_free_entry
          PROVE  \A i \in DOMAIN R2 : \/ i \in DOMAIN R /\ R2[i] = R[i]
                                      \/ i = Len(R) + 1 /\ R2[i] = RetSubmit(moving)
      <3> PICK r : r = RetSubmit(moving)
        OBVIOUS
      <3> HIDE DEF R, R2
      <3> QED BY <2>2, <2>4
    <2>5. \/ R2 = R
          \/ \E s \in 0 .. MaxUrbs : R2 = Append(R, RetUnlink(s))
          \/ R2 = Append(R, RetSubmit(moving)) /\ H!urb_handler_free_entry
      BY RepliesStep
    <2> HIDE DEF R, R2
    <2> QED BY <2>1, <2>3, <2>4, <2>5
  <1>7. ASSUME NEW i \in DOMAIN R2, NEW r, r = R2[i], r.ret = "submit"
        PROVE  Settled(r)'
    <2>1. CASE i \in DOMAIN R /\ R2[i] = R[i]
      BY <1>4, <1>7, <2>1
    <2>2. CASE R2[i] = RetSubmit(moving) /\ H!urb_handler_free_entry
      BY <1>7, <2>2, DeliverySettled
    <2> QED BY <1>6, <1>7, <2>1, <2>2
  <1>8. ASSUME NEW i \in DOMAIN R2, NEW j \in DOMAIN R2, i < j,
               NEW q, q = R2[i], NEW r, r = R2[j],
               q.ret = "submit", r.ret = "submit"
        PROVE  InOrder(q, r)'
    <2>1. i \in DOMAIN R /\ R2[i] = R[i]
      <3>1. j <= Len(R) + 1 /\ i # Len(R) + 1
        BY <1>3, <1>6, <1>8
      <3> QED BY <1>6, <1>8, <3>1
    <2>2. CASE j \in DOMAIN R /\ R2[j] = R[j]
      BY <1>5, <1>8, <2>1, <2>2
    <2>3. CASE R2[j] = RetSubmit(moving) /\ H!urb_handler_free_entry
      <3>1. Settled(q)
        BY <1>4, <1>8, <2>1
      <3> QED BY <1>8, <2>3, <3>1, DeliveryInOrder
    <2> QED BY <1>6, <1>8, <2>2, <2>3
  <1>9. \A i \in DOMAIN R2 : R2[i].ret = "submit" => Settled(Replies[i])'
    BY <1>7 DEF Settled
  <1>10. \A i, j \in DOMAIN R2 : i < j /\ R2[i].ret = "submit" /\ R2[j].ret = "submit"
           => InOrder(Replies[i], Replies[j])'
    BY <1>8 DEF InOrder
  <1> QED BY <1>9, <1>10 DEF AnswersInv

\* The client never gets two answers for one URB, "cancelled" exactly for the
\* URBs that never ran, and the ones that ran in the order of submission.
THEOREM AnswersAreSound == Spec => []AnswersSound
  <1>1. Init => RepliesOK /\ AnswersInv
    <2> SUFFICES ASSUME Init PROVE RepliesOK /\ AnswersInv
      OBVIOUS
    <2>1. answers = <<>> /\ toClient = <<>> /\ target = 0
      BY DEF Init
    <2>2. Replies = <<>>
      BY <2>1 DEF Replies
    <2> QED BY <2>1, <2>2, SessionAssumption DEF RepliesOK, AnswersInv
  <1>2. HP!HandlerInv /\ CommandsOK /\ RepliesOK /\ AnswersInv /\ [Next]_vars
          => RepliesOK' /\ AnswersInv'
    BY RepliesStep, AnswersStep
  <1>3. HP!HandlerInv /\ AnswersInv => AnswersSound
    <2> SUFFICES ASSUME HP!HandlerInv, AnswersInv PROVE AnswersSound
      OBVIOUS
    <2>1. HP!UrbAssumption
      BY SessionAssumption DEF HP!UrbAssumption
    <2>2. ASSUME NEW i \in DOMAIN Replies, IsRetSubmit(Replies[i])
          PROVE  Replies[i].status = "ECANCELED" <=> Replies[i].urb \notin executed
      <3>1. Replies[i].urb \in freed /\ Replies[i].status = status[Replies[i].urb]
        BY <2>2 DEF AnswersInv, Settled
      <3> QED BY <2>1, <3>1, HP!FreedFacts
    <2> QED BY <2>2 DEF AnswersSound, AnswersInv, InOrder
  <1> QED BY <1>1, <1>2, <1>3, HandlerInSession, CommandsCorrect, PTL DEF Spec
=============================================================================
