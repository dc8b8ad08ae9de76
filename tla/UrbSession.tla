----------------------------- MODULE UrbSession -----------------------------
(***************************************************************************)
(* One attached session of the CLI server: the second half of              *)
(* handle_client_session (server/main.c) with the URB handler it drives,   *)
(* the TCP connection to the client, and client_detach_device              *)
(* (server/client_manager.c) when the session ends.                        *)
(*                                                                         *)
(* The remote client is the VHCI driver, outside the repository: it sends  *)
(* CMD_SUBMIT and CMD_UNLINK messages as it likes, reads what it is sent,  *)
(* and may drop the connection at any moment.  The connection delivers in  *)
(* order; once the client is gone a receive or a send may fail.            *)
(***************************************************************************)
EXTENDS Integers, Sequences

CONSTANTS MaxUrbs, WaitMayFail,            \* as in UrbHandler
          MaxUnlinks,                      \* bound: CMD_UNLINKs of a behaviour
          AllocMayFail                     \* whether calloc and malloc may fail

ASSUME SessionAssumption ==
  /\ MaxUrbs \in Nat /\ WaitMayFail \in BOOLEAN
  /\ MaxUnlinks \in Nat /\ AllocMayFail \in BOOLEAN

VARIABLES created, seqnum, status, pending, completed, freed, running,
          initialized, signalled, worker, current, caller, moving, executed,
          late                             \* as in UrbHandler
VARIABLES
  session,       \* where handle_client_session is
  target,        \* seqnum_to_unlink of the CMD_UNLINK being handled, else 0
  server_running,\* g_server.running
  is_open,       \* device->is_open
  toServer,      \* bytes in flight from the client, as commands
  toClient,      \* bytes in flight to the client, as replies
  peer,          \* "up", or "gone" once the client has dropped the connection
  sent,          \* number of CMD_SUBMITs the client has sent
  unlinks,       \* number of CMD_UNLINKs the client has sent
  answers        \* replies the client has read, in order

H == INSTANCE UrbHandler WITH Seqnums <- 1 .. MaxUrbs

handlerVars == <<created, seqnum, status, pending, completed, freed, running,
                 initialized, signalled, worker, current, caller, moving,
                 executed, late>>
netVars == <<toServer, toClient, peer, sent, unlinks, answers>>
ownVars == <<session, target, server_running, is_open, netVars>>
vars == <<handlerVars, ownVars>>

\* Mutation: the status of the URB is not copied into the reply.
RetSubmitOk(e) == [ret |-> "submit", urb |-> e, status |-> "ok"]

RetSubmit(e) == [ret |-> "submit", urb |-> e, status |-> status[e]]
RetUnlink(s) == [ret |-> "unlink", target |-> s, status |-> 0]

\* client_attach_device has opened the device and initialised the handler.
Init ==
  /\ H!Init
  /\ session = "attach" /\ target = 0 /\ server_running = TRUE /\ is_open = TRUE
  /\ toServer = <<>> /\ toClient = <<>> /\ peer = "up"
  /\ sent = 0 /\ unlinks = 0 /\ answers = <<>>

----------------------------------------------------------------------------
(* The client and the connection.                                          *)

\* The driver numbers its requests: the n-th CMD_SUBMIT has seqnum n.
ClientSubmit ==
  /\ peer = "up" /\ sent < MaxUrbs
  /\ toServer' = Append(toServer, [cmd |-> "submit", seq |-> sent + 1])
  /\ sent' = sent + 1
  /\ UNCHANGED <<handlerVars, session, target, server_running, is_open,
                 toClient, peer, unlinks, answers>>

ClientUnlink(s) ==
  /\ peer = "up" /\ unlinks < MaxUnlinks
  /\ s <= sent
  /\ toServer' = Append(toServer, [cmd |-> "unlink", seq |-> s])
  /\ unlinks' = unlinks + 1
  /\ UNCHANGED <<handlerVars, session, target, server_running, is_open,
                 toClient, peer, sent, answers>>

ClientRead ==
  /\ peer = "up" /\ toClient # <<>>
  /\ answers' = Append(answers, Head(toClient))
  /\ toClient' = Tail(toClient)
  /\ UNCHANGED <<handlerVars, session, target, server_running, is_open,
                 toServer, peer, sent, unlinks>>

\* The client process or its network dies; a reset may discard what was
\* still in flight to the server.
ClientGone ==
  /\ peer = "up" /\ peer' = "gone"
  /\ toServer' \in {toServer, <<>>}
  /\ UNCHANGED <<handlerVars, session, target, server_running, is_open,
                 toClient, sent, unlinks, answers>>

\* signal_handler
ShutdownSignal ==
  /\ server_running /\ server_running' = FALSE
  /\ UNCHANGED <<handlerVars, session, target, is_open, netVars>>

----------------------------------------------------------------------------
(* The session thread.                                                     *)

Goto(from, to) == session = from /\ session' = to

\* The end of client_attach_device; when the worker thread cannot be created
\* the handler is cleaned up, the device closed and the import refused.
Attached ==
  /\ Goto("attach", "top") /\ H!urb_handler_start
  /\ UNCHANGED <<target, server_running, is_open, netVars>>

AttachFails ==
  /\ Goto("attach", "detach") /\ H!StartFails
  /\ UNCHANGED <<target, server_running, is_open, netVars>>

\* while (g_server.running && ...).  A header with neither of the two commands
\* a driver sends is skipped and brings the thread back here.
LoopTop ==
  /\ session = "top"
  /\ session' = IF server_running THEN "recv" ELSE "detach"
  /\ UNCHANGED <<handlerVars, target, server_running, is_open, netVars>>

\* CMD_SUBMIT: the OUT data has been read, the URB is queued.
RecvSubmit ==
  /\ Goto("recv", "drain")
  /\ toServer # <<>> /\ Head(toServer).cmd = "submit"
  /\ H!urb_handler_submit(Head(toServer).seq)
  /\ toServer' = Tail(toServer)
  /\ UNCHANGED <<target, server_running, is_open, toClient, peer, sent,
                 unlinks, answers>>

\* urb_handler_submit returned ERR_OUT_OF_MEMORY: a warning, nothing else.
RecvSubmitFails ==
  /\ AllocMayFail
  /\ Goto("recv", "drain")
  /\ toServer # <<>> /\ Head(toServer).cmd = "submit"
  /\ toServer' = Tail(toServer)
  /\ UNCHANGED <<handlerVars, target, server_running, is_open, toClient, peer,
                 sent, unlinks, answers>>

\* Mutation: a failed receive is retried while the server runs.
RecvErrorRetried ==
  /\ Goto("recv", "top")
  /\ peer = "gone"
  /\ UNCHANGED <<handlerVars, target, server_running, is_open, netVars>>

\* usbip_recv_urb_header or usbip_recv_urb_data fails, or the OUT buffer
\* cannot be allocated: break.
RecvError ==
  /\ Goto("recv", "detach")
  /\ \/ peer = "gone"
     \/ AllocMayFail /\ toServer # <<>> /\ Head(toServer).cmd = "submit"
  /\ UNCHANGED <<handlerVars, target, server_running, is_open, netVars>>

\* while ((completed = urb_handler_get_completed(...)) != NULL)
DrainNext ==
  /\ session = "drain" /\ H!urb_handler_get_completed
  /\ UNCHANGED ownVars

\* client_send_urb_completion, then urb_handler_free_entry.
DrainSend ==
  /\ session = "drain" /\ caller = "deliver"
  /\ toClient' = Append(toClient, RetSubmit(moving))
  /\ H!urb_handler_free_entry
  /\ UNCHANGED <<target, session, server_running, is_open, toServer, peer,
                 sent, unlinks, answers>>

\* The send failed: the entry is freed all the same and the loop is left.
DrainSendFails ==
  /\ Goto("drain", "top") /\ peer = "gone"
  /\ H!urb_handler_free_entry
  /\ UNCHANGED <<target, server_running, is_open, netVars>>

DrainDone ==
  /\ Goto("drain", "top")
  /\ caller = "idle" /\ completed = <<>>
  /\ UNCHANGED <<handlerVars, target, server_running, is_open, netVars>>

\* CMD_UNLINK: urb_handler_unlink, whose result is not looked at...
RecvUnlink ==
  /\ Goto("recv", "unlinked")
  /\ toServer # <<>> /\ Head(toServer).cmd = "unlink"
  /\ LET s == Head(toServer).seq
     IN \/ H!urb_handler_unlink(s)
        \/ /\ \A i \in DOMAIN pending : seqnum[pending[i]] # s
           /\ UNCHANGED handlerVars
  /\ target' = Head(toServer).seq
  /\ toServer' = Tail(toServer)
  /\ UNCHANGED <<server_running, is_open, toClient, peer, sent, unlinks,
                 answers>>

\* ...and RET_UNLINK with status 0, whose sending is not checked either.
SendUnlinkRet ==
  /\ Goto("unlinked", "top") /\ caller = "idle"
  /\ \/ toClient' = Append(toClient, RetUnlink(target))
     \/ peer = "gone" /\ UNCHANGED toClient
  /\ target' = 0
  /\ UNCHANGED <<handlerVars, server_running, is_open, toServer, peer, sent,
                 unlinks, answers>>

\* Mutation: the device is closed before the handler is stopped.
DetachClosesFirst ==
  /\ session = "detach" /\ H!urb_handler_stop
  /\ is_open' = FALSE
  /\ UNCHANGED <<target, session, server_running, netVars>>

\* Mutation: the handler is torn down without urb_handler_stop.
DetachWithoutStop ==
  /\ session = "detach" /\ caller = "idle" /\ caller' = "stopped"
  /\ UNCHANGED <<created, seqnum, freed, running, initialized, pending,
                 completed, worker, current, executed, late, status, signalled,
                 moving, ownVars>>

\* client_detach_device: urb_handler_stop...
Detach ==
  /\ session = "detach" /\ H!urb_handler_stop
  /\ UNCHANGED ownVars

\* ...urb_handler_cleanup, usb_release_interface and usb_close_device.
DetachClose ==
  /\ Goto("detach", "closed") /\ H!urb_handler_cleanup
  /\ is_open' = FALSE
  /\ UNCHANGED <<target, server_running, netVars>>

\* What the thread does inside a call of the handler.
HandlerCall ==
  /\ \/ H!SubmitSignal \/ H!UnlinkRequeue \/ H!StopSignal \/ H!StopJoin
     \/ H!urb_handler_cancel_all \/ H!CancelDone
  /\ UNCHANGED ownVars

SessionThread ==
  \/ Attached \/ AttachFails \/ LoopTop \/ RecvSubmit \/ RecvSubmitFails
  \/ RecvError \/ DrainNext \/ DrainSend \/ DrainSendFails \/ DrainDone
  \/ RecvUnlink \/ SendUnlinkRet \/ Detach \/ DetachClose \/ HandlerCall

Worker == H!WorkerStep /\ UNCHANGED ownVars

Client ==
  \/ ClientSubmit \/ (\E s \in 1 .. MaxUrbs : ClientUnlink(s))
  \/ ClientRead \/ ClientGone

\* The session is over and nothing is left to read.
Finished == session = "closed" /\ H!Finished /\ UNCHANGED ownVars

Next == SessionThread \/ Worker \/ Client \/ ShutdownSignal \/ Finished
Spec == Init /\ [][Next]_vars

\* Windows schedules both threads, TCP delivers, and the driver keeps reading.
\* The client need not send anything, nor stay; no signal need arrive.
FairSpec ==
  Spec /\ WF_vars(SessionThread) /\ WF_vars(Worker) /\ WF_vars(ClientRead)

----------------------------------------------------------------------------
(* Properties.                                                             *)

\* The session uses the handler as UrbHandler lets a session use it: each
\* step of the composed system is a step of the handler or leaves it alone,
\* so what is proved of the handler holds in the server.
HandlerContract == H!Spec

\* A transfer never runs on a device the session has closed: usb_close_device
\* comes after the worker is gone on every way out of the session.
DeviceOpenWhileUsed == worker \in {"exec", "push"} => is_open

Replies == answers \o toClient
IsRetSubmit(r) == r.ret = "submit"

\* The answers the client gets are right, across unlinks, failures and a
\* detach at any moment: never two for one URB, "cancelled" exactly for the
\* URBs that never ran, and the ones that ran in the order of submission.
AnswersSound ==
  /\ \A i, j \in DOMAIN Replies :
       /\ i < j
       /\ IsRetSubmit(Replies[i]) /\ IsRetSubmit(Replies[j])
       => /\ Replies[i].urb # Replies[j].urb
          /\ {Replies[i].urb, Replies[j].urb} \subseteq executed
               => Replies[i].urb < Replies[j].urb
  /\ \A i \in DOMAIN Replies :
       IsRetSubmit(Replies[i]) =>
         (Replies[i].status = "ECANCELED" <=> Replies[i].urb \notin executed)

\* When the client goes away the server ends the session by itself, stops
\* the worker and closes the device, whatever it was doing.
SessionEnds == peer = "gone" ~> session = "closed" /\ ~is_open

\* A USB device behaves "as if it were connected locally": a client that
\* submits a URB and waits gets its answer, while the connection lasts.
EveryUrbAnswered ==
  \A e \in 1 .. MaxUrbs :
    e \in executed /\ peer = "up"
      ~> \/ \E i \in DOMAIN answers : IsRetSubmit(answers[i]) /\ answers[i].urb = e
         \/ peer = "gone" \/ ~server_running
=============================================================================
