------------------------------ MODULE ServerCli -----------------------------
(***************************************************************************)
(* The command line server (server/main.c): one thread that accepts a      *)
(* client, serves it until its session ends, detaches its device and       *)
(* removes it, before it accepts the next one.                             *)
(*                                                                         *)
(* URB forwarding in an attached session does not touch what is modelled   *)
(* here; UrbSession models it.                                             *)
(***************************************************************************)
EXTENDS ClientManager

\* server_init: all devices are shared or, with the -d option, only the one
\* it names, which may be none of them.
server_init ==
  \E shared \in {Devices, {}} \cup {{d} : d \in Devices} :
    /\ client = [c \in Clients |-> NoClient]
    /\ client_count = 0
    /\ entry = [d \in Devices |-> [NewEntry EXCEPT !.is_shared = (d \in shared)]]
    /\ stray = {}

\* Mutation: a client is accepted while another one is being served.
AcceptConcurrently(c) == client_manager_add(c)

\* server_main_loop: accept, when no session is going on.
Accept(c) ==
  /\ \A x \in Clients : client[x].pc = "none"
  /\ client_manager_add(c)

\* handle_client_session in CLIENT_STATE_CONNECTED.
Request(c) ==
  /\ client[c].busid = None
  /\ \/ CountDevices(c) \/ RequestFails(c)
     \/ \E d \in Devices : AttachCheck(c, d)

\* Mutation: a failed receive is retried.
ForwardingRetries(c) ==
  /\ client[c].busid # None
  /\ Go(c, "idle", "idle")
  /\ UNCHANGED <<client_count, entry, stray>>

\* handle_client_session in CLIENT_STATE_ATTACHED: URBs are forwarded until a
\* receive fails.
ForwardingEnds(c) ==
  /\ client[c].busid # None
  /\ Go(c, "idle", "end")
  /\ UNCHANGED <<client_count, entry, stray>>

\* The session is over: client_detach_device...
SessionDetach(c) ==
  /\ client[c].busid # None
  /\ Go(c, "end", "detach")
  /\ UNCHANGED <<client_count, entry, stray>>

\* ...and client_manager_remove.
SessionRemove(c) ==
  /\ client[c].busid = None /\ RemoveUnlink(c)

ThreadStep(c) ==
  \/ Request(c) \/ InRequest(c) \/ ForwardingEnds(c)
  \/ SessionDetach(c) \/ SessionRemove(c) \/ free_client(c)

Next == \E c \in Clients : Accept(c) \/ PeerGone(c) \/ ThreadStep(c)

Spec == server_init /\ [][Next]_vars

\* The thread is scheduled, and a receive from a lost connection returns.  A
\* client that stays connected need not ask for anything.
FairSpec ==
  /\ Spec
  /\ \A c \in Clients :
       /\ WF_vars(InRequest(c) \/ SessionDetach(c) \/ SessionRemove(c) \/ free_client(c))
       /\ WF_vars(~client[c].up /\ ForwardingEnds(c))
=============================================================================
