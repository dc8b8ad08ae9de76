---------------------------- MODULE ClientManager ---------------------------
(***************************************************************************)
(* The state the servers keep about clients and devices, and the steps of  *)
(* the operations on it: server/client_manager.c with the parts of         *)
(* server/device_list.c and server/usb_host_win32.c it calls.  The servers *)
(* ServerCli and ServerGui are built from these steps.                     *)
(*                                                                         *)
(* A step is what runs under one mutex, or what one thread does to its own *)
(* client.  client_attach_device looks at the device list and opens the    *)
(* device without the list's mutex, so its parts are separate steps.       *)
(*                                                                         *)
(* A client_connection_t is one of a pool of objects.  Its state field is  *)
(* CLIENT_STATE_ATTACHED exactly when attached_busid is set and is not     *)
(* kept separately; a device is claimed exactly while it is open, because  *)
(* only interface 0 is ever claimed and usb_close_device releases it.      *)
(***************************************************************************)
EXTENDS Integers, FiniteSets

CONSTANTS
  Clients,      \* client objects
  Devices,      \* bus ids in the device list
  MAX_CLIENTS,  \* limit of client_manager_add
  None          \* no client, no device

ASSUME ManagerAssumption ==
  /\ MAX_CLIENTS \in Nat
  /\ IsFiniteSet(Devices)     \* a linked list of entries
  /\ None \notin Clients /\ None \notin Devices

VARIABLES
  client,       \* each client object and where the thread serving it is
  client_count, \* manager->client_count
  entry,        \* each device_entry_t
  stray         \* devices with a URB handler no client points to any more

vars == <<client, client_count, entry, stray>>

\* A client object on the heap's free list, and a fresh one (create_client).
NoClient == [pc |-> "none", listed |-> FALSE, up |-> FALSE, busid |-> None,
             device |-> None, handler |-> None, arg |-> None,
             announced |-> 0, sent |-> 0]
NewClient == [NoClient EXCEPT !.pc = "idle", !.listed = TRUE, !.up = TRUE]

\* An entry as device_list_refresh leaves it.
NewEntry == [state |-> "AVAILABLE", client_id |-> None, is_shared |-> TRUE,
             is_open |-> FALSE]

Shared == {d \in Devices : entry[d].is_shared}
Available == {d \in Shared : entry[d].state = "AVAILABLE"}

Init ==
  /\ client = [c \in Clients |-> NoClient]
  /\ client_count = 0
  /\ entry = [d \in Devices |-> NewEntry]
  /\ stray = {}

\* The thread of client c goes from one place to another.
Go(c, from, to) ==
  /\ client[c].pc = from
  /\ client' = [client EXCEPT ![c].pc = to]

----------------------------------------------------------------------------
(* The device list and the device.                                         *)

device_list_export(d, c) ==
  entry' = IF entry[d].state = "AVAILABLE"
           THEN [entry EXCEPT ![d].state = "EXPORTED", ![d].client_id = c]
           ELSE entry

device_list_unexport(d) ==
  entry' = [entry EXCEPT ![d].state = "AVAILABLE", ![d].client_id = None]

device_list_set_shared(d, shared) ==
  /\ entry' = [entry EXCEPT ![d].is_shared = shared]
  /\ UNCHANGED <<client, client_count, stray>>

\* usb_open_device falls back to virtual mode rather than fail.
usb_open_device(d) == entry' = [entry EXCEPT ![d].is_open = TRUE]
usb_close_device(d) == entry' = [entry EXCEPT ![d].is_open = FALSE]

----------------------------------------------------------------------------
(* Clients come and go.                                                    *)

\* client_manager_add tests the limit before it takes the mutex; only the
\* accepting thread adds clients and a removal in between only makes room, so
\* test and insertion are one step.
client_manager_add(c) ==
  /\ client[c].pc = "none" /\ client_count < MAX_CLIENTS
  /\ client' = [client EXCEPT ![c] = NewClient]
  /\ client_count' = client_count + 1
  /\ UNCHANGED <<entry, stray>>

\* The remote end closes or loses the connection.
PeerGone(c) ==
  /\ client[c].up
  /\ client' = [client EXCEPT ![c].up = FALSE]
  /\ UNCHANGED <<client_count, entry, stray>>

\* Mutation: the device is not released.
RemoveKeepsExport(c) ==
  /\ client[c].pc = "end"
  /\ client' = [client EXCEPT ![c].pc = "free", ![c].listed = FALSE]
  /\ client_count' = client_count - 1
  /\ UNCHANGED <<entry, stray>>

\* client_manager_remove under the manager's mutex.
RemoveUnlink(c) ==
  /\ client[c].pc = "end"
  /\ client' = [client EXCEPT ![c].pc = "free", ![c].listed = FALSE]
  /\ client_count' = client_count - 1
  /\ IF client[c].busid = None THEN UNCHANGED entry
                               ELSE device_list_unexport(client[c].busid)
  /\ UNCHANGED stray

\* free_client, after the mutex has been released: the URB handler is
\* cleaned up, then the device closed.
free_client(c) ==
  /\ client[c].pc = "free"
  /\ client' = [client EXCEPT ![c] = NoClient]
  /\ IF client[c].device = None THEN UNCHANGED entry
                                ELSE usb_close_device(client[c].device)
  /\ UNCHANGED <<client_count, stray>>

----------------------------------------------------------------------------
(* client_handle_request: browsing.                                        *)

\* The receive fails, or the command is not known to the server.
RequestFails(c) ==
  /\ Go(c, "idle", "end")
  /\ UNCHANGED <<client_count, entry, stray>>

\* Mutation: devices that are not shared are counted too.
CountAllDevices(c) ==
  /\ client[c].pc = "idle"
  /\ client' = [client EXCEPT ![c].pc = "list",
                              ![c].announced = Cardinality(Devices)]
  /\ UNCHANGED <<client_count, entry, stray>>

\* client_send_device_list: the devices to announce are counted under the
\* list's mutex...
CountDevices(c) ==
  /\ client[c].pc = "idle"
  /\ client' = [client EXCEPT ![c].pc = "list",
                              ![c].announced = Cardinality(Available)]
  /\ UNCHANGED <<client_count, entry, stray>>

\* ...which is released before device_list_foreach_shared sends them.
SendDevices(c) ==
  /\ client[c].pc = "list"
  /\ client' = [client EXCEPT ![c].pc = "idle",
                              ![c].sent = Cardinality(Shared)]
  /\ UNCHANGED <<client_count, entry, stray>>

SendDevicesFails(c) ==
  /\ ~client[c].up /\ Go(c, "list", "end")
  /\ UNCHANGED <<client_count, entry, stray>>

----------------------------------------------------------------------------
(* client_handle_import and client_attach_device.                          *)

\* The entry is found, shared and available, or the import is refused.
AttachCheck(c, d) ==
  /\ client[c].pc = "idle"
  /\ client' = [client EXCEPT ![c].pc = IF d \in Available THEN "open" ELSE "refuse",
                              ![c].arg = d]
  /\ UNCHANGED <<client_count, entry, stray>>

AttachOpen(c) ==
  /\ Go(c, "open", "claim")
  /\ usb_open_device(client[c].arg)
  /\ UNCHANGED <<client_count, stray>>

\* usb_claim_interface fails if another thread has closed the device since.
AttachClaim(c) ==
  /\ Go(c, "claim", IF entry[client[c].arg].is_open THEN "handler" ELSE "refuse")
  /\ UNCHANGED <<client_count, entry, stray>>

\* A handler the client already had is no longer reachable.
Strays(c) == stray \cup ({client[c].handler} \ {None})

AttachHandler(c) ==
  /\ client[c].pc = "handler"
  /\ client' = [client EXCEPT ![c].pc = "export", ![c].handler = client[c].arg]
  /\ stray' = Strays(c)
  /\ UNCHANGED <<client_count, entry>>

\* Mutation: the error path leaves the device open.
AttachFailsLeavesOpen(c) ==
  /\ client[c].pc = "handler"
  /\ client' = [client EXCEPT ![c].pc = "refuse", ![c].handler = None]
  /\ stray' = Strays(c)
  /\ UNCHANGED <<client_count, entry>>

\* No memory, no mutex or no thread for the handler: everything is undone.
AttachHandlerFails(c) ==
  /\ client[c].pc = "handler"
  /\ client' = [client EXCEPT ![c].pc = "refuse", ![c].handler = None]
  /\ stray' = Strays(c)
  /\ usb_close_device(client[c].arg)
  /\ UNCHANGED client_count

\* Mutation: the device is not marked as exported.
AttachWithoutExport(c) ==
  /\ client[c].pc = "export"
  /\ client' = [client EXCEPT ![c].pc = "reply", ![c].busid = client[c].arg,
                              ![c].device = client[c].arg]
  /\ UNCHANGED <<client_count, entry, stray>>

\* The client is updated, then device_list_export, whose result is ignored.
AttachExport(c) ==
  /\ client[c].pc = "export"
  /\ client' = [client EXCEPT ![c].pc = "reply", ![c].busid = client[c].arg,
                              ![c].device = client[c].arg]
  /\ device_list_export(client[c].arg, c)
  /\ UNCHANGED <<client_count, stray>>

ImportReply(c) ==
  /\ Go(c, "reply", "idle")
  /\ UNCHANGED <<client_count, entry, stray>>

\* Sending the reply header fails: the session ends as it is.  Sending the
\* device fails: client_detach_device first.
ImportReplyFails(c) ==
  /\ ~client[c].up /\ (Go(c, "reply", "end") \/ Go(c, "reply", "detach"))
  /\ UNCHANGED <<client_count, entry, stray>>

\* A refused import is an error of the request, which ends the session.
ImportRefused(c) ==
  /\ Go(c, "refuse", "end")
  /\ UNCHANGED <<client_count, entry, stray>>

----------------------------------------------------------------------------
(* client_detach_device.                                                   *)

\* urb_handler_stop, urb_handler_cleanup, usb_close_device...
DetachClose(c) ==
  /\ client[c].pc = "detach"
  /\ client' = [client EXCEPT ![c].pc = "unexport", ![c].handler = None,
                              ![c].device = None]
  /\ usb_close_device(client[c].device)
  /\ UNCHANGED <<client_count, stray>>

\* Mutation: attached_busid is cleared before it is used.
DetachForgetsBusid(c) ==
  /\ client[c].pc = "unexport"
  /\ client' = [client EXCEPT ![c].pc = "end", ![c].busid = None]
  /\ UNCHANGED <<client_count, entry, stray>>

\* ...then device_list_unexport; attached_busid is cleared.
DetachUnexport(c) ==
  /\ client[c].pc = "unexport"
  /\ client' = [client EXCEPT ![c].pc = "end", ![c].busid = None]
  /\ device_list_unexport(client[c].busid)
  /\ UNCHANGED <<client_count, stray>>

----------------------------------------------------------------------------
\* One step of the thread inside the request it is serving.
InList(c) == SendDevices(c) \/ SendDevicesFails(c)
InImport(c) ==
  \/ AttachOpen(c) \/ AttachClaim(c) \/ AttachHandler(c) \/ AttachHandlerFails(c)
  \/ AttachExport(c) \/ ImportReply(c) \/ ImportReplyFails(c)
  \/ ImportRefused(c)
  \/ DetachClose(c) \/ DetachUnexport(c)
InRequest(c) == InList(c) \/ InImport(c)

----------------------------------------------------------------------------
(* Properties of both servers.                                             *)

Places == {"none", "idle", "list", "open", "claim", "handler", "export", "reply",
           "refuse", "detach", "unexport", "end", "free", "orphan"}

ClientType ==
  [pc : Places, listed : BOOLEAN, up : BOOLEAN, busid : Devices \cup {None},
   device : Devices \cup {None}, handler : Devices \cup {None},
   arg : Devices \cup {None}, announced : Nat, sent : Nat]

EntryType ==
  [state : {"AVAILABLE", "EXPORTED"}, client_id : Clients \cup {None},
   is_shared : BOOLEAN, is_open : BOOLEAN]

\* Every variable stays in its range.
TypeOK ==
  /\ client \in [Clients -> ClientType]
  /\ entry \in [Devices -> EntryType]
  /\ client_count \in Int
  /\ stray \in SUBSET Devices

\* client_count is the length of the client list and stays within the limit
\* on every way in and out: refusals, lost connections, failed threads.
CountIsLength ==
  /\ client_count = Cardinality({c \in Clients : client[c].listed})
  /\ client_count <= MAX_CLIENTS

\* The clients that use each device, for the comparison with DeviceLease.
Holders == [d \in Devices |-> {c \in Clients : client[c].device = d}]

Lease == INSTANCE DeviceLease WITH holders <- Holders

\* A device is used by at most one client at a time, and passes from one to
\* the next only after the first has let go of it.
OneUserPerDevice == Lease!Spec

\* A client whose import succeeded and whose thread is back at its loop has
\* the device: it is open, has a URB handler, and is exported to this client.
AttachedOwnsDevice ==
  \A c \in Clients :
    client[c].pc = "idle" /\ client[c].busid # None =>
      LET d == client[c].busid
      IN /\ entry[d].is_open /\ client[c].handler = d /\ client[c].device = d
         /\ entry[d].state = "EXPORTED" /\ entry[d].client_id = c

\* client_id of an exported device is a client that is connected and has
\* this device attached: no export outlives its client.
ExportHasClient ==
  \A d \in Devices :
    entry[d].state = "EXPORTED" =>
      \E c \in Clients : /\ entry[d].client_id = c /\ client[c].listed
                         /\ client[c].busid = d

\* A device list reply holds as many devices as its header announces.
DeviceListConsistent ==
  \A c \in Clients :
    client[c].pc = "idle" => client[c].announced = client[c].sent

\* Once every client is gone nothing is left behind: every device is
\* available and closed, and no URB handler is still running.
NothingLeftBehind ==
  (\A c \in Clients : client[c].pc = "none") =>
    /\ stray = {}
    /\ \A d \in Devices : entry[d].state = "AVAILABLE" /\ ~entry[d].is_open

\* A device attached to a listed client whose connection is lost becomes
\* available again, whatever request the client was in.
DeviceComesBack ==
  \A c \in Clients, d \in Devices :
    client[c].listed /\ client[c].busid = d /\ ~client[c].up
      ~> entry[d].state = "AVAILABLE"
=============================================================================
