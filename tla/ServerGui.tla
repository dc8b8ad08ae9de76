------------------------------ MODULE ServerGui -----------------------------
(***************************************************************************)
(* The GUI server (gui/server_gui.c): the window's thread, which starts    *)
(* the server, fills and refreshes the device rows, shares and unshares    *)
(* devices by their checkboxes and in the end takes everything down; the   *)
(* accept thread; and one handler thread per client running                *)
(* client_handle_request in a loop.  A handler thread removes its client   *)
(* when the loop ends; it does not detach first, and it serves further     *)
(* requests of a client that has a device attached.                        *)
(*                                                                         *)
(* Stopping waits for the accept thread and the discovery listener but not *)
(* for the handler threads, whose clients client_manager_disconnect_all    *)
(* frees.  Either wait ends before its 3 s are over, since the threads     *)
(* block for at most 1 s before they look at server_running: there is no   *)
(* handshake, since the token is read from its field before the window is  *)
(* shown, and is empty.  The listener shares nothing else with the others  *)
(* and is part of Discovery.  An entry that is not in the device list is   *)
(* one that is not shared here: imports refuse both.  What a device list   *)
(* reply holds is ServerCli's subject.                                     *)
(***************************************************************************)
EXTENDS ClientManager

VARIABLES
  win,             \* where the window's thread is
  server_running,  \* ctx->server_running
  accepting,       \* the accept thread: waiting, with a connection, or gone
  inlist,          \* the devices that have an entry in the device list
  row,             \* the row of each device in the window
  victim           \* the client disconnect_all has in its hand

guiVars == <<win, server_running, accepting, inlist, row, victim>>
allVars == <<vars, guiVars>>

GuiInit ==
  /\ client = [c \in Clients |-> NoClient] /\ client_count = 0 /\ stray = {}
  /\ entry = [d \in Devices |-> [NewEntry EXCEPT !.is_shared = FALSE]]
  /\ win = "start" /\ server_running = FALSE /\ accepting = "off"
  /\ inlist = {} /\ victim = None
  /\ row = [d \in Devices |-> "absent"]

----------------------------------------------------------------------------
(* The window's thread.                                                    *)

\* server_gui_start_server: no TCP socket or no accept thread and the window
\* opens without a server.
server_gui_start_server ==
  /\ win = "start" /\ win' = "fill"
  /\ server_running' \in BOOLEAN
  /\ accepting' = IF server_running' THEN "wait" ELSE "off"
  /\ UNCHANGED <<vars, inlist, row, victim>>

Tick(shared) == IF shared THEN "ticked" ELSE "unticked"

\* device_list_add: new entries, AVAILABLE and shared.
device_list_add(added) ==
  /\ inlist' = inlist \cup added
  /\ entry' = [d \in Devices |-> IF d \in added THEN NewEntry ELSE entry[d]]

\* Mutation: every device that is present is entered afresh.
PopulateAfresh(present) ==
  /\ row' = [d \in Devices |-> IF d \in present THEN Tick(entry[d].is_shared) ELSE "absent"]
  /\ device_list_add(present)
  /\ UNCHANGED <<client, client_count, stray, server_running, accepting, victim>>

\* populate_device_list: a row for every present device with what its entry
\* says; a device without an entry gets one, unless there is no memory.
\* Entries of devices that are gone stay.
populate_device_list(present) ==
  /\ row' = [d \in Devices |-> IF d \in present THEN Tick(entry[d].is_shared) ELSE "absent"]
  /\ \E added \in SUBSET (present \ inlist) : device_list_add(added)
  /\ UNCHANGED <<client, client_count, stray, server_running, accepting, victim>>

\* The end of server_gui_init; on_refresh_clicked.
Fill(present) == win \in {"fill", "run"} /\ win' = "run" /\ populate_device_list(present)

\* on_device_checkbox_changed: device_list_set_shared finds the entry or not.
on_device_checkbox_changed(d) ==
  /\ win = "run" /\ row[d] # "absent"
  /\ LET checked == row[d] = "unticked"
     IN /\ row' = [row EXCEPT ![d] = Tick(checked)]
        /\ IF d \in inlist THEN device_list_set_shared(d, checked) ELSE UNCHANGED vars
  /\ UNCHANGED <<win, server_running, accepting, inlist, victim>>

\* The message loop ends; server_gui_stop_server closes the sockets.  The accept
\* thread may have a connection it has not entered yet...
StopServer ==
  /\ win = "run" /\ win' = "stop" /\ server_running' = FALSE
  /\ accepting' \in IF server_running THEN {"wait", "got"} ELSE {"off"}
  /\ UNCHANGED <<vars, inlist, row, victim>>

\* Mutation: the accept thread is not waited for.
StopWithoutWaiting ==
  /\ win = "stop" /\ win' = "drop"
  /\ UNCHANGED <<vars, server_running, accepting, inlist, row, victim>>

\* ...and its threads are waited for.
StopWaits ==
  /\ win = "stop" /\ accepting = "off" /\ win' = "drop"
  /\ UNCHANGED <<vars, server_running, accepting, inlist, row, victim>>

\* client_manager_disconnect_all reads the head of the list without the mutex
DropPick(c) ==
  /\ win = "drop" /\ client[c].listed
  /\ win' = "remove" /\ victim' = c
  /\ UNCHANGED <<vars, server_running, accepting, inlist, row>>

\* Mutation: the search for the client starts behind the head.
DropMissesHead(c) ==
  /\ win = "remove" /\ win' = "drop"
  /\ UNCHANGED <<vars, server_running, accepting, inlist, row, victim>>

\* and client_manager_remove unlinks it, unless its own thread has meanwhile.
DropUnlink(c) ==
  /\ win = "remove"
  /\ \/ /\ ~client[c].listed /\ win' = "drop" /\ UNCHANGED vars
     \/ /\ client[c].listed /\ win' = "free"
        /\ client' = [client EXCEPT ![c].listed = FALSE]
        /\ client_count' = client_count - 1
        /\ IF client[c].busid = None THEN UNCHANGED entry
                                     ELSE device_list_unexport(client[c].busid)
        /\ UNCHANGED stray
  /\ UNCHANGED <<server_running, accepting, inlist, row, victim>>

\* free_client: what is left is the thread, if there was one.
DropFree(c) ==
  /\ win = "free" /\ win' = "drop"
  /\ client' = [client EXCEPT ![c] =
                [NoClient EXCEPT !.pc = IF client[c].pc = "orphan" THEN "none" ELSE client[c].pc]]
  /\ IF client[c].device = None THEN UNCHANGED entry
                                ELSE usb_close_device(client[c].device)
  /\ UNCHANGED <<client_count, stray, server_running, accepting, inlist, row, victim>>

DropDone ==
  /\ win = "drop" /\ \A c \in Clients : ~client[c].listed
  /\ win' = "close"
  /\ UNCHANGED <<vars, server_running, accepting, inlist, row, victim>>

\* The entries are freed, an open device is closed first.
device_list_cleanup ==
  /\ inlist' = {}
  /\ entry' = [d \in Devices |-> [entry[d] EXCEPT !.is_open = FALSE]]

\* The end of server_gui_cleanup; the process ends and its threads with it.
CloseLists ==
  /\ win = "close" /\ win' = "exit" /\ device_list_cleanup
  /\ UNCHANGED <<client, client_count, stray, server_running, accepting, row, victim>>

WindowStep ==
  \/ server_gui_start_server
  \/ win = "fill" /\ \E present \in SUBSET Devices : Fill(present)
  \/ StopWaits \/ DropDone \/ CloseLists
  \/ \E c \in Clients : DropPick(c)
  \/ victim # None /\ (DropUnlink(victim) \/ DropFree(victim))

----------------------------------------------------------------------------
(* The accept thread, server_accept_thread.                                *)

\* The loop ends.
AcceptEnds ==
  /\ accepting = "wait" /\ ~server_running /\ accepting' = "off"
  /\ UNCHANGED <<vars, win, server_running, inlist, row, victim>>

\* A connection accepted before the stop is the last one.
AcceptNext ==
  \/ accepting = "wait" /\ server_running /\ UNCHANGED accepting
  \/ accepting = "got" /\ accepting' = "off"

\* The client is added and its thread started, which ends at once when the
\* server has been stopped, or cannot be started: the client stays listed.
Accept(c, thread) ==
  /\ AcceptNext
  /\ client[c].pc = "none" /\ client_count < MAX_CLIENTS
  /\ client' = [client EXCEPT ![c] = [NewClient EXCEPT !.pc =
                   IF ~thread THEN "orphan" ELSE IF server_running THEN "idle" ELSE "end"]]
  /\ client_count' = client_count + 1
  /\ UNCHANGED <<entry, stray, win, server_running, inlist, row, victim>>

\* The limit is reached or there is no memory: the connection is closed.
AcceptRefused ==
  /\ accepting = "got" /\ accepting' = "off"
  /\ UNCHANGED <<vars, win, server_running, inlist, row, victim>>

AcceptStep ==
  AcceptEnds \/ AcceptRefused \/ \E c \in Clients, thread \in BOOLEAN : Accept(c, thread)

----------------------------------------------------------------------------
(* client_handler_thread.                                                  *)

\* The window has removed the thread's client and frees it.
Stale(c) == ~client[c].listed /\ client[c].pc \notin {"none", "free"}

\* Any request, whatever the client's state.  The clients of this repository
\* import once per connection.
Request(c) ==
  /\ ~Stale(c)
  /\ \/ Go(c, "idle", "list") /\ UNCHANGED <<client_count, entry, stray>>
     \/ \E d \in Devices : client[c].busid = None /\ AttachCheck(c, d)

\* A request ends, and the loop with it when the server has been stopped.
Reply(c) ==
  /\ ~Stale(c) /\ client[c].pc \in {"list", "reply"}
  /\ Go(c, client[c].pc, IF server_running THEN "idle" ELSE "end")
  /\ UNCHANGED <<client_count, entry, stray>>

Serve(c) == ~Stale(c) /\ (InImport(c) \/ SendDevicesFails(c)) /\ client'[c].pc # "idle"

\* client_manager_remove finds the client, or it is no longer in the list.
Remove(c) ==
  \/ client[c].listed /\ RemoveUnlink(c)
  \/ /\ client[c].pc = "end" /\ ~client[c].listed
     /\ client' = [client EXCEPT ![c].pc = "none"]
     /\ UNCHANGED <<client_count, entry, stray>>

\* A request on a client that has been freed: the socket is closed and the
\* request fails.  What it does to the entry of a device is not followed, the
\* device list is about to be freed.
StaleRequest(c) ==
  /\ Stale(c) /\ client[c].pc \notin {"idle", "end"}
  /\ Go(c, client[c].pc, "end")
  /\ UNCHANGED <<client_count, entry, stray>>

\* Or the freed memory faults and the process ends.
StaleFaults(c) ==
  /\ Stale(c) /\ client[c].pc \notin {"idle", "end"} /\ win' = "exit"
  /\ UNCHANGED <<vars, server_running, accepting, inlist, row, victim>>

ThreadStep(c) ==
  /\ Serve(c) \/ Reply(c) \/ Remove(c) \/ free_client(c) \/ StaleRequest(c)
  /\ UNCHANGED guiVars

Next ==
  /\ win # "exit"
  /\ \/ WindowStep \/ StopServer \/ AcceptStep
     \/ win = "run" /\ \E present \in SUBSET Devices : Fill(present)
     \/ \E d \in Devices : on_device_checkbox_changed(d)
     \/ \E c \in Clients :
          \/ ThreadStep(c) \/ StaleFaults(c)
          \/ (Request(c) \/ RequestFails(c) \/ PeerGone(c)) /\ UNCHANGED guiVars

Spec == GuiInit /\ [][Next]_allVars

\* Every thread is scheduled, and the window is left open or closed as the user
\* likes.  A lost connection holds finitely many requests that were sent
\* before: a receive from it fails in the end.
FairSpec ==
  /\ Spec
  /\ WF_allVars(win # "exit" /\ WindowStep)
  /\ WF_allVars(win # "exit" /\ ~server_running /\ AcceptStep)
  /\ \A c \in Clients :
       /\ WF_allVars(win # "exit" /\ ThreadStep(c))
       /\ SF_allVars(win # "exit" /\ ~client[c].up /\ RequestFails(c) /\ UNCHANGED guiVars)

----------------------------------------------------------------------------
(* Properties.                                                             *)

\* The clients' count and list agree although a handler thread and the window
\* may remove the same client, and once client_manager_disconnect_all has
\* seen an empty list nobody enters a client any more.
ClientsAccounted == CountIsLength /\ (win = "close" => client_count = 0)

\* While the server runs every export has its client, and when all clients are
\* gone every device is closed and available and no URB handler is left.
DevicesFollowClients == server_running => ExportHasClient /\ NothingLeftBehind

\* A device in the list is shared or unshared by a click on its row alone, and
\* as the row then says: not by a refresh, by unplugging it and plugging it in
\* again, or by anything its clients do.
SharingFollowsClicks ==
  [][\A d \in inlist : entry'[d].is_shared # entry[d].is_shared =>
       row'[d] # row[d] /\ row'[d] = Tick(entry'[d].is_shared)]_allVars

\* A device attached to a client whose connection is lost becomes available
\* again, unless the server ends first.
DeviceReturns ==
  \A c \in Clients, d \in Devices :
    client[c].listed /\ client[c].busid = d /\ ~client[c].up
      ~> entry[d].state = "AVAILABLE" \/ win = "exit"

\* Once the user has closed the window the process ends: the threads it waits
\* for end, and the loop over the clients does, whatever they are doing.
WindowExits == win = "stop" ~> win = "exit"
=============================================================================
