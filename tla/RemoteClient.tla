---------------------------- MODULE RemoteClient ----------------------------
(***************************************************************************)
(* The client machine: processes of the client programs, each with its     *)
(* remote devices (client/remote_device.c), its table of VHCI ports        *)
(* (client/vhci_win32.c) and its sockets, and the one kernel driver they   *)
(* share.  A process is a GUI client (gui/client_gui.c), an attach command *)
(* or a detach command (client/main.c).                                    *)
(*                                                                         *)
(* One thread of a process works on its devices and ports; in a GUI client *)
(* it is the window's, and a second thread, for discovery, uses a socket   *)
(* of its own.                                                             *)
(* Winsock gives out the handle of a closed socket again, and closing a    *)
(* handle that is not open does nothing.  remote_device_start_forwarding   *)
(* has no caller, so there is no forwarding thread to stop.                *)
(*                                                                         *)
(* The driver is external: a plug-in request names no port, and the driver *)
(* takes its first free one; an unplug request names one.  It works on the *)
(* connection, not on the handle, which stays open in the process.         *)
(***************************************************************************)
EXTENDS Integers

CONSTANTS
  Procs,      \* client processes
  Busids,     \* remote devices, by bus id
  Handles,    \* socket handles of a process
  MaxPorts,   \* VHCI_MAX_PORTS
  GuiToken,   \* whether a GUI client may use an authentication token
  UnplugMayFail, \* whether the driver may refuse to unplug a port
  None        \* no handle, no device

ASSUME ClientAssumption ==
  /\ MaxPorts \in Nat /\ GuiToken \in BOOLEAN /\ UnplugMayFail \in BOOLEAN
  /\ None \notin Handles \cup Busids \cup (Procs \X Busids)

VARIABLES
  proc,       \* each process and where its main thread is
  device,     \* each process's remote_device_t per bus id
  ports,      \* each process's port table
  sockets,    \* each process's open socket handles
  row,        \* the row of each device in a GUI client's window
  driver      \* what is plugged into each port of the driver

vars == <<proc, device, ports, sockets, row, driver>>

Ports == 0 .. MaxPorts - 1
NoPort == -1

NoDevice == [listed |-> FALSE, socket |-> None, vhci_port |-> NoPort]
NoProc == [kind |-> "none", pc |-> "none", ret |-> "exit", token |-> FALSE,
           busid |-> None, running |-> FALSE, connected |-> FALSE, list |-> None,
           discovery |-> None]
FreePorts == [k \in Ports |-> "FREE"]
NoRows == [b \in Busids |-> "absent"]

Init ==
  /\ proc = [p \in Procs |-> NoProc]
  /\ device = [p \in Procs |-> [b \in Busids |-> NoDevice]]
  /\ ports = [p \in Procs |-> FreePorts]
  /\ sockets = [p \in Procs |-> {}]
  /\ row = [p \in Procs |-> NoRows]
  /\ driver = [k \in Ports |-> None]

Go(p, from, to) == proc[p].pc = from /\ proc' = [proc EXCEPT ![p].pc = to]

Listed(p) == {b \in Busids : device[p][b].listed}
Dev(p) == device[p][proc[p].busid]

----------------------------------------------------------------------------
(* Ports and sockets.                                                      *)

First(K) == CHOOSE k \in K : \A j \in K : k <= j

\* The ports of the table that are free; the first one is taken.
vhci_find_free_port(p) == {k \in Ports : ports[p][k] = "FREE"}

\* Mutation: a port in the error state is skipped.
DetachKeepsError(p, k) ==
  IF ports[p][k] \in {"FREE", "ERROR"}
  THEN UNCHANGED <<ports, driver>>
  ELSE /\ ports' = [ports EXCEPT ![p][k] = "FREE"]
       /\ driver' = [driver EXCEPT ![k] = None]

\* The driver is asked to unplug the port; it may refuse, and nobody cares.
Unplugged(K) ==
  IF UnplugMayFail
  THEN {[k \in Ports |-> IF k \in J THEN None ELSE driver[k]] : J \in SUBSET K}
  ELSE {[k \in Ports |-> IF k \in K THEN None ELSE driver[k]]}

\* A port this table says is free is left alone; otherwise the driver is asked
\* to unplug the port of this number and the table's entry is cleared.
vhci_detach(p, k) ==
  IF ports[p][k] = "FREE"
  THEN UNCHANGED <<ports, driver>>
  ELSE /\ ports' = [ports EXCEPT ![p][k] = "FREE"]
       /\ driver' \in Unplugged({k})

socket_open(p, h) ==
  h \in Handles \ sockets[p] /\ sockets' = [sockets EXCEPT ![p] = @ \cup {h}]
socket_close(p, h) == sockets' = [sockets EXCEPT ![p] = @ \ {h}]

----------------------------------------------------------------------------
(* Processes start and end.                                                *)

\* vhci_init gives every process a table of its own with all ports free.
Start(p) ==
  /\ proc[p].pc = "none"
  /\ \E kind \in {"gui", "attach", "detach"}, token \in BOOLEAN :
       /\ kind = "gui" /\ token => GuiToken
       /\ proc' = [proc EXCEPT ![p] =
            [NoProc EXCEPT !.kind = kind, !.token = token, !.pc = "loop",
                           !.ret = IF kind = "gui" THEN "loop" ELSE "exit"]]
  /\ UNCHANGED <<device, ports, sockets, row, driver>>

\* cmd_detach: vhci_detach on the table that was just initialised.
cmd_detach(p, k) ==
  /\ proc[p].kind = "detach" /\ Go(p, "loop", "exit")
  /\ vhci_detach(p, k)
  /\ UNCHANGED <<device, sockets, row>>

\* vhci_cleanup detaches what is left in the table; then the process ends and
\* the system closes its sockets.
vhci_cleanup(p) ==
  /\ proc[p].pc = "exit" /\ Listed(p) = {}
  /\ proc' = [proc EXCEPT ![p] = NoProc]
  /\ ports' = [ports EXCEPT ![p] = FreePorts]
  /\ driver' \in Unplugged({k \in Ports : ports[p][k] # "FREE"})
  /\ sockets' = [sockets EXCEPT ![p] = {}]
  /\ row' = [row EXCEPT ![p] = NoRows]
  /\ UNCHANGED device

----------------------------------------------------------------------------
(* remote_device_connect.                                                  *)

\* The command attaches one device.
AttachCommand(p, b) ==
  /\ proc[p].kind = "attach" /\ proc[p].pc = "loop"
  /\ proc' = [proc EXCEPT ![p].pc = "connect", ![p].busid = b]
  /\ UNCHANGED <<device, ports, sockets, row, driver>>

\* A row is ticked: on_device_checkbox_changed calls client_gui_attach_device,
\* which attaches what is not attached yet; a device that is attached already
\* fails, and the row is unticked again.
client_gui_attach_device(p, b) ==
  /\ proc[p].kind = "gui" /\ proc[p].pc = "loop" /\ row[p][b] = "unticked"
  /\ ~device[p][b].listed
  /\ row' = [row EXCEPT ![p][b] = "ticked"]
  /\ proc' = [proc EXCEPT ![p].pc = "connect", ![p].busid = b]
  /\ UNCHANGED <<device, ports, sockets, driver>>

\* A GUI client's g_auth_token points to a buffer of on_connect_clicked, which
\* has returned: whether it still looks like a token is open.
AfterConnect(p) ==
  CASE ~proc[p].token -> {"import"}
    [] proc[p].token /\ proc[p].kind = "gui" -> {"auth", "import"}
    [] OTHER -> {"auth"}

Connect(p) ==
  /\ \E to \in AfterConnect(p) : Go(p, "connect", to)
  /\ \E h \in Handles :
       /\ socket_open(p, h)
       /\ device' = [device EXCEPT ![p][proc[p].busid].socket = h]
  /\ UNCHANGED <<ports, row, driver>>

\* No memory for the device, no connection, no import reply, import refused, no device information.
ConnectFails(p) ==
  /\ Go(p, "connect", "free") \/ Go(p, "import", "free")
  /\ UNCHANGED <<device, ports, sockets, row, driver>>

Auth(p) ==
  /\ Go(p, "auth", "import")
  /\ UNCHANGED <<device, ports, sockets, row, driver>>

\* The handshake fails: the socket is closed here and device->socket stays.
AuthFails(p) ==
  /\ Go(p, "auth", "free")
  /\ socket_close(p, Dev(p).socket)
  /\ UNCHANGED <<device, ports, row, driver>>

\* The device has been imported; find a port for it, if there is one.
Import(p) ==
  LET K == vhci_find_free_port(p)
  IN /\ Go(p, "import", IF K = {} THEN "free" ELSE "plug")
     /\ device' = [device EXCEPT ![p][proc[p].busid].vhci_port =
                                   IF K = {} THEN NoPort ELSE First(K)]
     /\ UNCHANGED <<ports, sockets, row, driver>>

\* Mutation: the port's state is not updated.
AttachForgetsState(p) ==
  LET K == {k \in Ports : driver[k] = None}
  IN /\ K # {}
     /\ Go(p, "plug", IF proc[p].kind = "gui" THEN "loop" ELSE "announce")
     /\ driver' = [driver EXCEPT ![First(K)] = <<p, proc[p].busid>>]
     /\ device' = [device EXCEPT ![p][proc[p].busid].listed = TRUE]
     /\ UNCHANGED <<ports, sockets, row>>

\* vhci_attach: the driver takes the socket, in its first free port.
vhci_attach(p) ==
  LET K == {k \in Ports : driver[k] = None}
  IN /\ K # {}
     /\ Go(p, "plug", IF proc[p].kind = "gui" THEN "loop" ELSE "announce")
     /\ driver' = [driver EXCEPT ![First(K)] = <<p, proc[p].busid>>]
     /\ ports' = [ports EXCEPT ![p][Dev(p).vhci_port] = "CONNECTED"]
     /\ device' = [device EXCEPT ![p][proc[p].busid].listed = TRUE]
     /\ UNCHANGED <<sockets, row>>

\* There is no driver, or it refuses.
PlugFails(p) ==
  /\ Go(p, "plug", "free")
  /\ ports' = [ports EXCEPT ![p][Dev(p).vhci_port] = "ERROR"]
  /\ UNCHANGED <<device, sockets, row, driver>>

----------------------------------------------------------------------------
(* free_remote_device, after a failed connect or a disconnect.             *)

\* Mutation: the socket is left open.
FreeKeepsSocket(p) ==
  /\ Go(p, "free", "unplug")
  /\ device' = [device EXCEPT ![p][proc[p].busid].socket = None]
  /\ UNCHANGED <<ports, sockets, row, driver>>

\* The socket is closed, also when it was closed before or the driver has it...
FreeSocket(p) ==
  /\ Go(p, "free", "unplug")
  /\ IF Dev(p).socket = None THEN UNCHANGED sockets
                             ELSE socket_close(p, Dev(p).socket)
  /\ device' = [device EXCEPT ![p][proc[p].busid].socket = None]
  /\ UNCHANGED <<ports, row, driver>>

\* Mutation: the row of a device that could not be attached stays ticked.
UntickForgotten(p) == UNCHANGED row

\* Back in on_device_checkbox_changed: the row is unticked after a failed
\* attach; that of a detached device is already.
Untick(p) ==
  IF proc[p].ret = "loop" THEN row' = [row EXCEPT ![p][proc[p].busid] = "unticked"]
                          ELSE UNCHANGED row

\* ...then the device is detached from its port.
FreePort(p) ==
  /\ proc[p].pc = "unplug"
  /\ IF Dev(p).vhci_port = NoPort THEN UNCHANGED <<ports, driver>>
                                  ELSE vhci_detach(p, Dev(p).vhci_port)
  /\ device' = [device EXCEPT ![p][proc[p].busid] = NoDevice]
  /\ proc' = [proc EXCEPT ![p].pc = proc[p].ret, ![p].busid = None]
  /\ Untick(p) /\ UNCHANGED sockets

\* remote_device_disconnect: out of the list, then free_remote_device.
remote_device_disconnect(p, b) ==
  /\ device[p][b].listed
  /\ device' = [device EXCEPT ![p][b].listed = FALSE]
  /\ proc' = [proc EXCEPT ![p].pc = "free", ![p].busid = b]
  /\ UNCHANGED <<ports, sockets, driver>>

\* A row is unticked: on_device_checkbox_changed calls client_gui_detach_device;
\* the row of a device that is not attached is ticked again.
client_gui_detach_device(p, b) ==
  /\ proc[p].kind = "gui" /\ proc[p].pc = "loop" /\ row[p][b] = "ticked"
  /\ row' = [row EXCEPT ![p][b] = "unticked"]
  /\ remote_device_disconnect(p, b)

\* client_gui_disconnect, on the button of a connected client, and
\* client_gui_cleanup begin with remote_device_disconnect_all; the first
\* returns to the message loop.
DisconnectAllStart(p) ==
  /\ proc[p].kind = "gui" /\ proc[p].pc = "loop"
  /\ \E to \in {"exit"} \cup (IF proc[p].connected THEN {"all"} ELSE {}) :
       proc' = [proc EXCEPT ![p].pc = to, ![p].ret = to]
  /\ UNCHANGED <<device, ports, sockets, row, driver>>

remote_device_disconnect_all(p, b) ==
  /\ proc[p].pc \in {"all", "exit"}
  /\ remote_device_disconnect(p, b) /\ UNCHANGED row

DisconnectAllDone(p) ==
  /\ proc[p].pc = "all" /\ Listed(p) = {}
  /\ proc' = [proc EXCEPT ![p].pc = "loop", ![p].ret = "loop", ![p].connected = FALSE]
  /\ row' = [row EXCEPT ![p] = NoRows]
  /\ UNCHANGED <<device, ports, sockets, driver>>

----------------------------------------------------------------------------
(* cmd_attach after a successful connect.                                  *)

\* running is set only now: a signal that came before is forgotten.
Announce(p) ==
  /\ proc[p].pc = "announce"
  /\ proc' = [proc EXCEPT ![p].pc = "attached", ![p].running = TRUE]
  /\ UNCHANGED <<device, ports, sockets, row, driver>>

signal_handler(p) ==
  /\ proc[p].running
  /\ proc' = [proc EXCEPT ![p].running = FALSE]
  /\ UNCHANGED <<device, ports, sockets, row, driver>>

\* Mutation: the loop's condition is inverted.
AttachedEndsInverted(p) ==
  /\ proc[p].running /\ Go(p, "attached", "exit")
  /\ UNCHANGED <<device, ports, sockets, row, driver>>

AttachedEnds(p) ==
  /\ ~proc[p].running /\ Go(p, "attached", "exit")
  /\ UNCHANGED <<device, ports, sockets, row, driver>>

----------------------------------------------------------------------------
(* The other users of sockets.                                             *)

\* remote_server_list_devices, when the GUI client connects or refreshes: a
\* socket of its own, closed on every path.  A refresh clears the rows first.
ListOpen(p) ==
  /\ proc[p].kind = "gui" /\ proc[p].pc \in {"loop", "refresh"}
  /\ \E h \in Handles :
       /\ socket_open(p, h)
       /\ proc' = [proc EXCEPT ![p].pc = "list", ![p].list = h]
  /\ row' = [row EXCEPT ![p] = NoRows]
  /\ UNCHANGED <<device, ports, driver>>

\* There is no connection.
ListOpenFails(p) ==
  /\ proc[p].kind = "gui" /\ proc[p].pc \in {"loop", "refresh"}
  /\ proc' = [proc EXCEPT ![p].pc = "loop"]
  /\ row' = [row EXCEPT ![p] = NoRows]
  /\ UNCHANGED <<device, ports, sockets, driver>>

ListClose(p, to) ==
  /\ proc[p].pc = "list"
  /\ socket_close(p, proc[p].list)
  /\ proc' = [proc EXCEPT ![p].pc = to, ![p].list = None, ![p].connected = @ \/ to = "refresh"]
  /\ UNCHANGED <<device, ports, driver>>

\* client_gui_connect has a list, of which it wants no more than that, and
\* refreshes the rows.
client_gui_connect(p) ==
  /\ ~proc[p].connected /\ ListClose(p, "refresh") /\ UNCHANGED row

\* populate_device_list: a row for every device of the server's list, ticked
\* when the device is attached.
populate_device_list(p, present) ==
  /\ proc[p].connected /\ ListClose(p, "loop")
  /\ row' = [row EXCEPT ![p] = [b \in Busids |->
                IF b \notin present THEN "absent"
                ELSE IF device[p][b].listed THEN "ticked" ELSE "unticked"]]

\* The list did not come.
ListFails(p) == ListClose(p, "loop") /\ UNCHANGED row

\* discovery_thread_func, one at a time: the button is disabled meanwhile.
DiscoveryOpen(p) ==
  /\ proc[p].kind = "gui" /\ proc[p].discovery = None
  /\ \E h \in Handles :
       /\ socket_open(p, h)
       /\ proc' = [proc EXCEPT ![p].discovery = h]
  /\ UNCHANGED <<device, ports, row, driver>>

DiscoveryClose(p) ==
  /\ proc[p].discovery # None
  /\ socket_close(p, proc[p].discovery)
  /\ proc' = [proc EXCEPT ![p].discovery = None]
  /\ UNCHANGED <<device, ports, row, driver>>

\* The server or the network goes away: the driver frees the port by itself.
DriverDrops(k) ==
  /\ driver[k] # None
  /\ driver' = [driver EXCEPT ![k] = None]
  /\ UNCHANGED <<proc, device, ports, sockets, row>>

----------------------------------------------------------------------------
\* The steps of the main thread that wait for the network or the driver.
Connecting(p) ==
  \/ Connect(p) \/ ConnectFails(p) \/ Auth(p) \/ AuthFails(p)
  \/ Import(p) \/ vhci_attach(p) \/ PlugFails(p)
  \/ client_gui_connect(p) \/ ListFails(p)
  \/ \E present \in SUBSET Busids : populate_device_list(p, present)

\* The steps it takes by itself.
Leaving(p) ==
  \/ FreeSocket(p) \/ FreePort(p)
  \/ (\E b \in Busids : remote_device_disconnect_all(p, b))
  \/ DisconnectAllDone(p) \/ Announce(p) \/ AttachedEnds(p) \/ vhci_cleanup(p)

\* The steps the user asks for.
Asked(p) ==
  \/ (\E k \in Ports : cmd_detach(p, k))
  \/ (\E b \in Busids : \/ AttachCommand(p, b)
                         \/ client_gui_attach_device(p, b)
                         \/ client_gui_detach_device(p, b))
  \/ DisconnectAllStart(p) \/ ListOpen(p) \/ ListOpenFails(p) \/ signal_handler(p)

Next ==
  \/ \E p \in Procs : \/ Start(p) \/ Connecting(p) \/ Leaving(p) \/ Asked(p)
                      \/ DiscoveryOpen(p) \/ DiscoveryClose(p)
  \/ \E k \in Ports : DriverDrops(k)

Spec == Init /\ [][Next]_vars

\* The main thread is scheduled.  A receive in a connect has no timeout, so
\* nothing is assumed of the steps that wait.
FairSpec == Spec /\ \A p \in Procs : WF_vars(Leaving(p))

----------------------------------------------------------------------------
(* Properties.                                                             *)

Places == {"none", "loop", "connect", "auth", "import", "plug", "free", "unplug",
           "all", "announce", "attached", "list", "refresh", "exit"}

\* Every variable stays in its range.
TypeOK ==
  /\ proc \in [Procs -> [kind : {"none", "gui", "attach", "detach"}, pc : Places,
                         ret : {"loop", "all", "exit"}, token : BOOLEAN,
                         busid : Busids \cup {None}, running : BOOLEAN,
                         connected : BOOLEAN,
                         list : Handles \cup {None},
                         discovery : Handles \cup {None}]]
  /\ device \in [Procs -> [Busids -> [listed : BOOLEAN, socket : Handles \cup {None},
                                      vhci_port : Ports \cup {NoPort}]]]
  /\ ports \in [Procs -> [Ports -> {"FREE", "CONNECTED", "ERROR"}]]
  /\ sockets \in [Procs -> SUBSET Handles]
  /\ row \in [Procs -> [Busids -> {"absent", "unticked", "ticked"}]]
  /\ driver \in [Ports -> (Procs \X Busids) \cup {None}]

\* A process's table and its devices agree, on every path of a connect that
\* fails and of a disconnect: a listed device has a connected port, no two
\* devices have the same one, and a port that is not free belongs to a device.
PortsAccounted ==
  \A p \in Procs :
    /\ \A b \in Listed(p) : ports[p][device[p][b].vhci_port] = "CONNECTED"
    /\ \A a, b \in Busids :
         a # b /\ device[p][a].vhci_port # NoPort
           => device[p][a].vhci_port # device[p][b].vhci_port
    /\ \A k \in Ports :
         ports[p][k] # "FREE" => \E b \in Busids : device[p][b].vhci_port = k

\* The devices of a process whose sockets are in use.
InUse(p) == {b \in Busids : /\ device[p][b].socket # None
                            /\ ~(proc[p].pc = "free" /\ proc[p].busid = b)}

\* Sockets are neither leaked nor closed under the thread that uses them:
\* what is open belongs to a device, a listing or the discovery thread, and
\* each of these has a handle that is open and its own.
SocketsAccounted ==
  \A p \in Procs :
    LET owners == {device[p][b].socket : b \in InUse(p)}
        others == {proc[p].list, proc[p].discovery} \ {None}
    IN /\ sockets[p] \subseteq {device[p][b].socket : b \in Busids} \cup others
       /\ owners \cup others \subseteq sockets[p]
       /\ owners \cap others = {}
       /\ proc[p].list # None => proc[p].list # proc[p].discovery
       /\ \A a, b \in InUse(p) :
            a # b => device[p][a].socket # device[p][b].socket

\* "Port is available" (VHCI_PORT_FREE): what a process takes for a free port
\* is free in the driver, although the table is never read back from it.
FreeIsAvailable ==
  \A p \in Procs, k \in Ports :
    proc[p].pc # "none" /\ ports[p][k] = "FREE" => driver[k] = None

\* A client that has ended leaves nothing plugged in, whatever it attached,
\* failed to attach, detached or lost before.
ExitUnplugs ==
  \A p \in Procs, k \in Ports, b \in Busids :
    proc[p].pc = "none" => driver[k] # <<p, b>>

\* When the window waits for the user, a row is ticked exactly when its device
\* is attached, after every attach that fails, refresh and reconnect; and a
\* client that is not connected has nothing attached and no rows.
RowsFollowDevices ==
  \A p \in Procs : proc[p].kind = "gui" /\ proc[p].pc = "loop" =>
    /\ \A b \in Busids : row[p][b] # "absent" => (row[p][b] = "ticked" <=> device[p][b].listed)
    /\ ~proc[p].connected => Listed(p) = {} /\ row[p] = NoRows

\* Ctrl+C ends an attach command that waits for it, with the device detached.
InterruptedExits ==
  \A p \in Procs :
    proc[p].pc = "attached" /\ ~proc[p].running ~> proc[p].pc = "none"
=============================================================================
