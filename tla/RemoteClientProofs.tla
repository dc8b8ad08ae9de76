------------------------- MODULE RemoteClientProofs -------------------------
(***************************************************************************)
(* Proofs about RemoteClient, for any processes, devices, socket handles   *)
(* and number of ports.  A process touches only what is its own, and the   *)
(* driver: its invariant is one of its own five variables, r, d, t, s and  *)
(* w below (its record, devices, port table, sockets and rows).            *)
(***************************************************************************)
EXTENDS RemoteClient, WellFoundedInduction, TLAPS

USE ClientAssumption

----------------------------------------------------------------------------
(* Types, and how a step of one process changes the five variables.        *)

Proc == [kind : {"none", "gui", "attach", "detach"}, pc : Places,
         ret : {"loop", "all", "exit"}, token : BOOLEAN,
         busid : Busids \cup {None}, running : BOOLEAN,
         connected : BOOLEAN,
         list : Handles \cup {None},
         discovery : Handles \cup {None}]
Device == [listed : BOOLEAN, socket : Handles \cup {None}, vhci_port : Ports \cup {NoPort}]
DeviceList == [Busids -> Device]
Table == [Ports -> {"FREE", "CONNECTED", "ERROR"}]
Rows == [Busids -> {"absent", "unticked", "ticked"}]
Driver == [Ports -> (Procs \X Busids) \cup {None}]

Types ==
  /\ proc \in [Procs -> Proc] /\ device \in [Procs -> DeviceList]
  /\ ports \in [Procs -> Table] /\ sockets \in [Procs -> SUBSET Handles]
  /\ row \in [Procs -> Rows]

\* Process p's own variables become these.
Becomes(p, r, d, t, s, w) ==
  /\ proc' = [proc EXCEPT ![p] = r] /\ device' = [device EXCEPT ![p] = d]
  /\ ports' = [ports EXCEPT ![p] = t] /\ sockets' = [sockets EXCEPT ![p] = s]
  /\ row' = [row EXCEPT ![p] = w]

\* Assigning a variable the value it has changes nothing.
LEMMA Unchanged ==
  ASSUME Types, NEW p \in Procs
  PROVE  /\ [proc EXCEPT ![p] = proc[p]] = proc
         /\ [device EXCEPT ![p] = device[p]] = device
         /\ [ports EXCEPT ![p] = ports[p]] = ports
         /\ [sockets EXCEPT ![p] = sockets[p]] = sockets
         /\ [row EXCEPT ![p] = row[p]] = row
  BY DEF Types

----------------------------------------------------------------------------
(* The invariant of a process.                                             *)

\* The main thread is at work on one device, or attaching it.
Working == {"connect", "auth", "import", "plug", "free", "unplug"}
Attaching == {"connect", "auth", "import", "plug"}

\* What the place of the thread says about the process.
Control(r) ==
  /\ r.pc = "none" <=> r.kind = "none"
  /\ r.kind # "gui" => /\ r.ret = "exit" /\ r.discovery = None
                       /\ r.pc \notin {"all", "list", "refresh"}
  /\ r.kind = "gui" /\ r.pc \notin {"all", "exit", "free", "unplug"} => r.ret = "loop"
  /\ r.kind = "gui" /\ r.pc \in {"all", "exit"} => r.ret = r.pc
  /\ r.pc \in {"announce", "attached"} => r.kind # "gui"
  /\ r.pc # "list" => r.list = None
  /\ r.pc = "auth" => r.token
  /\ r.kind = "gui" /\ r.token => GuiToken

\* A device that is neither attached nor being worked on is as new.
Devices(r, d) ==
  /\ r.pc \in Working => r.busid \in Busids /\ ~d[r.busid].listed
  /\ \A b \in Busids : \/ d[b].listed
                       \/ r.pc \in Working /\ r.busid = b
                       \/ d[b] = NoDevice
  /\ r.pc = "none" \/ (r.kind # "gui" /\ r.pc = "loop") => \A b \in Busids : ~d[b].listed
  /\ r.pc = "connect" => d[r.busid] = NoDevice
  /\ r.pc \in {"auth", "import"} => d[r.busid].vhci_port = NoPort
  /\ r.pc = "unplug" => d[r.busid].socket = None

\* The table and the devices agree; the port about to be taken is the first
\* free one of the table.
PortTable(r, d, t) ==
  /\ \A b \in Busids :
       d[b].listed => d[b].vhci_port \in Ports /\ t[d[b].vhci_port] = "CONNECTED"
  /\ r.pc = "plug" =>
       /\ d[r.busid].vhci_port \in Ports /\ t[d[r.busid].vhci_port] = "FREE"
       /\ \A k \in Ports : t[k] = "FREE" => d[r.busid].vhci_port <= k
  /\ \A a, b \in Busids :
       a # b /\ d[a].vhci_port # NoPort => d[a].vhci_port # d[b].vhci_port
  /\ \A k \in Ports : t[k] # "FREE" => \E b \in Busids : d[b].vhci_port = k

Agree(d, w, b) == w[b] # "absent" => (w[b] = "ticked" <=> d[b].listed)

\* The rows of the devices nobody works on agree with them.
Window(r, d, w) ==
  /\ r.pc \in {"none", "list", "refresh"} => w = NoRows
  /\ r.kind = "gui" /\ ~r.connected =>
       (\A b \in Busids : ~d[b].listed) /\ w = NoRows /\ r.pc \notin Working
  /\ r.kind = "gui" /\ r.pc = "loop" => \A b \in Busids : Agree(d, w, b)
  /\ r.kind = "gui" /\ r.ret = "loop" /\ r.pc \in Working =>
       /\ \A b \in Busids : b # r.busid => Agree(d, w, b)
       /\ r.pc \in Attaching => w[r.busid] = "ticked"

\* The handles of the listing and of the discovery thread.
Others(r) == {r.list, r.discovery} \ {None}

\* An open handle has one owner, which is the only one to close it; the handle
\* of a failed handshake is closed before its device is freed.
Sockets(r, d, s) ==
  /\ \A h \in s : h \in Others(r) \/ \E b \in Busids : d[b].socket = h
  /\ Others(r) \subseteq s
  /\ r.list # None => r.list # r.discovery
  /\ \A b \in Busids : d[b].socket # None =>
       /\ d[b].socket \notin Others(r)
       /\ \A a \in Busids : a # b => d[a].socket # d[b].socket
       /\ d[b].socket \in s \/ (r.kind # "gui" /\ r.pc = "free" /\ r.busid = b)

Own(r, d, t, s, w) ==
  /\ r \in Proc /\ d \in DeviceList /\ t \in Table /\ s \in SUBSET Handles /\ w \in Rows
  /\ Control(r) /\ Devices(r, d) /\ PortTable(r, d, t) /\ Window(r, d, w)
  /\ GuiToken \/ Sockets(r, d, s)

OwnInv(p) == Own(proc[p], device[p], ports[p], sockets[p], row[p])

ClientInv == Types /\ \A p \in Procs : OwnInv(p)

\* A step of process p keeps the invariant when p's variables become good ones.
LEMMA OwnStep ==
  ASSUME ClientInv, NEW p \in Procs, NEW r, NEW d, NEW t, NEW s, NEW w,
         Becomes(p, r, d, t, s, w), Own(r, d, t, s, w)
  PROVE  ClientInv'
  <1> USE DEF ClientInv, Types, Becomes
  <1>1. Types'
    BY DEF Own
  <1>2. /\ proc'[p] = r /\ device'[p] = d /\ ports'[p] = t /\ sockets'[p] = s /\ row'[p] = w
        /\ \A q \in Procs : q # p =>
             /\ proc'[q] = proc[q] /\ device'[q] = device[q] /\ ports'[q] = ports[q]
             /\ sockets'[q] = sockets[q] /\ row'[q] = row[q]
    OBVIOUS
  <1>3. ASSUME NEW q \in Procs PROVE OwnInv(q)'
    <2>1. CASE q = p
      BY <1>2, <2>1 DEF OwnInv
    <2>2. CASE q # p
      BY <1>2, <2>2 DEF OwnInv
    <2> QED BY <2>1, <2>2
  <1> QED BY <1>1, <1>3

\* A device as it is made by calloc.
LEMMA NoDeviceFacts ==
  /\ NoDevice \in Device /\ ~NoDevice.listed
  /\ NoDevice.socket = None /\ NoDevice.vhci_port = NoPort
  BY DEF NoDevice, Device

\* There is a first port among some ports.
LEMMA FirstFacts ==
  ASSUME NEW K \in SUBSET Ports, K # {}
  PROVE  First(K) \in K /\ \A k \in K : First(K) <= k
  <1> DEFINE less == OpToRel(<, Nat)
  <1>1. K \subseteq Nat
    BY DEF Ports
  <1>2. IsWellFoundedOn(less, Nat)
    BY NatLessThanWellFounded, Zenon
  <1>3. \A j, k \in Nat : <<j, k>> \in less <=> j < k
    BY DEF OpToRel
  <1> HIDE DEF less
  <1>4. PICK k \in K : \A j \in K : <<j, k>> \notin less
    BY <1>1, <1>2, WFMin
  <1>5. ASSUME NEW j \in K PROVE k <= j
    <2>1. j \in Nat /\ k \in Nat /\ ~(j < k)
      BY <1>1, <1>3, <1>4
    <2> QED BY <2>1
  <1> QED BY <1>5 DEF First

----------------------------------------------------------------------------
(* The steps of a process, one by one.                                     *)

\* A process starts with nothing of its own.
LEMMA StartStep ==
  ASSUME ClientInv, NEW p \in Procs, Start(p)
  PROVE  ClientInv'
  <1> DEFINE r == proc[p]
             d == device[p]
             t == ports[p]
             s == sockets[p]
             w == row[p]
  <1>1. Own(r, d, t, s, w)
    BY DEF ClientInv, OwnInv
  <1>a. /\ r \in Proc /\ d \in DeviceList /\ t \in Table /\ s \in SUBSET Handles /\ w \in Rows
        /\ Control(r) /\ Devices(r, d) /\ PortTable(r, d, t) /\ Window(r, d, w)
        /\ GuiToken \/ Sockets(r, d, s)
    BY <1>1 DEF Own
  <1>2. PICK kind \in {"gui", "attach", "detach"}, token \in BOOLEAN :
          /\ r.pc = "none" /\ (kind = "gui" /\ token => GuiToken)
          /\ proc' = [proc EXCEPT ![p] =
               [NoProc EXCEPT !.kind = kind, !.token = token, !.pc = "loop",
                              !.ret = IF kind = "gui" THEN "loop" ELSE "exit"]]
          /\ UNCHANGED <<device, ports, sockets, row>>
    BY DEF Start
  <1> DEFINE r2 == [NoProc EXCEPT !.kind = kind, !.token = token, !.pc = "loop",
                               !.ret = IF kind = "gui" THEN "loop" ELSE "exit"]
  <1>3. Becomes(p, r2, d, t, s, w)
    BY <1>2, Unchanged DEF ClientInv, Types, Becomes
  <1>4. /\ r2 \in Proc /\ r2.pc = "loop" /\ r2.kind = kind
        /\ r2.ret = (IF kind = "gui" THEN "loop" ELSE "exit") /\ r2.token = token
        /\ r2.busid = None /\ r2.connected = FALSE /\ r2.list = None
        /\ r2.discovery = None
    BY <1>2 DEF Proc, Places, NoProc
  <1>e. /\ \A b \in Busids : ~d[b].listed
        /\ r.list = None /\ r.discovery = None
    BY <1>a, <1>2 DEF Devices, Control
  <1> HIDE DEF r, d, t, s, w, r2
  <1>8. Control(r2)
    BY <1>a, <1>2, <1>4, <1>e, NoDeviceFacts DEF Control
  <1>9. Devices(r2, d)
    BY <1>a, <1>2, <1>4, <1>e, NoDeviceFacts DEF Devices, Working
  <1>10. PortTable(r2, d, t)
    BY <1>a, <1>2, <1>4, <1>e, NoDeviceFacts DEF PortTable
  <1>11. Window(r2, d, w)
    BY <1>a, <1>2, <1>4, <1>e, NoDeviceFacts DEF Window, Working, Attaching, Agree, NoRows
  <1>12. GuiToken \/ Sockets(r2, d, s)
    BY <1>a, <1>2, <1>4, <1>e, NoDeviceFacts DEF Sockets, Others
  <1>13. Own(r2, d, t, s, w)
    BY <1>a, <1>4, <1>8, <1>9, <1>10, <1>11, <1>12 DEF Own
  <1> QED BY <1>3, <1>13, OwnStep

\* The table of a detach command is new: there is no port to detach.
LEMMA DetachCommandStep ==
  ASSUME ClientInv, NEW p \in Procs, NEW k \in Ports, cmd_detach(p, k)
  PROVE  ClientInv'
  <1> DEFINE r == proc[p]
             d == device[p]
             t == ports[p]
             s == sockets[p]
             w == row[p]
  <1>1. Own(r, d, t, s, w)
    BY DEF ClientInv, OwnInv
  <1>a. /\ r \in Proc /\ d \in DeviceList /\ t \in Table /\ s \in SUBSET Handles /\ w \in Rows
        /\ Control(r) /\ Devices(r, d) /\ PortTable(r, d, t) /\ Window(r, d, w)
        /\ GuiToken \/ Sockets(r, d, s)
    BY <1>1 DEF Own
  <1>2. /\ r.kind = "detach" /\ r.pc = "loop" /\ proc' = [proc EXCEPT ![p].pc = "exit"]
        /\ t[k] = "FREE" => UNCHANGED ports
        /\ UNCHANGED <<device, sockets, row>>
    BY DEF cmd_detach, Go, vhci_detach
  <1>b. \A b \in Busids : d[b] = NoDevice
    BY <1>a, <1>2 DEF Devices, Working
  <1>c. t[k] = "FREE"
    BY <1>a, <1>b, NoDeviceFacts DEF PortTable, Ports, NoPort
  <1> DEFINE r2 == [r EXCEPT !.pc = "exit"]
  <1>3. Becomes(p, r2, d, t, s, w)
    BY <1>2, Unchanged, <1>c DEF ClientInv, Types, Becomes
  <1>4. /\ r2 \in Proc /\ r2.pc = "exit" /\ r2.kind = r.kind /\ r2.ret = r.ret
        /\ r2.token = r.token /\ r2.busid = r.busid /\ r2.connected = r.connected
        /\ r2.list = r.list /\ r2.discovery = r.discovery
    BY <1>a, <1>2 DEF Proc, Places
  <1> HIDE DEF r, d, t, s, w, r2
  <1>8. Control(r2)
    BY <1>a, <1>2, <1>4, NoDeviceFacts DEF Control
  <1>9. Devices(r2, d)
    BY <1>a, <1>2, <1>4, NoDeviceFacts DEF Devices, Working
  <1>10. PortTable(r2, d, t)
    BY <1>a, <1>2, <1>4, NoDeviceFacts DEF PortTable
  <1>11. Window(r2, d, w)
    BY <1>a, <1>2, <1>4, NoDeviceFacts DEF Window, Working, Attaching, Agree
  <1>12. GuiToken \/ Sockets(r2, d, s)
    BY <1>a, <1>2, <1>4, NoDeviceFacts DEF Sockets, Others
  <1>13. Own(r2, d, t, s, w)
    BY <1>a, <1>4, <1>8, <1>9, <1>10, <1>11, <1>12 DEF Own
  <1> QED BY <1>3, <1>13, OwnStep

\* vhci_cleanup leaves nothing of the process.
LEMMA CleanupStep ==
  ASSUME ClientInv, NEW p \in Procs, vhci_cleanup(p)
  PROVE  ClientInv'
  <1> DEFINE r == proc[p]
             d == device[p]
             t == ports[p]
             s == sockets[p]
             w == row[p]
  <1>1. Own(r, d, t, s, w)
    BY DEF ClientInv, OwnInv
  <1>a. /\ r \in Proc /\ d \in DeviceList /\ t \in Table /\ s \in SUBSET Handles /\ w \in Rows
        /\ Control(r) /\ Devices(r, d) /\ PortTable(r, d, t) /\ Window(r, d, w)
        /\ GuiToken \/ Sockets(r, d, s)
    BY <1>1 DEF Own
  <1>2. /\ r.pc = "exit" /\ Listed(p) = {}
        /\ proc' = [proc EXCEPT ![p] = NoProc] /\ ports' = [ports EXCEPT ![p] = FreePorts]
        /\ sockets' = [sockets EXCEPT ![p] = {}] /\ row' = [row EXCEPT ![p] = NoRows]
        /\ UNCHANGED device
    BY DEF vhci_cleanup
  <1> DEFINE r2 == NoProc
             t2 == FreePorts
             s2 == {}
             w2 == NoRows
  <1>3. Becomes(p, r2, d, t2, s2, w2)
    BY <1>2, Unchanged DEF ClientInv, Types, Becomes
  <1>4. /\ r2 \in Proc /\ r2.pc = "none" /\ r2.kind = "none" /\ r2.ret = "exit"
        /\ r2.token = FALSE /\ r2.busid = None /\ r2.connected = FALSE
        /\ r2.list = None /\ r2.discovery = None
    BY DEF Proc, Places, NoProc
  <1>e. \A b \in Busids : d[b] = NoDevice /\ ~d[b].listed
    <2>1. \A b \in Busids : ~d[b].listed
      BY <1>2 DEF Listed
    <2> QED BY <1>a, <1>2, <2>1 DEF Devices, Working
  <1>6. t2 \in Table /\ \A k \in Ports : t2[k] = "FREE"
    BY DEF FreePorts, Table
  <1>7. w2 \in Rows /\ w2 = NoRows
    BY DEF NoRows, Rows
  <1> HIDE DEF r, d, t, s, w, r2, t2, w2
  <1>8. Control(r2)
    BY <1>a, <1>2, <1>4, <1>e, <1>6, <1>7, NoDeviceFacts DEF Control
  <1>9. Devices(r2, d)
    BY <1>a, <1>2, <1>4, <1>e, <1>6, <1>7, NoDeviceFacts DEF Devices, Working
  <1>10. PortTable(r2, d, t2)
    BY <1>4, <1>e, <1>6, NoDeviceFacts DEF PortTable
  <1>11. Window(r2, d, w2)
    BY <1>a, <1>2, <1>4, <1>e, <1>6, <1>7, NoDeviceFacts DEF Window, Working, Attaching, Agree
  <1>12. GuiToken \/ Sockets(r2, d, s2)
    BY <1>a, <1>2, <1>4, <1>e, <1>6, <1>7, NoDeviceFacts DEF Sockets, Others
  <1>13. Own(r2, d, t2, s2, w2)
    BY <1>a, <1>4, <1>6, <1>7, <1>2, <1>8, <1>9, <1>10, <1>11, <1>12 DEF Own
  <1> QED BY <1>3, <1>13, OwnStep

\* The command's process has no devices yet.
LEMMA AttachCommandStep ==
  ASSUME ClientInv, NEW p \in Procs, NEW b \in Busids, AttachCommand(p, b)
  PROVE  ClientInv'
  <1> DEFINE r == proc[p]
             d == device[p]
             t == ports[p]
             s == sockets[p]
             w == row[p]
  <1>1. Own(r, d, t, s, w)
    BY DEF ClientInv, OwnInv
  <1>a. /\ r \in Proc /\ d \in DeviceList /\ t \in Table /\ s \in SUBSET Handles /\ w \in Rows
        /\ Control(r) /\ Devices(r, d) /\ PortTable(r, d, t) /\ Window(r, d, w)
        /\ GuiToken \/ Sockets(r, d, s)
    BY <1>1 DEF Own
  <1>2. /\ r.kind = "attach" /\ r.pc = "loop"
        /\ proc' = [proc EXCEPT ![p].pc = "connect", ![p].busid = b]
        /\ UNCHANGED <<device, ports, sockets, row>>
    BY DEF AttachCommand
  <1> DEFINE r2 == [r EXCEPT !.pc = "connect", !.busid = b]
  <1>3. Becomes(p, r2, d, t, s, w)
    BY <1>2, Unchanged DEF ClientInv, Types, Becomes
  <1>4. /\ r2 \in Proc /\ r2.pc = "connect" /\ r2.kind = r.kind /\ r2.ret = r.ret
        /\ r2.token = r.token /\ r2.busid = b /\ r2.connected = r.connected
        /\ r2.list = r.list /\ r2.discovery = r.discovery
    BY <1>a, <1>2 DEF Proc, Places
  <1> HIDE DEF r, d, t, s, w, r2
  <1>8. Control(r2)
    BY <1>a, <1>2, <1>4, NoDeviceFacts DEF Control
  <1>9. Devices(r2, d)
    BY <1>a, <1>2, <1>4, NoDeviceFacts DEF Devices, Working
  <1>10. PortTable(r2, d, t)
    BY <1>a, <1>2, <1>4, NoDeviceFacts DEF PortTable
  <1>11. Window(r2, d, w)
    BY <1>a, <1>2, <1>4, NoDeviceFacts DEF Window, Working, Attaching, Agree
  <1>12. GuiToken \/ Sockets(r2, d, s)
    BY <1>a, <1>2, <1>4, NoDeviceFacts DEF Sockets, Others
  <1>13. Own(r2, d, t, s, w)
    BY <1>a, <1>4, <1>8, <1>9, <1>10, <1>11, <1>12 DEF Own
  <1> QED BY <1>3, <1>13, OwnStep

\* Ticking a row starts the attach of a device that is not attached.
LEMMA AttachDeviceStep ==
  ASSUME ClientInv, NEW p \in Procs, NEW b \in Busids, client_gui_attach_device(p, b)
  PROVE  ClientInv'
  <1> DEFINE r == proc[p]
             d == device[p]
             t == ports[p]
             s == sockets[p]
             w == row[p]
  <1>1. Own(r, d, t, s, w)
    BY DEF ClientInv, OwnInv
  <1>a. /\ r \in Proc /\ d \in DeviceList /\ t \in Table /\ s \in SUBSET Handles /\ w \in Rows
        /\ Control(r) /\ Devices(r, d) /\ PortTable(r, d, t) /\ Window(r, d, w)
        /\ GuiToken \/ Sockets(r, d, s)
    BY <1>1 DEF Own
  <1>2. /\ r.kind = "gui" /\ r.pc = "loop" /\ w[b] = "unticked" /\ ~d[b].listed
        /\ row' = [row EXCEPT ![p][b] = "ticked"]
        /\ proc' = [proc EXCEPT ![p].pc = "connect", ![p].busid = b]
        /\ UNCHANGED <<device, ports, sockets>>
    BY DEF client_gui_attach_device
  <1> DEFINE r2 == [r EXCEPT !.pc = "connect", !.busid = b]
             w2 == [w EXCEPT ![b] = "ticked"]
  <1>3. Becomes(p, r2, d, t, s, w2)
    BY <1>2, Unchanged DEF ClientInv, Types, Becomes
  <1>4. /\ r2 \in Proc /\ r2.pc = "connect" /\ r2.kind = r.kind /\ r2.ret = r.ret
        /\ r2.token = r.token /\ r2.busid = b /\ r2.connected = r.connected
        /\ r2.list = r.list /\ r2.discovery = r.discovery
    BY <1>a, <1>2 DEF Proc, Places
  <1>e. r.connected
    <2>1. w # NoRows
      BY <1>2 DEF NoRows
    <2> QED BY <1>a, <1>2, <2>1 DEF Window, Proc
  <1>7. w2 \in Rows /\ w2[b] = "ticked" /\ \A c \in Busids : c # b => w2[c] = w[c]
    BY <1>a DEF Rows
  <1> HIDE DEF r, d, t, s, w, r2, w2
  <1>8. Control(r2)
    BY <1>a, <1>2, <1>4, <1>e, <1>7, NoDeviceFacts DEF Control
  <1>9. Devices(r2, d)
    BY <1>a, <1>2, <1>4, <1>e, <1>7, NoDeviceFacts DEF Devices, Working
  <1>10. PortTable(r2, d, t)
    BY <1>a, <1>2, <1>4, <1>e, <1>7, NoDeviceFacts DEF PortTable
  <1>11. Window(r2, d, w2)
    BY <1>a, <1>2, <1>4, <1>e, <1>7, NoDeviceFacts DEF Window, Working, Attaching, Agree
  <1>12. GuiToken \/ Sockets(r2, d, s)
    BY <1>a, <1>2, <1>4, <1>e, <1>7, NoDeviceFacts DEF Sockets, Others
  <1>13. Own(r2, d, t, s, w2)
    BY <1>a, <1>4, <1>7, <1>8, <1>9, <1>10, <1>11, <1>12 DEF Own
  <1> QED BY <1>3, <1>13, OwnStep

\* The socket of the connection is the device's.
LEMMA ConnectStep ==
  ASSUME ClientInv, NEW p \in Procs, Connect(p)
  PROVE  ClientInv'
  <1> DEFINE r == proc[p]
             d == device[p]
             t == ports[p]
             s == sockets[p]
             w == row[p]
  <1>1. Own(r, d, t, s, w)
    BY DEF ClientInv, OwnInv
  <1>a. /\ r \in Proc /\ d \in DeviceList /\ t \in Table /\ s \in SUBSET Handles /\ w \in Rows
        /\ Control(r) /\ Devices(r, d) /\ PortTable(r, d, t) /\ Window(r, d, w)
        /\ GuiToken \/ Sockets(r, d, s)
    BY <1>1 DEF Own
  <1>2. PICK to \in AfterConnect(p), h \in Handles \ s :
          /\ r.pc = "connect" /\ proc' = [proc EXCEPT ![p].pc = to]
          /\ sockets' = [sockets EXCEPT ![p] = @ \cup {h}]
          /\ device' = [device EXCEPT ![p][proc[p].busid].socket = h]
          /\ UNCHANGED <<ports, row>>
    BY DEF Connect, Go, socket_open
  <1>b. /\ to \in {"auth", "import"} /\ (to = "auth" => r.token) /\ h # None
        /\ r.busid \in Busids /\ d[r.busid] = NoDevice
    BY <1>a, <1>2 DEF AfterConnect, Proc, Devices, Working
  <1> DEFINE r2 == [r EXCEPT !.pc = to]
             d2 == [d EXCEPT ![r.busid].socket = h]
             s2 == s \cup {h}
  <1>3. Becomes(p, r2, d2, t, s2, w)
    BY <1>2, Unchanged DEF ClientInv, Types, Becomes
  <1>4. /\ r2 \in Proc /\ r2.pc = to /\ r2.kind = r.kind /\ r2.ret = r.ret
        /\ r2.token = r.token /\ r2.busid = r.busid /\ r2.connected = r.connected
        /\ r2.list = r.list /\ r2.discovery = r.discovery
    BY <1>a, <1>2, <1>b DEF Proc, Places
  <1>5. /\ d2 \in DeviceList /\ d2[r.busid].socket = h
        /\ d2[r.busid].listed = d[r.busid].listed
        /\ d2[r.busid].vhci_port = d[r.busid].vhci_port
        /\ \A b \in Busids : b # r.busid => d2[b] = d[b]
    BY <1>a, <1>b DEF DeviceList, Device
  <1> HIDE DEF r, d, t, s, w, r2, d2
  <1>8. Control(r2)
    BY <1>a, <1>2, <1>4, <1>b, <1>5, NoDeviceFacts DEF Control
  <1>9. Devices(r2, d2)
    BY <1>a, <1>2, <1>4, <1>b, <1>5, NoDeviceFacts DEF Devices, Working
  <1>10. PortTable(r2, d2, t)
    BY <1>a, <1>2, <1>4, <1>b, <1>5, NoDeviceFacts DEF PortTable
  <1>11. Window(r2, d2, w)
    BY <1>a, <1>2, <1>4, <1>b, <1>5, NoDeviceFacts DEF Window, Working, Attaching, Agree
  <1>12. GuiToken \/ Sockets(r2, d2, s2)
    BY <1>a, <1>2, <1>4, <1>b, <1>5, NoDeviceFacts DEF Sockets, Others
  <1>13. Own(r2, d2, t, s2, w)
    BY <1>a, <1>4, <1>5, <1>2, <1>8, <1>9, <1>10, <1>11, <1>12 DEF Own
  <1> QED BY <1>3, <1>13, OwnStep

\* A connect that fails goes on to free_remote_device.
LEMMA ConnectFailsStep ==
  ASSUME ClientInv, NEW p \in Procs, ConnectFails(p)
  PROVE  ClientInv'
  <1> DEFINE r == proc[p]
             d == device[p]
             t == ports[p]
             s == sockets[p]
             w == row[p]
  <1>1. Own(r, d, t, s, w)
    BY DEF ClientInv, OwnInv
  <1>a. /\ r \in Proc /\ d \in DeviceList /\ t \in Table /\ s \in SUBSET Handles /\ w \in Rows
        /\ Control(r) /\ Devices(r, d) /\ PortTable(r, d, t) /\ Window(r, d, w)
        /\ GuiToken \/ Sockets(r, d, s)
    BY <1>1 DEF Own
  <1>2. /\ r.pc \in {"connect", "import"} /\ proc' = [proc EXCEPT ![p].pc = "free"]
        /\ UNCHANGED <<device, ports, sockets, row>>
    BY DEF ConnectFails, Go
  <1> DEFINE r2 == [r EXCEPT !.pc = "free"]
  <1>3. Becomes(p, r2, d, t, s, w)
    BY <1>2, Unchanged DEF ClientInv, Types, Becomes
  <1>4. /\ r2 \in Proc /\ r2.pc = "free" /\ r2.kind = r.kind /\ r2.ret = r.ret
        /\ r2.token = r.token /\ r2.busid = r.busid /\ r2.connected = r.connected
        /\ r2.list = r.list /\ r2.discovery = r.discovery
    BY <1>a, <1>2 DEF Proc, Places
  <1> HIDE DEF r, d, t, s, w, r2
  <1>8. Control(r2)
    BY <1>a, <1>2, <1>4, NoDeviceFacts DEF Control
  <1>9. Devices(r2, d)
    BY <1>a, <1>2, <1>4, NoDeviceFacts DEF Devices, Working
  <1>10. PortTable(r2, d, t)
    BY <1>a, <1>2, <1>4, NoDeviceFacts DEF PortTable
  <1>11. Window(r2, d, w)
    BY <1>a, <1>2, <1>4, NoDeviceFacts DEF Window, Working, Attaching, Agree
  <1>12. GuiToken \/ Sockets(r2, d, s)
    BY <1>a, <1>2, <1>4, NoDeviceFacts DEF Sockets, Others
  <1>13. Own(r2, d, t, s, w)
    BY <1>a, <1>4, <1>8, <1>9, <1>10, <1>11, <1>12 DEF Own
  <1> QED BY <1>3, <1>13, OwnStep

\* The handshake changes nothing of the device.
LEMMA AuthStep ==
  ASSUME ClientInv, NEW p \in Procs, Auth(p)
  PROVE  ClientInv'
  <1> DEFINE r == proc[p]
             d == device[p]
             t == ports[p]
             s == sockets[p]
             w == row[p]
  <1>1. Own(r, d, t, s, w)
    BY DEF ClientInv, OwnInv
  <1>a. /\ r \in Proc /\ d \in DeviceList /\ t \in Table /\ s \in SUBSET Handles /\ w \in Rows
        /\ Control(r) /\ Devices(r, d) /\ PortTable(r, d, t) /\ Window(r, d, w)
        /\ GuiToken \/ Sockets(r, d, s)
    BY <1>1 DEF Own
  <1>2. /\ r.pc = "auth" /\ proc' = [proc EXCEPT ![p].pc = "import"]
        /\ UNCHANGED <<device, ports, sockets, row>>
    BY DEF Auth, Go
  <1> DEFINE r2 == [r EXCEPT !.pc = "import"]
  <1>3. Becomes(p, r2, d, t, s, w)
    BY <1>2, Unchanged DEF ClientInv, Types, Becomes
  <1>4. /\ r2 \in Proc /\ r2.pc = "import" /\ r2.kind = r.kind /\ r2.ret = r.ret
        /\ r2.token = r.token /\ r2.busid = r.busid /\ r2.connected = r.connected
        /\ r2.list = r.list /\ r2.discovery = r.discovery
    BY <1>a, <1>2 DEF Proc, Places
  <1> HIDE DEF r, d, t, s, w, r2
  <1>8. Control(r2)
    BY <1>a, <1>2, <1>4, NoDeviceFacts DEF Control
  <1>9. Devices(r2, d)
    BY <1>a, <1>2, <1>4, NoDeviceFacts DEF Devices, Working
  <1>10. PortTable(r2, d, t)
    BY <1>a, <1>2, <1>4, NoDeviceFacts DEF PortTable
  <1>11. Window(r2, d, w)
    BY <1>a, <1>2, <1>4, NoDeviceFacts DEF Window, Working, Attaching, Agree
  <1>12. GuiToken \/ Sockets(r2, d, s)
    BY <1>a, <1>2, <1>4, NoDeviceFacts DEF Sockets, Others
  <1>13. Own(r2, d, t, s, w)
    BY <1>a, <1>4, <1>8, <1>9, <1>10, <1>11, <1>12 DEF Own
  <1> QED BY <1>3, <1>13, OwnStep

\* The socket of a failed handshake is closed and the device still names it; in
\* a process without another thread no socket is opened meanwhile.
LEMMA AuthFailsStep ==
  ASSUME ClientInv, NEW p \in Procs, AuthFails(p)
  PROVE  ClientInv'
  <1> DEFINE r == proc[p]
             d == device[p]
             t == ports[p]
             s == sockets[p]
             w == row[p]
  <1>1. Own(r, d, t, s, w)
    BY DEF ClientInv, OwnInv
  <1>a. /\ r \in Proc /\ d \in DeviceList /\ t \in Table /\ s \in SUBSET Handles /\ w \in Rows
        /\ Control(r) /\ Devices(r, d) /\ PortTable(r, d, t) /\ Window(r, d, w)
        /\ GuiToken \/ Sockets(r, d, s)
    BY <1>1 DEF Own
  <1>2. /\ r.pc = "auth" /\ proc' = [proc EXCEPT ![p].pc = "free"]
        /\ sockets' = [sockets EXCEPT ![p] = @ \ {Dev(p).socket}]
        /\ UNCHANGED <<device, ports, row>>
    BY DEF AuthFails, Go, socket_close
  <1> DEFINE r2 == [r EXCEPT !.pc = "free"]
             s2 == s \ {d[r.busid].socket}
  <1>3. Becomes(p, r2, d, t, s2, w)
    BY <1>2, Unchanged DEF ClientInv, Types, Becomes, Dev
  <1>4. /\ r2 \in Proc /\ r2.pc = "free" /\ r2.kind = r.kind /\ r2.ret = r.ret
        /\ r2.token = r.token /\ r2.busid = r.busid /\ r2.connected = r.connected
        /\ r2.list = r.list /\ r2.discovery = r.discovery
    BY <1>a, <1>2 DEF Proc, Places
  <1>e. r.busid \in Busids /\ (GuiToken \/ r.kind # "gui")
    BY <1>a, <1>2 DEF Devices, Working, Control
  <1> HIDE DEF r, d, t, s, w, r2
  <1>8. Control(r2)
    BY <1>a, <1>2, <1>4, <1>e, NoDeviceFacts DEF Control
  <1>9. Devices(r2, d)
    BY <1>a, <1>2, <1>4, <1>e, NoDeviceFacts DEF Devices, Working
  <1>10. PortTable(r2, d, t)
    BY <1>a, <1>2, <1>4, <1>e, NoDeviceFacts DEF PortTable
  <1>11. Window(r2, d, w)
    BY <1>a, <1>2, <1>4, <1>e, NoDeviceFacts DEF Window, Working, Attaching, Agree
  <1>12. GuiToken \/ Sockets(r2, d, s2)
    BY <1>a, <1>2, <1>4, <1>e, NoDeviceFacts DEF Sockets, Others
  <1>13. Own(r2, d, t, s2, w)
    BY <1>a, <1>4, <1>2, <1>8, <1>9, <1>10, <1>11, <1>12 DEF Own
  <1> QED BY <1>3, <1>13, OwnStep

\* The device takes a port of the table that no other device has.
LEMMA ImportStep ==
  ASSUME ClientInv, NEW p \in Procs, Import(p)
  PROVE  ClientInv'
  <1> DEFINE r == proc[p]
             d == device[p]
             t == ports[p]
             s == sockets[p]
             w == row[p]
             K == {k \in Ports : t[k] = "FREE"}
  <1>1. Own(r, d, t, s, w)
    BY DEF ClientInv, OwnInv
  <1>a. /\ r \in Proc /\ d \in DeviceList /\ t \in Table /\ s \in SUBSET Handles /\ w \in Rows
        /\ Control(r) /\ Devices(r, d) /\ PortTable(r, d, t) /\ Window(r, d, w)
        /\ GuiToken \/ Sockets(r, d, s)
    BY <1>1 DEF Own
  <1>2. /\ r.pc = "import"
        /\ proc' = [proc EXCEPT ![p].pc = IF K = {} THEN "free" ELSE "plug"]
        /\ device' = [device EXCEPT ![p][proc[p].busid].vhci_port =
                                       IF K = {} THEN NoPort ELSE First(K)]
        /\ UNCHANGED <<ports, sockets, row>>
    BY DEF Import, Go, vhci_find_free_port
  <1>b. /\ r.busid \in Busids /\ ~d[r.busid].listed
        /\ \A k \in K : k \in Ports /\ t[k] = "FREE"
        /\ K # {} => First(K) \in K /\ \A k \in K : First(K) <= k
    <2>1. r.busid \in Busids /\ ~d[r.busid].listed
      BY <1>a, <1>2 DEF Devices, Working
    <2>2. K \in SUBSET Ports
      OBVIOUS
    <2> HIDE DEF K
    <2>3. K # {} => First(K) \in K /\ \A k \in K : First(K) <= k
      BY <2>2, FirstFacts
    <2> QED BY <2>1, <2>2, <2>3 DEF K
  <1> DEFINE r2 == [r EXCEPT !.pc = IF K = {} THEN "free" ELSE "plug"]
             d2 == [d EXCEPT ![r.busid].vhci_port = IF K = {} THEN NoPort ELSE First(K)]
  <1>3. Becomes(p, r2, d2, t, s, w)
    BY <1>2, Unchanged DEF ClientInv, Types, Becomes
  <1>4. /\ r2 \in Proc /\ r2.pc = (IF K = {} THEN "free" ELSE "plug")
        /\ r2.kind = r.kind /\ r2.ret = r.ret /\ r2.token = r.token
        /\ r2.busid = r.busid /\ r2.connected = r.connected /\ r2.list = r.list
        /\ r2.discovery = r.discovery
    BY <1>a, <1>2 DEF Proc, Places
  <1>e. /\ r.busid \in Busids /\ ~d[r.busid].listed
        /\ K # {} => /\ First(K) \in Ports /\ t[First(K)] = "FREE" /\ First(K) # NoPort
                     /\ \A k \in Ports : t[k] = "FREE" => First(K) <= k
    BY <1>b DEF Ports, NoPort
  <1>5. /\ d2 \in DeviceList /\ d2[r.busid].vhci_port = (IF K = {} THEN NoPort ELSE First(K))
        /\ d2[r.busid].listed = d[r.busid].listed
        /\ d2[r.busid].socket = d[r.busid].socket
        /\ \A b \in Busids : b # r.busid => d2[b] = d[b]
    BY <1>a, <1>b DEF DeviceList, Device
  <1> HIDE DEF K, r, d, t, s, w, r2, d2
  <1>8. Control(r2)
    BY <1>a, <1>2, <1>4, <1>e, <1>5, NoDeviceFacts DEF Control
  <1>9. Devices(r2, d2)
    BY <1>a, <1>2, <1>4, <1>e, <1>5, NoDeviceFacts DEF Devices, Working
  <1>10. PortTable(r2, d2, t)
    <2>1. \A a \in Busids : a # r.busid => \/ d[a].vhci_port = NoPort
                                           \/ t[d[a].vhci_port] = "CONNECTED"
      BY <1>a, <1>2, NoDeviceFacts DEF Devices, PortTable
    <2>2. \A a \in Busids :
            d2[a].listed => d2[a].vhci_port \in Ports /\ t[d2[a].vhci_port] = "CONNECTED"
      BY <1>a, <1>e, <1>5 DEF PortTable
    <2>3. r2.pc = "plug" =>
            /\ d2[r2.busid].vhci_port \in Ports /\ t[d2[r2.busid].vhci_port] = "FREE"
            /\ \A k \in Ports : t[k] = "FREE" => d2[r2.busid].vhci_port <= k
      BY <1>4, <1>e, <1>5
    <2>4. ASSUME NEW a \in Busids, NEW c \in Busids, a # c, d2[a].vhci_port # NoPort
          PROVE  d2[a].vhci_port # d2[c].vhci_port
      <3>1. CASE a # r.busid /\ c # r.busid
        BY <1>a, <1>5, <2>4, <3>1 DEF PortTable
      <3>2. CASE a = r.busid \/ c = r.busid
        BY <1>e, <1>5, <2>1, <2>4, <3>2
      <3> QED BY <3>1, <3>2
    <2>5. ASSUME NEW k \in Ports, t[k] # "FREE"
          PROVE  \E c \in Busids : d2[c].vhci_port = k
      <3>1. PICK c \in Busids : d[c].vhci_port = k
        BY <1>a, <2>5 DEF PortTable
      <3>2. d[r.busid].vhci_port = NoPort /\ k # NoPort
        BY <1>a, <1>2 DEF Devices, Ports, NoPort
      <3> QED BY <1>5, <3>1, <3>2
    <2> QED BY <2>2, <2>3, <2>4, <2>5 DEF PortTable
  <1>11. Window(r2, d2, w)
    BY <1>a, <1>2, <1>4, <1>e, <1>5, NoDeviceFacts DEF Window, Working, Attaching, Agree
  <1>12. GuiToken \/ Sockets(r2, d2, s)
    BY <1>a, <1>2, <1>4, <1>e, <1>5, NoDeviceFacts DEF Sockets, Others
  <1>13. Own(r2, d2, t, s, w)
    BY <1>a, <1>4, <1>5, <1>8, <1>9, <1>10, <1>11, <1>12 DEF Own
  <1> QED BY <1>3, <1>13, OwnStep

\* The port becomes the device's in the table, and the device is in the list.
LEMMA AttachStep ==
  ASSUME ClientInv, NEW p \in Procs, vhci_attach(p)
  PROVE  ClientInv'
  <1> DEFINE r == proc[p]
             d == device[p]
             t == ports[p]
             s == sockets[p]
             w == row[p]
  <1>1. Own(r, d, t, s, w)
    BY DEF ClientInv, OwnInv
  <1>a. /\ r \in Proc /\ d \in DeviceList /\ t \in Table /\ s \in SUBSET Handles /\ w \in Rows
        /\ Control(r) /\ Devices(r, d) /\ PortTable(r, d, t) /\ Window(r, d, w)
        /\ GuiToken \/ Sockets(r, d, s)
    BY <1>1 DEF Own
  <1>2. /\ r.pc = "plug"
        /\ proc' = [proc EXCEPT ![p].pc = IF proc[p].kind = "gui" THEN "loop" ELSE "announce"]
        /\ ports' = [ports EXCEPT ![p][Dev(p).vhci_port] = "CONNECTED"]
        /\ device' = [device EXCEPT ![p][proc[p].busid].listed = TRUE]
        /\ UNCHANGED <<sockets, row>>
    BY DEF vhci_attach, Go
  <1> DEFINE r2 == [r EXCEPT !.pc = IF r.kind = "gui" THEN "loop" ELSE "announce"]
             d2 == [d EXCEPT ![r.busid].listed = TRUE]
             t2 == [t EXCEPT ![d[r.busid].vhci_port] = "CONNECTED"]
  <1>3. Becomes(p, r2, d2, t2, s, w)
    BY <1>2, Unchanged DEF ClientInv, Types, Becomes, Dev
  <1>4. /\ r2 \in Proc /\ r2.pc = (IF r.kind = "gui" THEN "loop" ELSE "announce")
        /\ r2.kind = r.kind /\ r2.ret = r.ret /\ r2.token = r.token
        /\ r2.busid = r.busid /\ r2.connected = r.connected /\ r2.list = r.list
        /\ r2.discovery = r.discovery
    BY <1>a, <1>2 DEF Proc, Places
  <1>e. r.busid \in Busids /\ d[r.busid].vhci_port \in Ports /\ d[r.busid].vhci_port # NoPort
    BY <1>a, <1>2 DEF Devices, Working, PortTable, Ports, NoPort
  <1>5. /\ d2 \in DeviceList /\ d2[r.busid].listed
        /\ d2[r.busid].vhci_port = d[r.busid].vhci_port
        /\ d2[r.busid].socket = d[r.busid].socket
        /\ \A b \in Busids : b # r.busid => d2[b] = d[b]
    BY <1>a, <1>e DEF DeviceList, Device
  <1>6. /\ t2 \in Table /\ t2[d[r.busid].vhci_port] = "CONNECTED"
        /\ \A k \in Ports : k # d[r.busid].vhci_port => t2[k] = t[k]
    BY <1>a, <1>e DEF Table
  <1> HIDE DEF r, d, t, s, w, r2, d2, t2
  <1>8. Control(r2)
    BY <1>a, <1>2, <1>4, <1>e, <1>5, <1>6, NoDeviceFacts DEF Control
  <1>9. Devices(r2, d2)
    BY <1>a, <1>2, <1>4, <1>e, <1>5, <1>6, NoDeviceFacts DEF Devices, Working
  <1>10. PortTable(r2, d2, t2)
    <2>1. \A a \in Busids : d2[a].vhci_port = d[a].vhci_port
      BY <1>5
    <2>2. ASSUME NEW a \in Busids, d2[a].listed
          PROVE  d2[a].vhci_port \in Ports /\ t2[d2[a].vhci_port] = "CONNECTED"
      <3>1. CASE a = r.busid
        BY <1>e, <1>6, <2>1, <3>1
      <3>2. CASE a # r.busid
        <4>1. d[a].vhci_port \in Ports /\ t[d[a].vhci_port] = "CONNECTED"
          BY <1>a, <1>5, <2>2, <3>2 DEF PortTable
        <4> QED BY <1>6, <2>1, <4>1
      <3> QED BY <3>1, <3>2
    <2>3. r2.pc # "plug"
      BY <1>4
    <2>4. \A a, c \in Busids :
            a # c /\ d2[a].vhci_port # NoPort => d2[a].vhci_port # d2[c].vhci_port
      BY <1>a, <2>1 DEF PortTable
    <2>5. ASSUME NEW k \in Ports, t2[k] # "FREE"
          PROVE  \E c \in Busids : d2[c].vhci_port = k
      BY <1>a, <1>e, <1>6, <2>1, <2>5 DEF PortTable
    <2> QED BY <2>2, <2>3, <2>4, <2>5 DEF PortTable
  <1>11. Window(r2, d2, w)
    <2>1. r.kind = "gui" => /\ r.connected /\ r.ret = "loop" /\ w[r.busid] = "ticked"
                            /\ \A a \in Busids : a # r.busid => Agree(d, w, a)
      BY <1>a, <1>2 DEF Control, Window, Working, Attaching
    <2>2. r.kind = "gui" => \A a \in Busids : Agree(d2, w, a)
      BY <1>5, <2>1 DEF Agree
    <2> QED BY <1>4, <2>1, <2>2 DEF Window, Working
  <1>12. GuiToken \/ Sockets(r2, d2, s)
    BY <1>a, <1>2, <1>4, <1>e, <1>5, <1>6, NoDeviceFacts DEF Sockets, Others
  <1>13. Own(r2, d2, t2, s, w)
    BY <1>a, <1>4, <1>5, <1>6, <1>8, <1>9, <1>10, <1>11, <1>12 DEF Own
  <1> QED BY <1>3, <1>13, OwnStep

\* A port the driver refused is not free any more, and is the device's.
LEMMA PlugFailsStep ==
  ASSUME ClientInv, NEW p \in Procs, PlugFails(p)
  PROVE  ClientInv'
  <1> DEFINE r == proc[p]
             d == device[p]
             t == ports[p]
             s == sockets[p]
             w == row[p]
  <1>1. Own(r, d, t, s, w)
    BY DEF ClientInv, OwnInv
  <1>a. /\ r \in Proc /\ d \in DeviceList /\ t \in Table /\ s \in SUBSET Handles /\ w \in Rows
        /\ Control(r) /\ Devices(r, d) /\ PortTable(r, d, t) /\ Window(r, d, w)
        /\ GuiToken \/ Sockets(r, d, s)
    BY <1>1 DEF Own
  <1>2. /\ r.pc = "plug" /\ proc' = [proc EXCEPT ![p].pc = "free"]
        /\ ports' = [ports EXCEPT ![p][Dev(p).vhci_port] = "ERROR"]
        /\ UNCHANGED <<device, sockets, row>>
    BY DEF PlugFails, Go
  <1> DEFINE r2 == [r EXCEPT !.pc = "free"]
             t2 == [t EXCEPT ![d[r.busid].vhci_port] = "ERROR"]
  <1>3. Becomes(p, r2, d, t2, s, w)
    BY <1>2, Unchanged DEF ClientInv, Types, Becomes, Dev
  <1>4. /\ r2 \in Proc /\ r2.pc = "free" /\ r2.kind = r.kind /\ r2.ret = r.ret
        /\ r2.token = r.token /\ r2.busid = r.busid /\ r2.connected = r.connected
        /\ r2.list = r.list /\ r2.discovery = r.discovery
    BY <1>a, <1>2 DEF Proc, Places
  <1>e. r.busid \in Busids /\ d[r.busid].vhci_port \in Ports /\ d[r.busid].vhci_port # NoPort
    BY <1>a, <1>2 DEF Devices, Working, PortTable, Ports, NoPort
  <1>6. /\ t2 \in Table /\ \A k \in Ports : k # d[r.busid].vhci_port => t2[k] = t[k]
    BY <1>a, <1>e DEF Table
  <1> HIDE DEF r, d, t, s, w, r2, t2
  <1>8. Control(r2)
    BY <1>a, <1>2, <1>4, <1>e, <1>6, NoDeviceFacts DEF Control
  <1>9. Devices(r2, d)
    BY <1>a, <1>2, <1>4, <1>e, <1>6, NoDeviceFacts DEF Devices, Working
  <1>10. PortTable(r2, d, t2)
    BY <1>a, <1>2, <1>4, <1>e, <1>6, NoDeviceFacts DEF PortTable
  <1>11. Window(r2, d, w)
    BY <1>a, <1>2, <1>4, <1>e, <1>6, NoDeviceFacts DEF Window, Working, Attaching, Agree
  <1>12. GuiToken \/ Sockets(r2, d, s)
    BY <1>a, <1>2, <1>4, <1>e, <1>6, NoDeviceFacts DEF Sockets, Others
  <1>13. Own(r2, d, t2, s, w)
    BY <1>a, <1>4, <1>6, <1>8, <1>9, <1>10, <1>11, <1>12 DEF Own
  <1> QED BY <1>3, <1>13, OwnStep

\* The device's socket is closed, and nobody else's.
LEMMA FreeSocketStep ==
  ASSUME ClientInv, NEW p \in Procs, FreeSocket(p)
  PROVE  ClientInv'
  <1> DEFINE r == proc[p]
             d == device[p]
             t == ports[p]
             s == sockets[p]
             w == row[p]
  <1>1. Own(r, d, t, s, w)
    BY DEF ClientInv, OwnInv
  <1>a. /\ r \in Proc /\ d \in DeviceList /\ t \in Table /\ s \in SUBSET Handles /\ w \in Rows
        /\ Control(r) /\ Devices(r, d) /\ PortTable(r, d, t) /\ Window(r, d, w)
        /\ GuiToken \/ Sockets(r, d, s)
    BY <1>1 DEF Own
  <1>2. /\ r.pc = "free" /\ proc' = [proc EXCEPT ![p].pc = "unplug"]
        /\ IF Dev(p).socket = None THEN UNCHANGED sockets
           ELSE sockets' = [sockets EXCEPT ![p] = @ \ {Dev(p).socket}]
        /\ device' = [device EXCEPT ![p][proc[p].busid].socket = None]
        /\ UNCHANGED <<ports, row>>
    BY DEF FreeSocket, Go, socket_close
  <1>b. sockets' = [sockets EXCEPT ![p] = s \ {d[r.busid].socket}]
    <2>1. CASE d[r.busid].socket = None
      <3>1. s \ {d[r.busid].socket} = s
        BY <1>a, <2>1
      <3> QED BY <1>2, <2>1, <3>1, Unchanged DEF Dev, ClientInv
    <2>2. CASE d[r.busid].socket # None
      BY <1>2, <2>2 DEF Dev, ClientInv, Types
    <2> QED BY <2>1, <2>2
  <1> DEFINE r2 == [r EXCEPT !.pc = "unplug"]
             d2 == [d EXCEPT ![r.busid].socket = None]
             s2 == s \ {d[r.busid].socket}
  <1>3. Becomes(p, r2, d2, t, s2, w)
    BY <1>2, Unchanged, <1>b DEF ClientInv, Types, Becomes
  <1>4. /\ r2 \in Proc /\ r2.pc = "unplug" /\ r2.kind = r.kind /\ r2.ret = r.ret
        /\ r2.token = r.token /\ r2.busid = r.busid /\ r2.connected = r.connected
        /\ r2.list = r.list /\ r2.discovery = r.discovery
    BY <1>a, <1>2 DEF Proc, Places
  <1>e. r.busid \in Busids
    BY <1>a, <1>2 DEF Devices, Working
  <1>5. /\ d2 \in DeviceList /\ d2[r.busid].socket = None
        /\ d2[r.busid].vhci_port = d[r.busid].vhci_port
        /\ d2[r.busid].listed = d[r.busid].listed
        /\ \A b \in Busids : b # r.busid => d2[b] = d[b]
    BY <1>a, <1>e DEF DeviceList, Device
  <1> HIDE DEF r, d, t, s, w, r2, d2
  <1>8. Control(r2)
    BY <1>a, <1>2, <1>4, <1>e, <1>5, NoDeviceFacts DEF Control
  <1>9. Devices(r2, d2)
    BY <1>a, <1>2, <1>4, <1>e, <1>5, NoDeviceFacts DEF Devices, Working
  <1>10. PortTable(r2, d2, t)
    BY <1>a, <1>2, <1>4, <1>e, <1>5, NoDeviceFacts DEF PortTable
  <1>11. Window(r2, d2, w)
    BY <1>a, <1>2, <1>4, <1>e, <1>5, NoDeviceFacts DEF Window, Working, Attaching, Agree
  <1>12. GuiToken \/ Sockets(r2, d2, s2)
    BY <1>a, <1>2, <1>4, <1>e, <1>5, NoDeviceFacts DEF Sockets, Others
  <1>13. Own(r2, d2, t, s2, w)
    BY <1>a, <1>4, <1>5, <1>2, <1>8, <1>9, <1>10, <1>11, <1>12 DEF Own
  <1> QED BY <1>3, <1>13, OwnStep

\* The port is given back with the device, and the row says so.
LEMMA FreePortStep ==
  ASSUME ClientInv, NEW p \in Procs, FreePort(p)
  PROVE  ClientInv'
  <1> DEFINE r == proc[p]
             d == device[p]
             t == ports[p]
             s == sockets[p]
             w == row[p]
             k == d[r.busid].vhci_port
  <1>1. Own(r, d, t, s, w)
    BY DEF ClientInv, OwnInv
  <1>a. /\ r \in Proc /\ d \in DeviceList /\ t \in Table /\ s \in SUBSET Handles /\ w \in Rows
        /\ Control(r) /\ Devices(r, d) /\ PortTable(r, d, t) /\ Window(r, d, w)
        /\ GuiToken \/ Sockets(r, d, s)
    BY <1>1 DEF Own
  <1>2. /\ r.pc = "unplug" /\ proc' = [proc EXCEPT ![p].pc = proc[p].ret, ![p].busid = None]
        /\ IF k = NoPort \/ t[k] = "FREE" THEN UNCHANGED ports
           ELSE ports' = [ports EXCEPT ![p][k] = "FREE"]
        /\ device' = [device EXCEPT ![p][proc[p].busid] = NoDevice]
        /\ row' = IF r.ret = "loop" THEN [row EXCEPT ![p][proc[p].busid] = "unticked"] ELSE row
        /\ UNCHANGED sockets
    BY DEF FreePort, vhci_detach, Untick, Dev
  <1> DEFINE r2 == [r EXCEPT !.pc = r.ret, !.busid = None]
             d2 == [d EXCEPT ![r.busid] = NoDevice]
             t2 == IF k = NoPort \/ t[k] = "FREE" THEN t ELSE [t EXCEPT ![k] = "FREE"]
             w2 == IF r.ret = "loop" THEN [w EXCEPT ![r.busid] = "unticked"] ELSE w
  <1>3. Becomes(p, r2, d2, t2, s, w2)
    BY <1>2, Unchanged DEF ClientInv, Types, Becomes
  <1>4. /\ r2 \in Proc /\ r2.pc = r.ret /\ r2.kind = r.kind /\ r2.ret = r.ret
        /\ r2.token = r.token /\ r2.busid = None /\ r2.connected = r.connected
        /\ r2.list = r.list /\ r2.discovery = r.discovery
    BY <1>a, <1>2 DEF Proc, Places
  <1>e. /\ r.busid \in Busids /\ k \in Ports \cup {NoPort} /\ NoPort \notin Ports
        /\ d[r.busid].socket = None /\ ~d[r.busid].listed /\ k = d[r.busid].vhci_port
        /\ r.ret \in {"loop", "all", "exit"} /\ (r.ret # "exit" => r.kind = "gui")
    <2>1. r.busid \in Busids /\ d[r.busid].socket = None /\ ~d[r.busid].listed
      BY <1>a, <1>2 DEF Devices, Working
    <2>2. k \in Ports \cup {NoPort} /\ NoPort \notin Ports
      BY <1>a, <2>1 DEF DeviceList, Device, Ports, NoPort
    <2> QED BY <1>a, <2>1, <2>2 DEF Proc, Control
  <1>5. /\ d2 \in DeviceList /\ d2[r.busid] = NoDevice
        /\ \A b \in Busids : b # r.busid => d2[b] = d[b]
    BY <1>a, <1>e, NoDeviceFacts DEF DeviceList
  <1>6. /\ t2 \in Table /\ (k \in Ports => t2[k] = "FREE")
        /\ \A j \in Ports : j # k => t2[j] = t[j]
    BY <1>a, <1>e DEF Table
  <1>7. /\ w2 \in Rows /\ (r.ret = "loop" => w2[r.busid] = "unticked")
        /\ \A b \in Busids : b # r.busid => w2[b] = w[b]
        /\ r.ret # "loop" => w2 = w
    BY <1>a, <1>e DEF Rows
  <1> HIDE DEF k, r, d, t, s, w, r2, d2, t2, w2
  <1>8. Control(r2)
    BY <1>a, <1>2, <1>4, <1>e, <1>5, <1>6, <1>7, NoDeviceFacts DEF Control
  <1>9. Devices(r2, d2)
    BY <1>a, <1>2, <1>4, <1>e, <1>5, <1>6, <1>7, NoDeviceFacts DEF Devices, Working
  <1>10. PortTable(r2, d2, t2)
    BY <1>a, <1>2, <1>4, <1>e, <1>5, <1>6, <1>7, NoDeviceFacts DEF PortTable
  <1>11. Window(r2, d2, w2)
    BY <1>a, <1>2, <1>4, <1>e, <1>5, <1>6, <1>7, NoDeviceFacts DEF Window, Working, Attaching, Agree
  <1>12. GuiToken \/ Sockets(r2, d2, s)
    BY <1>a, <1>2, <1>4, <1>e, <1>5, <1>6, <1>7, NoDeviceFacts DEF Sockets, Others
  <1>13. Own(r2, d2, t2, s, w2)
    BY <1>a, <1>4, <1>5, <1>6, <1>7, <1>8, <1>9, <1>10, <1>11, <1>12 DEF Own
  <1> QED BY <1>3, <1>13, OwnStep

\* Unticking a row takes its device out of the list.
LEMMA DetachDeviceStep ==
  ASSUME ClientInv, NEW p \in Procs, NEW b \in Busids, client_gui_detach_device(p, b)
  PROVE  ClientInv'
  <1> DEFINE r == proc[p]
             d == device[p]
             t == ports[p]
             s == sockets[p]
             w == row[p]
  <1>1. Own(r, d, t, s, w)
    BY DEF ClientInv, OwnInv
  <1>a. /\ r \in Proc /\ d \in DeviceList /\ t \in Table /\ s \in SUBSET Handles /\ w \in Rows
        /\ Control(r) /\ Devices(r, d) /\ PortTable(r, d, t) /\ Window(r, d, w)
        /\ GuiToken \/ Sockets(r, d, s)
    BY <1>1 DEF Own
  <1>2. /\ r.kind = "gui" /\ r.pc = "loop" /\ w[b] = "ticked" /\ d[b].listed
        /\ row' = [row EXCEPT ![p][b] = "unticked"]
        /\ device' = [device EXCEPT ![p][b].listed = FALSE]
        /\ proc' = [proc EXCEPT ![p].pc = "free", ![p].busid = b]
        /\ UNCHANGED <<ports, sockets>>
    BY DEF client_gui_detach_device, remote_device_disconnect
  <1> DEFINE r2 == [r EXCEPT !.pc = "free", !.busid = b]
             d2 == [d EXCEPT ![b].listed = FALSE]
             w2 == [w EXCEPT ![b] = "unticked"]
  <1>3. Becomes(p, r2, d2, t, s, w2)
    BY <1>2, Unchanged DEF ClientInv, Types, Becomes
  <1>4. /\ r2 \in Proc /\ r2.pc = "free" /\ r2.kind = r.kind /\ r2.ret = r.ret
        /\ r2.token = r.token /\ r2.busid = b /\ r2.connected = r.connected
        /\ r2.list = r.list /\ r2.discovery = r.discovery
    BY <1>a, <1>2 DEF Proc, Places
  <1>e. r.connected /\ r.ret = "loop" /\ r.list = None
    BY <1>a, <1>2 DEF Window, Control, Proc
  <1>5. /\ d2 \in DeviceList /\ ~d2[b].listed
        /\ d2[b].vhci_port = d[b].vhci_port /\ d2[b].socket = d[b].socket
        /\ \A c \in Busids : c # b => d2[c] = d[c]
    BY <1>a DEF DeviceList, Device
  <1>7. w2 \in Rows /\ \A c \in Busids : c # b => w2[c] = w[c]
    BY <1>a DEF Rows
  <1> HIDE DEF r, d, t, s, w, r2, d2, w2
  <1>8. Control(r2)
    BY <1>a, <1>2, <1>4, <1>e, <1>5, <1>7, NoDeviceFacts DEF Control
  <1>9. Devices(r2, d2)
    BY <1>a, <1>2, <1>4, <1>e, <1>5, <1>7, NoDeviceFacts DEF Devices, Working
  <1>10. PortTable(r2, d2, t)
    BY <1>a, <1>2, <1>4, <1>e, <1>5, <1>7, NoDeviceFacts DEF PortTable
  <1>11. Window(r2, d2, w2)
    BY <1>a, <1>2, <1>4, <1>e, <1>5, <1>7, NoDeviceFacts DEF Window, Working, Attaching, Agree
  <1>12. GuiToken \/ Sockets(r2, d2, s)
    BY <1>a, <1>2, <1>4, <1>e, <1>5, <1>7, NoDeviceFacts DEF Sockets, Others
  <1>13. Own(r2, d2, t, s, w2)
    BY <1>a, <1>4, <1>5, <1>7, <1>8, <1>9, <1>10, <1>11, <1>12 DEF Own
  <1> QED BY <1>3, <1>13, OwnStep

\* Disconnecting and leaving begin in the message loop.
LEMMA DisconnectAllStartStep ==
  ASSUME ClientInv, NEW p \in Procs, DisconnectAllStart(p)
  PROVE  ClientInv'
  <1> DEFINE r == proc[p]
             d == device[p]
             t == ports[p]
             s == sockets[p]
             w == row[p]
  <1>1. Own(r, d, t, s, w)
    BY DEF ClientInv, OwnInv
  <1>a. /\ r \in Proc /\ d \in DeviceList /\ t \in Table /\ s \in SUBSET Handles /\ w \in Rows
        /\ Control(r) /\ Devices(r, d) /\ PortTable(r, d, t) /\ Window(r, d, w)
        /\ GuiToken \/ Sockets(r, d, s)
    BY <1>1 DEF Own
  <1>2. PICK to \in {"exit"} \cup (IF proc[p].connected THEN {"all"} ELSE {}) :
          /\ r.kind = "gui" /\ r.pc = "loop"
          /\ proc' = [proc EXCEPT ![p].pc = to, ![p].ret = to]
          /\ UNCHANGED <<device, ports, sockets, row>>
    BY DEF DisconnectAllStart
  <1> DEFINE r2 == [r EXCEPT !.pc = to, !.ret = to]
  <1>3. Becomes(p, r2, d, t, s, w)
    BY <1>2, Unchanged DEF ClientInv, Types, Becomes
  <1>4. /\ r2 \in Proc /\ r2.pc = to /\ r2.kind = r.kind /\ r2.ret = to
        /\ r2.token = r.token /\ r2.busid = r.busid /\ r2.connected = r.connected
        /\ r2.list = r.list /\ r2.discovery = r.discovery
    BY <1>a, <1>2 DEF Proc, Places
  <1>e. to \in {"all", "exit"}
    OBVIOUS
  <1> HIDE DEF r, d, t, s, w, r2
  <1>8. Control(r2)
    BY <1>a, <1>2, <1>4, <1>e, NoDeviceFacts DEF Control
  <1>9. Devices(r2, d)
    BY <1>a, <1>2, <1>4, <1>e, NoDeviceFacts DEF Devices, Working
  <1>10. PortTable(r2, d, t)
    BY <1>a, <1>2, <1>4, <1>e, NoDeviceFacts DEF PortTable
  <1>11. Window(r2, d, w)
    BY <1>a, <1>2, <1>4, <1>e, NoDeviceFacts DEF Window, Working, Attaching, Agree
  <1>12. GuiToken \/ Sockets(r2, d, s)
    BY <1>a, <1>2, <1>4, <1>e, NoDeviceFacts DEF Sockets, Others
  <1>13. Own(r2, d, t, s, w)
    BY <1>a, <1>4, <1>8, <1>9, <1>10, <1>11, <1>12 DEF Own
  <1> QED BY <1>3, <1>13, OwnStep

\* Each device is taken out of the list and freed.
LEMMA DisconnectAllStep ==
  ASSUME ClientInv, NEW p \in Procs, NEW b \in Busids, remote_device_disconnect_all(p, b)
  PROVE  ClientInv'
  <1> DEFINE r == proc[p]
             d == device[p]
             t == ports[p]
             s == sockets[p]
             w == row[p]
  <1>1. Own(r, d, t, s, w)
    BY DEF ClientInv, OwnInv
  <1>a. /\ r \in Proc /\ d \in DeviceList /\ t \in Table /\ s \in SUBSET Handles /\ w \in Rows
        /\ Control(r) /\ Devices(r, d) /\ PortTable(r, d, t) /\ Window(r, d, w)
        /\ GuiToken \/ Sockets(r, d, s)
    BY <1>1 DEF Own
  <1>2. /\ r.pc \in {"all", "exit"} /\ d[b].listed
        /\ device' = [device EXCEPT ![p][b].listed = FALSE]
        /\ proc' = [proc EXCEPT ![p].pc = "free", ![p].busid = b]
        /\ UNCHANGED <<ports, sockets, row>>
    BY DEF remote_device_disconnect_all, remote_device_disconnect
  <1> DEFINE r2 == [r EXCEPT !.pc = "free", !.busid = b]
             d2 == [d EXCEPT ![b].listed = FALSE]
  <1>3. Becomes(p, r2, d2, t, s, w)
    BY <1>2, Unchanged DEF ClientInv, Types, Becomes
  <1>4. /\ r2 \in Proc /\ r2.pc = "free" /\ r2.kind = r.kind /\ r2.ret = r.ret
        /\ r2.token = r.token /\ r2.busid = b /\ r2.connected = r.connected
        /\ r2.list = r.list /\ r2.discovery = r.discovery
    BY <1>a, <1>2 DEF Proc, Places
  <1>e. r.list = None /\ (r.kind = "gui" => r.connected /\ r.ret # "loop")
    BY <1>a, <1>2 DEF Window, Control, Proc
  <1>5. /\ d2 \in DeviceList /\ ~d2[b].listed
        /\ d2[b].vhci_port = d[b].vhci_port /\ d2[b].socket = d[b].socket
        /\ \A c \in Busids : c # b => d2[c] = d[c]
    BY <1>a DEF DeviceList, Device
  <1> HIDE DEF r, d, t, s, w, r2, d2
  <1>8. Control(r2)
    BY <1>a, <1>2, <1>4, <1>e, <1>5, NoDeviceFacts DEF Control
  <1>9. Devices(r2, d2)
    BY <1>a, <1>2, <1>4, <1>e, <1>5, NoDeviceFacts DEF Devices, Working
  <1>10. PortTable(r2, d2, t)
    BY <1>a, <1>2, <1>4, <1>e, <1>5, NoDeviceFacts DEF PortTable
  <1>11. Window(r2, d2, w)
    BY <1>a, <1>2, <1>4, <1>e, <1>5, NoDeviceFacts DEF Window, Working, Attaching, Agree
  <1>12. GuiToken \/ Sockets(r2, d2, s)
    BY <1>a, <1>2, <1>4, <1>e, <1>5, NoDeviceFacts DEF Sockets, Others
  <1>13. Own(r2, d2, t, s, w)
    BY <1>a, <1>4, <1>5, <1>8, <1>9, <1>10, <1>11, <1>12 DEF Own
  <1> QED BY <1>3, <1>13, OwnStep

\* The window of a client that has disconnected is empty.
LEMMA DisconnectAllDoneStep ==
  ASSUME ClientInv, NEW p \in Procs, DisconnectAllDone(p)
  PROVE  ClientInv'
  <1> DEFINE r == proc[p]
             d == device[p]
             t == ports[p]
             s == sockets[p]
             w == row[p]
  <1>1. Own(r, d, t, s, w)
    BY DEF ClientInv, OwnInv
  <1>a. /\ r \in Proc /\ d \in DeviceList /\ t \in Table /\ s \in SUBSET Handles /\ w \in Rows
        /\ Control(r) /\ Devices(r, d) /\ PortTable(r, d, t) /\ Window(r, d, w)
        /\ GuiToken \/ Sockets(r, d, s)
    BY <1>1 DEF Own
  <1>2. /\ r.pc = "all" /\ Listed(p) = {}
        /\ proc' = [proc EXCEPT ![p].pc = "loop", ![p].ret = "loop", ![p].connected = FALSE]
        /\ row' = [row EXCEPT ![p] = NoRows]
        /\ UNCHANGED <<device, ports, sockets>>
    BY DEF DisconnectAllDone
  <1> DEFINE r2 == [r EXCEPT !.pc = "loop", !.ret = "loop", !.connected = FALSE]
             w2 == NoRows
  <1>3. Becomes(p, r2, d, t, s, w2)
    BY <1>2, Unchanged DEF ClientInv, Types, Becomes
  <1>4. /\ r2 \in Proc /\ r2.pc = "loop" /\ r2.kind = r.kind /\ r2.ret = "loop"
        /\ r2.token = r.token /\ r2.busid = r.busid /\ r2.connected = FALSE
        /\ r2.list = r.list /\ r2.discovery = r.discovery
    BY <1>a, <1>2 DEF Proc, Places
  <1>e. r.kind = "gui" /\ \A b \in Busids : ~d[b].listed
    BY <1>a, <1>2 DEF Control, Listed
  <1>7. w2 \in Rows /\ \A b \in Busids : w2[b] = "absent"
    BY DEF NoRows, Rows
  <1> HIDE DEF r, d, t, s, w, r2, w2
  <1>8. Control(r2)
    BY <1>a, <1>2, <1>4, <1>e, <1>7, NoDeviceFacts DEF Control
  <1>9. Devices(r2, d)
    BY <1>a, <1>2, <1>4, <1>e, <1>7, NoDeviceFacts DEF Devices, Working
  <1>10. PortTable(r2, d, t)
    BY <1>a, <1>2, <1>4, <1>e, <1>7, NoDeviceFacts DEF PortTable
  <1>11. Window(r2, d, w2)
    BY <1>a, <1>2, <1>4, <1>e, <1>7, NoDeviceFacts DEF Window, Working, Attaching, Agree, w2
  <1>12. GuiToken \/ Sockets(r2, d, s)
    BY <1>a, <1>2, <1>4, <1>e, <1>7, NoDeviceFacts DEF Sockets, Others
  <1>13. Own(r2, d, t, s, w2)
    BY <1>a, <1>4, <1>7, <1>8, <1>9, <1>10, <1>11, <1>12 DEF Own
  <1> QED BY <1>3, <1>13, OwnStep

\* An attach command that waits for a signal has its device.
LEMMA AnnounceStep ==
  ASSUME ClientInv, NEW p \in Procs, Announce(p)
  PROVE  ClientInv'
  <1> DEFINE r == proc[p]
             d == device[p]
             t == ports[p]
             s == sockets[p]
             w == row[p]
  <1>1. Own(r, d, t, s, w)
    BY DEF ClientInv, OwnInv
  <1>a. /\ r \in Proc /\ d \in DeviceList /\ t \in Table /\ s \in SUBSET Handles /\ w \in Rows
        /\ Control(r) /\ Devices(r, d) /\ PortTable(r, d, t) /\ Window(r, d, w)
        /\ GuiToken \/ Sockets(r, d, s)
    BY <1>1 DEF Own
  <1>2. /\ r.pc = "announce" /\ proc' = [proc EXCEPT ![p].pc = "attached", ![p].running = TRUE]
        /\ UNCHANGED <<device, ports, sockets, row>>
    BY DEF Announce
  <1> DEFINE r2 == [r EXCEPT !.pc = "attached", !.running = TRUE]
  <1>3. Becomes(p, r2, d, t, s, w)
    BY <1>2, Unchanged DEF ClientInv, Types, Becomes
  <1>4. /\ r2 \in Proc /\ r2.pc = "attached" /\ r2.kind = r.kind /\ r2.ret = r.ret
        /\ r2.token = r.token /\ r2.busid = r.busid /\ r2.connected = r.connected
        /\ r2.list = r.list /\ r2.discovery = r.discovery
    BY <1>a, <1>2 DEF Proc, Places
  <1> HIDE DEF r, d, t, s, w, r2
  <1>8. Control(r2)
    BY <1>a, <1>2, <1>4, NoDeviceFacts DEF Control
  <1>9. Devices(r2, d)
    BY <1>a, <1>2, <1>4, NoDeviceFacts DEF Devices, Working
  <1>10. PortTable(r2, d, t)
    BY <1>a, <1>2, <1>4, NoDeviceFacts DEF PortTable
  <1>11. Window(r2, d, w)
    BY <1>a, <1>2, <1>4, NoDeviceFacts DEF Window, Working, Attaching, Agree
  <1>12. GuiToken \/ Sockets(r2, d, s)
    BY <1>a, <1>2, <1>4, NoDeviceFacts DEF Sockets, Others
  <1>13. Own(r2, d, t, s, w)
    BY <1>a, <1>4, <1>8, <1>9, <1>10, <1>11, <1>12 DEF Own
  <1> QED BY <1>3, <1>13, OwnStep

\* A signal only clears the flag.
LEMMA SignalStep ==
  ASSUME ClientInv, NEW p \in Procs, signal_handler(p)
  PROVE  ClientInv'
  <1> DEFINE r == proc[p]
             d == device[p]
             t == ports[p]
             s == sockets[p]
             w == row[p]
  <1>1. Own(r, d, t, s, w)
    BY DEF ClientInv, OwnInv
  <1>a. /\ r \in Proc /\ d \in DeviceList /\ t \in Table /\ s \in SUBSET Handles /\ w \in Rows
        /\ Control(r) /\ Devices(r, d) /\ PortTable(r, d, t) /\ Window(r, d, w)
        /\ GuiToken \/ Sockets(r, d, s)
    BY <1>1 DEF Own
  <1>2. /\ proc' = [proc EXCEPT ![p].running = FALSE]
        /\ UNCHANGED <<device, ports, sockets, row>>
    BY DEF signal_handler
  <1> DEFINE r2 == [r EXCEPT !.running = FALSE]
  <1>3. Becomes(p, r2, d, t, s, w)
    BY <1>2, Unchanged DEF ClientInv, Types, Becomes
  <1>4. /\ r2 \in Proc /\ r2.pc = r.pc /\ r2.kind = r.kind /\ r2.ret = r.ret
        /\ r2.token = r.token /\ r2.busid = r.busid /\ r2.connected = r.connected
        /\ r2.list = r.list /\ r2.discovery = r.discovery
    BY <1>a, <1>2 DEF Proc, Places
  <1> HIDE DEF r, d, t, s, w, r2
  <1>8. Control(r2)
    BY <1>a, <1>2, <1>4, NoDeviceFacts DEF Control
  <1>9. Devices(r2, d)
    BY <1>a, <1>2, <1>4, NoDeviceFacts DEF Devices, Working
  <1>10. PortTable(r2, d, t)
    BY <1>a, <1>2, <1>4, NoDeviceFacts DEF PortTable
  <1>11. Window(r2, d, w)
    BY <1>a, <1>2, <1>4, NoDeviceFacts DEF Window, Working, Attaching, Agree
  <1>12. GuiToken \/ Sockets(r2, d, s)
    BY <1>a, <1>2, <1>4, NoDeviceFacts DEF Sockets, Others
  <1>13. Own(r2, d, t, s, w)
    BY <1>a, <1>4, <1>8, <1>9, <1>10, <1>11, <1>12 DEF Own
  <1> QED BY <1>3, <1>13, OwnStep

\* An attach command leaves with its device.
LEMMA AttachedEndsStep ==
  ASSUME ClientInv, NEW p \in Procs, AttachedEnds(p)
  PROVE  ClientInv'
  <1> DEFINE r == proc[p]
             d == device[p]
             t == ports[p]
             s == sockets[p]
             w == row[p]
  <1>1. Own(r, d, t, s, w)
    BY DEF ClientInv, OwnInv
  <1>a. /\ r \in Proc /\ d \in DeviceList /\ t \in Table /\ s \in SUBSET Handles /\ w \in Rows
        /\ Control(r) /\ Devices(r, d) /\ PortTable(r, d, t) /\ Window(r, d, w)
        /\ GuiToken \/ Sockets(r, d, s)
    BY <1>1 DEF Own
  <1>2. /\ r.pc = "attached" /\ proc' = [proc EXCEPT ![p].pc = "exit"]
        /\ UNCHANGED <<device, ports, sockets, row>>
    BY DEF AttachedEnds, Go
  <1> DEFINE r2 == [r EXCEPT !.pc = "exit"]
  <1>3. Becomes(p, r2, d, t, s, w)
    BY <1>2, Unchanged DEF ClientInv, Types, Becomes
  <1>4. /\ r2 \in Proc /\ r2.pc = "exit" /\ r2.kind = r.kind /\ r2.ret = r.ret
        /\ r2.token = r.token /\ r2.busid = r.busid /\ r2.connected = r.connected
        /\ r2.list = r.list /\ r2.discovery = r.discovery
    BY <1>a, <1>2 DEF Proc, Places
  <1> HIDE DEF r, d, t, s, w, r2
  <1>8. Control(r2)
    BY <1>a, <1>2, <1>4, NoDeviceFacts DEF Control
  <1>9. Devices(r2, d)
    BY <1>a, <1>2, <1>4, NoDeviceFacts DEF Devices, Working
  <1>10. PortTable(r2, d, t)
    BY <1>a, <1>2, <1>4, NoDeviceFacts DEF PortTable
  <1>11. Window(r2, d, w)
    BY <1>a, <1>2, <1>4, NoDeviceFacts DEF Window, Working, Attaching, Agree
  <1>12. GuiToken \/ Sockets(r2, d, s)
    BY <1>a, <1>2, <1>4, NoDeviceFacts DEF Sockets, Others
  <1>13. Own(r2, d, t, s, w)
    BY <1>a, <1>4, <1>8, <1>9, <1>10, <1>11, <1>12 DEF Own
  <1> QED BY <1>3, <1>13, OwnStep

\* A listing has a socket of its own, and the rows are cleared.
LEMMA ListOpenStep ==
  ASSUME ClientInv, NEW p \in Procs, ListOpen(p)
  PROVE  ClientInv'
  <1> DEFINE r == proc[p]
             d == device[p]
             t == ports[p]
             s == sockets[p]
             w == row[p]
  <1>1. Own(r, d, t, s, w)
    BY DEF ClientInv, OwnInv
  <1>a. /\ r \in Proc /\ d \in DeviceList /\ t \in Table /\ s \in SUBSET Handles /\ w \in Rows
        /\ Control(r) /\ Devices(r, d) /\ PortTable(r, d, t) /\ Window(r, d, w)
        /\ GuiToken \/ Sockets(r, d, s)
    BY <1>1 DEF Own
  <1>2. PICK h \in Handles \ s :
          /\ r.kind = "gui" /\ r.pc \in {"loop", "refresh"}
          /\ sockets' = [sockets EXCEPT ![p] = @ \cup {h}]
          /\ proc' = [proc EXCEPT ![p].pc = "list", ![p].list = h]
          /\ row' = [row EXCEPT ![p] = NoRows]
          /\ UNCHANGED <<device, ports>>
    BY DEF ListOpen, socket_open
  <1> DEFINE r2 == [r EXCEPT !.pc = "list", !.list = h]
             s2 == s \cup {h}
             w2 == NoRows
  <1>3. Becomes(p, r2, d, t, s2, w2)
    BY <1>2, Unchanged DEF ClientInv, Types, Becomes
  <1>4. /\ r2 \in Proc /\ r2.pc = "list" /\ r2.kind = r.kind /\ r2.ret = r.ret
        /\ r2.token = r.token /\ r2.busid = r.busid /\ r2.connected = r.connected
        /\ r2.list = h /\ r2.discovery = r.discovery
    BY <1>a, <1>2 DEF Proc, Places
  <1>e. h # None /\ r.list = None
    BY <1>a, <1>2 DEF Control
  <1>7. w2 \in Rows /\ \A b \in Busids : w2[b] = "absent"
    BY DEF NoRows, Rows
  <1> HIDE DEF r, d, t, s, w, r2, w2
  <1>8. Control(r2)
    BY <1>a, <1>2, <1>4, <1>e, <1>7, NoDeviceFacts DEF Control
  <1>9. Devices(r2, d)
    BY <1>a, <1>2, <1>4, <1>e, <1>7, NoDeviceFacts DEF Devices, Working
  <1>10. PortTable(r2, d, t)
    BY <1>a, <1>2, <1>4, <1>e, <1>7, NoDeviceFacts DEF PortTable
  <1>11. Window(r2, d, w2)
    BY <1>a, <1>2, <1>4, <1>e, <1>7, NoDeviceFacts DEF Window, Working, Attaching, Agree, w2
  <1>12. GuiToken \/ Sockets(r2, d, s2)
    BY <1>a, <1>2, <1>4, <1>e, <1>7, NoDeviceFacts DEF Sockets, Others
  <1>13. Own(r2, d, t, s2, w2)
    BY <1>a, <1>4, <1>7, <1>2, <1>8, <1>9, <1>10, <1>11, <1>12 DEF Own
  <1> QED BY <1>3, <1>13, OwnStep

\* Without a connection the window is empty.
LEMMA ListOpenFailsStep ==
  ASSUME ClientInv, NEW p \in Procs, ListOpenFails(p)
  PROVE  ClientInv'
  <1> DEFINE r == proc[p]
             d == device[p]
             t == ports[p]
             s == sockets[p]
             w == row[p]
  <1>1. Own(r, d, t, s, w)
    BY DEF ClientInv, OwnInv
  <1>a. /\ r \in Proc /\ d \in DeviceList /\ t \in Table /\ s \in SUBSET Handles /\ w \in Rows
        /\ Control(r) /\ Devices(r, d) /\ PortTable(r, d, t) /\ Window(r, d, w)
        /\ GuiToken \/ Sockets(r, d, s)
    BY <1>1 DEF Own
  <1>2. /\ r.kind = "gui" /\ r.pc \in {"loop", "refresh"}
        /\ proc' = [proc EXCEPT ![p].pc = "loop"] /\ row' = [row EXCEPT ![p] = NoRows]
        /\ UNCHANGED <<device, ports, sockets>>
    BY DEF ListOpenFails
  <1> DEFINE r2 == [r EXCEPT !.pc = "loop"]
             w2 == NoRows
  <1>3. Becomes(p, r2, d, t, s, w2)
    BY <1>2, Unchanged DEF ClientInv, Types, Becomes
  <1>4. /\ r2 \in Proc /\ r2.pc = "loop" /\ r2.kind = r.kind /\ r2.ret = r.ret
        /\ r2.token = r.token /\ r2.busid = r.busid /\ r2.connected = r.connected
        /\ r2.list = r.list /\ r2.discovery = r.discovery
    BY <1>a, <1>2 DEF Proc, Places
  <1>7. w2 \in Rows /\ \A b \in Busids : w2[b] = "absent"
    BY DEF NoRows, Rows
  <1> HIDE DEF r, d, t, s, w, r2, w2
  <1>8. Control(r2)
    BY <1>a, <1>2, <1>4, <1>7, NoDeviceFacts DEF Control
  <1>9. Devices(r2, d)
    BY <1>a, <1>2, <1>4, <1>7, NoDeviceFacts DEF Devices, Working
  <1>10. PortTable(r2, d, t)
    BY <1>a, <1>2, <1>4, <1>7, NoDeviceFacts DEF PortTable
  <1>11. Window(r2, d, w2)
    BY <1>a, <1>2, <1>4, <1>7, NoDeviceFacts DEF Window, Working, Attaching, Agree, w2
  <1>12. GuiToken \/ Sockets(r2, d, s)
    BY <1>a, <1>2, <1>4, <1>7, NoDeviceFacts DEF Sockets, Others
  <1>13. Own(r2, d, t, s, w2)
    BY <1>a, <1>4, <1>7, <1>8, <1>9, <1>10, <1>11, <1>12 DEF Own
  <1> QED BY <1>3, <1>13, OwnStep

\* client_gui_connect has a list: the client is connected, its window empty.
LEMMA GuiConnectStep ==
  ASSUME ClientInv, NEW p \in Procs, client_gui_connect(p)
  PROVE  ClientInv'
  <1> DEFINE r == proc[p]
             d == device[p]
             t == ports[p]
             s == sockets[p]
             w == row[p]
  <1>1. Own(r, d, t, s, w)
    BY DEF ClientInv, OwnInv
  <1>a. /\ r \in Proc /\ d \in DeviceList /\ t \in Table /\ s \in SUBSET Handles /\ w \in Rows
        /\ Control(r) /\ Devices(r, d) /\ PortTable(r, d, t) /\ Window(r, d, w)
        /\ GuiToken \/ Sockets(r, d, s)
    BY <1>1 DEF Own
  <1>2. /\ r.pc = "list"
        /\ sockets' = [sockets EXCEPT ![p] = @ \ {proc[p].list}]
        /\ proc' = [proc EXCEPT ![p].pc = "refresh", ![p].list = None,
                               ![p].connected = @ \/ "refresh" = "refresh"]
        /\ UNCHANGED <<device, ports>> /\ UNCHANGED row
    BY DEF client_gui_connect, ListClose, socket_close
  <1> DEFINE r2 == [r EXCEPT !.pc = "refresh", !.list = None, !.connected = @ \/ "refresh" = "refresh"]
             s2 == s \ {r.list}
  <1>3. Becomes(p, r2, d, t, s2, w)
    BY <1>2, Unchanged DEF ClientInv, Types, Becomes
  <1>4. /\ r2 \in Proc /\ r2.pc = "refresh" /\ r2.kind = r.kind /\ r2.ret = r.ret
        /\ r2.token = r.token /\ r2.busid = r.busid
        /\ r2.connected = (r.connected \/ "refresh" = "refresh") /\ r2.list = None
        /\ r2.discovery = r.discovery
    BY <1>a, <1>2 DEF Proc, Places
  <1>e. r.kind = "gui" /\ r.ret = "loop" /\ w = NoRows /\ \A b \in Busids : w[b] = "absent"
    <2>1. r.kind = "gui" /\ r.ret = "loop" /\ w = NoRows
      BY <1>a, <1>2 DEF Control, Window
    <2> QED BY <2>1 DEF NoRows
  <1> HIDE DEF r, d, t, s, w, r2
  <1>8. Control(r2)
    BY <1>a, <1>2, <1>4, <1>e, NoDeviceFacts DEF Control
  <1>9. Devices(r2, d)
    BY <1>a, <1>2, <1>4, <1>e, NoDeviceFacts DEF Devices, Working
  <1>10. PortTable(r2, d, t)
    BY <1>a, <1>2, <1>4, <1>e, NoDeviceFacts DEF PortTable
  <1>11. Window(r2, d, w)
    BY <1>a, <1>2, <1>4, <1>e, NoDeviceFacts DEF Window, Working, Attaching, Agree
  <1>12. GuiToken \/ Sockets(r2, d, s2)
    BY <1>a, <1>2, <1>4, <1>e, NoDeviceFacts DEF Sockets, Others
  <1>13. Own(r2, d, t, s2, w)
    BY <1>a, <1>4, <1>2, <1>8, <1>9, <1>10, <1>11, <1>12 DEF Own
  <1> QED BY <1>3, <1>13, OwnStep

\* The new rows are ticked for the attached devices.
LEMMA PopulateStep ==
  ASSUME ClientInv, NEW p \in Procs, NEW present \in SUBSET Busids, populate_device_list(p, present)
  PROVE  ClientInv'
  <1> DEFINE r == proc[p]
             d == device[p]
             t == ports[p]
             s == sockets[p]
             w == row[p]
  <1>1. Own(r, d, t, s, w)
    BY DEF ClientInv, OwnInv
  <1>a. /\ r \in Proc /\ d \in DeviceList /\ t \in Table /\ s \in SUBSET Handles /\ w \in Rows
        /\ Control(r) /\ Devices(r, d) /\ PortTable(r, d, t) /\ Window(r, d, w)
        /\ GuiToken \/ Sockets(r, d, s)
    BY <1>1 DEF Own
  <1>2. /\ r.pc = "list" /\ r.connected
        /\ sockets' = [sockets EXCEPT ![p] = @ \ {proc[p].list}]
        /\ proc' = [proc EXCEPT ![p].pc = "loop", ![p].list = None,
                               ![p].connected = @ \/ "loop" = "refresh"]
        /\ UNCHANGED <<device, ports>> /\ row' = [row EXCEPT ![p] = [b \in Busids |->
             IF b \notin present THEN "absent"
             ELSE IF device[p][b].listed THEN "ticked" ELSE "unticked"]]
    BY DEF populate_device_list, ListClose, socket_close
  <1> DEFINE r2 == [r EXCEPT !.pc = "loop", !.list = None, !.connected = @ \/ "loop" = "refresh"]
             s2 == s \ {r.list}
             w2 == [b \in Busids |-> IF b \notin present THEN "absent"
                                   ELSE IF d[b].listed THEN "ticked" ELSE "unticked"]
  <1>3. Becomes(p, r2, d, t, s2, w2)
    BY <1>2, Unchanged DEF ClientInv, Types, Becomes
  <1>4. /\ r2 \in Proc /\ r2.pc = "loop" /\ r2.kind = r.kind /\ r2.ret = r.ret
        /\ r2.token = r.token /\ r2.busid = r.busid
        /\ r2.connected = (r.connected \/ "loop" = "refresh") /\ r2.list = None
        /\ r2.discovery = r.discovery
    BY <1>a, <1>2 DEF Proc, Places
  <1>e. r.kind = "gui" /\ r.ret = "loop" /\ w = NoRows /\ \A b \in Busids : w[b] = "absent"
    <2>1. r.kind = "gui" /\ r.ret = "loop" /\ w = NoRows
      BY <1>a, <1>2 DEF Control, Window
    <2> QED BY <2>1 DEF NoRows
  <1>7. w2 \in Rows /\ \A b \in Busids : Agree(d, w2, b)
    BY <1>a DEF Rows, Agree, DeviceList, Device
  <1> HIDE DEF r, d, t, s, w, r2, w2
  <1>8. Control(r2)
    BY <1>a, <1>2, <1>4, <1>e, <1>7, NoDeviceFacts DEF Control
  <1>9. Devices(r2, d)
    BY <1>a, <1>2, <1>4, <1>e, <1>7, NoDeviceFacts DEF Devices, Working
  <1>10. PortTable(r2, d, t)
    BY <1>a, <1>2, <1>4, <1>e, <1>7, NoDeviceFacts DEF PortTable
  <1>11. Window(r2, d, w2)
    BY <1>a, <1>2, <1>4, <1>e, <1>7, NoDeviceFacts DEF Window, Working, Attaching, Agree
  <1>12. GuiToken \/ Sockets(r2, d, s2)
    BY <1>a, <1>2, <1>4, <1>e, <1>7, NoDeviceFacts DEF Sockets, Others
  <1>13. Own(r2, d, t, s2, w2)
    BY <1>a, <1>4, <1>7, <1>2, <1>8, <1>9, <1>10, <1>11, <1>12 DEF Own
  <1> QED BY <1>3, <1>13, OwnStep

\* Without a list the window stays empty.
LEMMA ListFailsStep ==
  ASSUME ClientInv, NEW p \in Procs, ListFails(p)
  PROVE  ClientInv'
  <1> DEFINE r == proc[p]
             d == device[p]
             t == ports[p]
             s == sockets[p]
             w == row[p]
  <1>1. Own(r, d, t, s, w)
    BY DEF ClientInv, OwnInv
  <1>a. /\ r \in Proc /\ d \in DeviceList /\ t \in Table /\ s \in SUBSET Handles /\ w \in Rows
        /\ Control(r) /\ Devices(r, d) /\ PortTable(r, d, t) /\ Window(r, d, w)
        /\ GuiToken \/ Sockets(r, d, s)
    BY <1>1 DEF Own
  <1>2. /\ r.pc = "list"
        /\ sockets' = [sockets EXCEPT ![p] = @ \ {proc[p].list}]
        /\ proc' = [proc EXCEPT ![p].pc = "loop", ![p].list = None,
                               ![p].connected = @ \/ "loop" = "refresh"]
        /\ UNCHANGED <<device, ports>> /\ UNCHANGED row
    BY DEF ListFails, ListClose, socket_close
  <1> DEFINE r2 == [r EXCEPT !.pc = "loop", !.list = None, !.connected = @ \/ "loop" = "refresh"]
             s2 == s \ {r.list}
  <1>3. Becomes(p, r2, d, t, s2, w)
    BY <1>2, Unchanged DEF ClientInv, Types, Becomes
  <1>4. /\ r2 \in Proc /\ r2.pc = "loop" /\ r2.kind = r.kind /\ r2.ret = r.ret
        /\ r2.token = r.token /\ r2.busid = r.busid
        /\ r2.connected = (r.connected \/ "loop" = "refresh") /\ r2.list = None
        /\ r2.discovery = r.discovery
    BY <1>a, <1>2 DEF Proc, Places
  <1>e. r.kind = "gui" /\ r.ret = "loop" /\ w = NoRows /\ \A b \in Busids : w[b] = "absent"
    <2>1. r.kind = "gui" /\ r.ret = "loop" /\ w = NoRows
      BY <1>a, <1>2 DEF Control, Window
    <2> QED BY <2>1 DEF NoRows
  <1> HIDE DEF r, d, t, s, w, r2
  <1>8. Control(r2)
    BY <1>a, <1>2, <1>4, <1>e, NoDeviceFacts DEF Control
  <1>9. Devices(r2, d)
    BY <1>a, <1>2, <1>4, <1>e, NoDeviceFacts DEF Devices, Working
  <1>10. PortTable(r2, d, t)
    BY <1>a, <1>2, <1>4, <1>e, NoDeviceFacts DEF PortTable
  <1>11. Window(r2, d, w)
    BY <1>a, <1>2, <1>4, <1>e, NoDeviceFacts DEF Window, Working, Attaching, Agree
  <1>12. GuiToken \/ Sockets(r2, d, s2)
    BY <1>a, <1>2, <1>4, <1>e, NoDeviceFacts DEF Sockets, Others
  <1>13. Own(r2, d, t, s2, w)
    BY <1>a, <1>4, <1>2, <1>8, <1>9, <1>10, <1>11, <1>12 DEF Own
  <1> QED BY <1>3, <1>13, OwnStep

\* The discovery thread has a socket of its own.
LEMMA DiscoveryOpenStep ==
  ASSUME ClientInv, NEW p \in Procs, DiscoveryOpen(p)
  PROVE  ClientInv'
  <1> DEFINE r == proc[p]
             d == device[p]
             t == ports[p]
             s == sockets[p]
             w == row[p]
  <1>1. Own(r, d, t, s, w)
    BY DEF ClientInv, OwnInv
  <1>a. /\ r \in Proc /\ d \in DeviceList /\ t \in Table /\ s \in SUBSET Handles /\ w \in Rows
        /\ Control(r) /\ Devices(r, d) /\ PortTable(r, d, t) /\ Window(r, d, w)
        /\ GuiToken \/ Sockets(r, d, s)
    BY <1>1 DEF Own
  <1>2. PICK h \in Handles \ s :
          /\ r.kind = "gui" /\ r.discovery = None
          /\ sockets' = [sockets EXCEPT ![p] = @ \cup {h}]
          /\ proc' = [proc EXCEPT ![p].discovery = h]
          /\ UNCHANGED <<device, ports, row>>
    BY DEF DiscoveryOpen, socket_open
  <1> DEFINE r2 == [r EXCEPT !.discovery = h]
             s2 == s \cup {h}
  <1>3. Becomes(p, r2, d, t, s2, w)
    BY <1>2, Unchanged DEF ClientInv, Types, Becomes
  <1>4. /\ r2 \in Proc /\ r2.pc = r.pc /\ r2.kind = r.kind /\ r2.ret = r.ret
        /\ r2.token = r.token /\ r2.busid = r.busid /\ r2.connected = r.connected
        /\ r2.list = r.list /\ r2.discovery = h
    BY <1>a, <1>2 DEF Proc, Places
  <1>e. h # None
    BY <1>2
  <1> HIDE DEF r, d, t, s, w, r2
  <1>8. Control(r2)
    BY <1>a, <1>2, <1>4, <1>e, NoDeviceFacts DEF Control
  <1>9. Devices(r2, d)
    BY <1>a, <1>2, <1>4, <1>e, NoDeviceFacts DEF Devices, Working
  <1>10. PortTable(r2, d, t)
    BY <1>a, <1>2, <1>4, <1>e, NoDeviceFacts DEF PortTable
  <1>11. Window(r2, d, w)
    BY <1>a, <1>2, <1>4, <1>e, NoDeviceFacts DEF Window, Working, Attaching, Agree
  <1>12. GuiToken \/ Sockets(r2, d, s2)
    BY <1>a, <1>2, <1>4, <1>e, NoDeviceFacts DEF Sockets, Others
  <1>13. Own(r2, d, t, s2, w)
    BY <1>a, <1>4, <1>2, <1>8, <1>9, <1>10, <1>11, <1>12 DEF Own
  <1> QED BY <1>3, <1>13, OwnStep

\* It closes its own.
LEMMA DiscoveryCloseStep ==
  ASSUME ClientInv, NEW p \in Procs, DiscoveryClose(p)
  PROVE  ClientInv'
  <1> DEFINE r == proc[p]
             d == device[p]
             t == ports[p]
             s == sockets[p]
             w == row[p]
  <1>1. Own(r, d, t, s, w)
    BY DEF ClientInv, OwnInv
  <1>a. /\ r \in Proc /\ d \in DeviceList /\ t \in Table /\ s \in SUBSET Handles /\ w \in Rows
        /\ Control(r) /\ Devices(r, d) /\ PortTable(r, d, t) /\ Window(r, d, w)
        /\ GuiToken \/ Sockets(r, d, s)
    BY <1>1 DEF Own
  <1>2. /\ r.discovery # None
        /\ sockets' = [sockets EXCEPT ![p] = @ \ {proc[p].discovery}]
        /\ proc' = [proc EXCEPT ![p].discovery = None]
        /\ UNCHANGED <<device, ports, row>>
    BY DEF DiscoveryClose, socket_close
  <1> DEFINE r2 == [r EXCEPT !.discovery = None]
             s2 == s \ {r.discovery}
  <1>3. Becomes(p, r2, d, t, s2, w)
    BY <1>2, Unchanged DEF ClientInv, Types, Becomes
  <1>4. /\ r2 \in Proc /\ r2.pc = r.pc /\ r2.kind = r.kind /\ r2.ret = r.ret
        /\ r2.token = r.token /\ r2.busid = r.busid /\ r2.connected = r.connected
        /\ r2.list = r.list /\ r2.discovery = None
    BY <1>a, <1>2 DEF Proc, Places
  <1> HIDE DEF r, d, t, s, w, r2
  <1>8. Control(r2)
    BY <1>a, <1>2, <1>4, NoDeviceFacts DEF Control
  <1>9. Devices(r2, d)
    BY <1>a, <1>2, <1>4, NoDeviceFacts DEF Devices, Working
  <1>10. PortTable(r2, d, t)
    BY <1>a, <1>2, <1>4, NoDeviceFacts DEF PortTable
  <1>11. Window(r2, d, w)
    BY <1>a, <1>2, <1>4, NoDeviceFacts DEF Window, Working, Attaching, Agree
  <1>12. GuiToken \/ Sockets(r2, d, s2)
    BY <1>a, <1>2, <1>4, NoDeviceFacts DEF Sockets, Others
  <1>13. Own(r2, d, t, s2, w)
    BY <1>a, <1>4, <1>2, <1>8, <1>9, <1>10, <1>11, <1>12 DEF Own
  <1> QED BY <1>3, <1>13, OwnStep

----------------------------------------------------------------------------
(* Every reachable state.                                                  *)

\* Before any process has started.
LEMMA ClientInit == Init => ClientInv
  <1> SUFFICES ASSUME Init PROVE ClientInv
    OBVIOUS
  <1>1. /\ NoProc \in Proc /\ NoProc.pc = "none" /\ NoProc.kind = "none"
        /\ NoProc.ret = "exit" /\ NoProc.token = FALSE /\ NoProc.list = None
        /\ NoProc.discovery = None
    BY DEF Proc, Places, NoProc
  <1> DEFINE none == [b \in Busids |-> NoDevice]
  <1>2. none \in DeviceList /\ \A b \in Busids : none[b] = NoDevice
    BY NoDeviceFacts DEF DeviceList
  <1>3. FreePorts \in Table /\ \A k \in Ports : FreePorts[k] = "FREE"
    BY DEF FreePorts, Table
  <1>4. NoRows \in Rows
    BY DEF NoRows, Rows
  <1>5. /\ Types
        /\ \A p \in Procs : /\ proc[p] = NoProc /\ device[p] = none /\ ports[p] = FreePorts
                            /\ sockets[p] = {} /\ row[p] = NoRows
    BY <1>1, <1>2, <1>3, <1>4 DEF Init, Types
  <1> HIDE DEF none
  <1>6. Control(NoProc)
    BY <1>1 DEF Control
  <1>7. Devices(NoProc, none)
    BY <1>1, <1>2, NoDeviceFacts DEF Devices, Working
  <1>8. PortTable(NoProc, none, FreePorts)
    BY <1>1, <1>2, <1>3, NoDeviceFacts DEF PortTable
  <1>9. Window(NoProc, none, NoRows)
    BY <1>1, <1>2, NoDeviceFacts DEF Window
  <1>10. Sockets(NoProc, none, {})
    BY <1>1, <1>2, NoDeviceFacts DEF Sockets, Others
  <1>11. Own(NoProc, none, FreePorts, {}, NoRows)
    BY <1>1, <1>2, <1>3, <1>4, <1>6, <1>7, <1>8, <1>9, <1>10 DEF Own
  <1> QED BY <1>5, <1>11 DEF ClientInv, OwnInv

\* Every step keeps the invariant of every process.
LEMMA ClientStep ==
  ASSUME ClientInv, [Next]_vars
  PROVE  ClientInv'
  <1>1. CASE UNCHANGED <<proc, device, ports, sockets, row>>
    BY <1>1 DEF ClientInv, Types, OwnInv
  <1>2. ASSUME NEW p \in Procs, Connecting(p) PROVE ClientInv'
    BY <1>2, ConnectStep, ConnectFailsStep, AuthStep, AuthFailsStep, ImportStep, AttachStep,
       PlugFailsStep, GuiConnectStep, ListFailsStep, PopulateStep DEF Connecting
  <1>3. ASSUME NEW p \in Procs, Leaving(p) PROVE ClientInv'
    BY <1>3, FreeSocketStep, FreePortStep, DisconnectAllStep, DisconnectAllDoneStep,
       AnnounceStep, AttachedEndsStep, CleanupStep DEF Leaving
  <1>4. ASSUME NEW p \in Procs, Asked(p) PROVE ClientInv'
    BY <1>4, DetachCommandStep, AttachCommandStep, AttachDeviceStep, DetachDeviceStep,
       DisconnectAllStartStep, ListOpenStep, ListOpenFailsStep, SignalStep DEF Asked
  <1>5. CASE \E k \in Ports : DriverDrops(k)
    BY <1>1, <1>5 DEF DriverDrops
  <1> QED BY <1>1, <1>2, <1>3, <1>4, <1>5, StartStep, DiscoveryOpenStep, DiscoveryCloseStep
          DEF Next, vars

\* In every reachable state a process's devices, port table, sockets and rows
\* agree with where its main thread is.
THEOREM ClientCorrect == Spec => []ClientInv
  <1>1. ClientInv /\ [Next]_vars => ClientInv'
    BY ClientStep
  <1> QED BY <1>1, ClientInit, PTL DEF Spec

\* A process's table and its devices agree, on every path of
\* remote_device_connect that fails and of free_remote_device, however many
\* processes, devices and ports there are.
THEOREM PortsAreAccounted == Spec => []PortsAccounted
  <1>1. ClientInv => PortsAccounted
    BY DEF ClientInv, OwnInv, Own, PortTable, PortsAccounted, Listed
  <1> QED BY <1>1, ClientCorrect, PTL

\* When the window waits for the user its rows follow the devices, and a client
\* that is not connected has neither.
THEOREM RowsAreRight == Spec => []RowsFollowDevices
  <1>1. ASSUME ClientInv, NEW p \in Procs, proc[p].kind = "gui", proc[p].pc = "loop"
        PROVE  /\ \A b \in Busids : Agree(device[p], row[p], b)
               /\ ~proc[p].connected =>
                    (\A b \in Busids : ~device[p][b].listed) /\ row[p] = NoRows
    BY <1>1 DEF ClientInv, OwnInv, Own, Window
  <1>2. ClientInv => RowsFollowDevices
    BY <1>1 DEF RowsFollowDevices, Listed, Agree
  <1> QED BY <1>2, ClientCorrect, PTL

\* Without a token in a GUI client, sockets are neither leaked nor closed under
\* the thread that uses them.
THEOREM SocketsAreAccounted ==
  ASSUME ~GuiToken
  PROVE  Spec => []SocketsAccounted
  <1>1. ASSUME ClientInv, NEW p \in Procs
        PROVE  LET owners == {device[p][b].socket : b \in InUse(p)}
                   others == {proc[p].list, proc[p].discovery} \ {None}
               IN /\ sockets[p] \subseteq {device[p][b].socket : b \in Busids} \cup others
                  /\ owners \cup others \subseteq sockets[p]
                  /\ owners \cap others = {}
                  /\ proc[p].list # None => proc[p].list # proc[p].discovery
                  /\ \A a, b \in InUse(p) :
                       a # b => device[p][a].socket # device[p][b].socket
    <2>1. Sockets(proc[p], device[p], sockets[p])
      BY <1>1 DEF ClientInv, OwnInv, Own
    <2>2. \A b \in InUse(p) : /\ b \in Busids /\ device[p][b].socket # None
                              /\ device[p][b].socket \in sockets[p]
      BY <2>1 DEF Sockets, InUse
    <2> QED BY <2>1, <2>2 DEF Sockets, Others
  <1>2. ClientInv => SocketsAccounted
    BY <1>1 DEF SocketsAccounted
  <1> QED BY <1>2, ClientCorrect, PTL

----------------------------------------------------------------------------
(* The driver.                                                             *)

\* Only a port the driver has can be taken, and an unplug empties ports.
LEMMA UnpluggedFacts ==
  ASSUME driver \in Driver, NEW K \in SUBSET Ports, driver' \in Unplugged(K)
  PROVE  /\ driver' \in Driver /\ \A k \in Ports : driver'[k] \in {driver[k], None}
         /\ ~UnplugMayFail => \A k \in K : driver'[k] = None
  <1>1. PICK J \in SUBSET K :
          /\ driver' = [k \in Ports |-> IF k \in J THEN None ELSE driver[k]]
          /\ ~UnplugMayFail => J = K
    BY DEF Unplugged
  <1> QED BY <1>1 DEF Driver

\* vhci_detach, seen from the driver.
LEMMA DetachDriver ==
  ASSUME ClientInv, driver \in Driver, NEW p \in Procs, NEW k \in Ports, vhci_detach(p, k)
  PROVE  /\ driver' \in Driver /\ \A j \in Ports : driver'[j] \in {driver[j], None}
         /\ ports'[p] \in Table /\ \A j \in Ports : ports'[p][j] \in {ports[p][j], "FREE"}
         /\ \A j \in Ports : j # k => ports'[p][j] = ports[p][j]
         /\ ~UnplugMayFail /\ ports[p][k] # "FREE" => driver'[k] = None
         /\ ports[p][k] = "FREE" => ports' = ports /\ driver' = driver
  <1>0. ports \in [Procs -> Table] /\ ports[p] \in Table
    BY DEF ClientInv, Types
  <1>1. CASE ports[p][k] = "FREE"
    BY <1>0, <1>1 DEF vhci_detach
  <1>2. CASE ports[p][k] # "FREE"
    <2>1. ports' = [ports EXCEPT ![p][k] = "FREE"] /\ driver' \in Unplugged({k})
      BY <1>2 DEF vhci_detach
    <2>2. {k} \in SUBSET Ports
      OBVIOUS
    <2>3. /\ driver' \in Driver /\ \A j \in Ports : driver'[j] \in {driver[j], None}
          /\ ~UnplugMayFail => driver'[k] = None
      BY <2>1, <2>2, UnpluggedFacts
    <2> QED BY <1>0, <1>2, <2>1, <2>3 DEF Table
  <1> QED BY <1>1, <1>2

\* What each step does to the driver: nothing, an unplug, or a plug-in into the
\* driver's first free port.
DriverStep ==
  \/ UNCHANGED driver
  \/ \E K \in SUBSET Ports : driver' \in Unplugged(K)
  \/ \E p \in Procs, b \in Busids, k \in Ports : driver' = [driver EXCEPT ![k] = <<p, b>>]
  \/ \E k \in Ports : driver' = [driver EXCEPT ![k] = None]

\* The driver's first free port is one of its ports.
LEMMA PluggedPort ==
  ASSUME {k \in Ports : driver[k] = None} # {}
  PROVE  LET first == First({k \in Ports : driver[k] = None})
         IN first \in Ports /\ driver[first] = None
            /\ \A k \in Ports : driver[k] = None => first <= k
  <1> DEFINE K == {k \in Ports : driver[k] = None}
  <1>1. K \in SUBSET Ports /\ K # {}
    OBVIOUS
  <1>2. First(K) \in K /\ \A k \in K : First(K) <= k
    <2> HIDE DEF K
    <2> QED BY <1>1, FirstFacts
  <1> QED BY <1>2

\* Unplugging a port is an unplug of the driver or nothing.
LEMMA DriverSteps ==
  ASSUME ClientInv, [Next]_vars
  PROVE  DriverStep
  <1>1. ASSUME NEW p \in Procs, NEW k \in Ports, vhci_detach(p, k) PROVE DriverStep
    <2>1. {k} \in SUBSET Ports
      OBVIOUS
    <2> QED BY <1>1, <2>1 DEF vhci_detach, DriverStep
  <1>2. ASSUME NEW p \in Procs, Connecting(p) PROVE DriverStep
    <2>1. CASE vhci_attach(p)
      <3>1. proc[p].busid \in Busids
        BY <2>1 DEF ClientInv, OwnInv, Own, Devices, Working, vhci_attach, Go
      <3> DEFINE first == First({k \in Ports : driver[k] = None})
      <3>2. /\ {k \in Ports : driver[k] = None} # {}
            /\ driver' = [driver EXCEPT ![first] = <<p, proc[p].busid>>]
        BY <2>1 DEF vhci_attach
      <3>3. first \in Ports
        BY <3>2, PluggedPort
      <3> HIDE DEF first
      <3> QED BY <3>1, <3>2, <3>3 DEF DriverStep
    <2> QED BY <1>2, <2>1 DEF Connecting, Connect, ConnectFails, Auth, AuthFails, Import,
              PlugFails, client_gui_connect, ListFails, populate_device_list, ListClose,
              DriverStep
  <1>3. ASSUME NEW p \in Procs, Leaving(p) PROVE DriverStep
    <2>1. CASE FreePort(p)
      <3>1. Dev(p).vhci_port \in Ports \cup {NoPort}
        BY <2>1 DEF ClientInv, OwnInv, Own, Devices, Working, FreePort, Dev, DeviceList, Device
      <3> QED BY <1>1, <2>1, <3>1 DEF FreePort, DriverStep
    <2>2. CASE vhci_cleanup(p)
      <3>1. {k \in Ports : ports[p][k] # "FREE"} \in SUBSET Ports
        OBVIOUS
      <3> QED BY <2>2, <3>1 DEF vhci_cleanup, DriverStep
    <2> QED BY <1>3, <2>1, <2>2 DEF Leaving, FreeSocket, remote_device_disconnect_all,
              remote_device_disconnect, DisconnectAllDone, Announce, AttachedEnds, DriverStep
  <1>4. ASSUME NEW p \in Procs, Asked(p) PROVE DriverStep
    BY <1>1, <1>4 DEF Asked, cmd_detach, AttachCommand, client_gui_attach_device,
       client_gui_detach_device, remote_device_disconnect, DisconnectAllStart, ListOpen,
       ListOpenFails, signal_handler, DriverStep
  <1>5. ASSUME NEW p \in Procs, Start(p) \/ DiscoveryOpen(p) \/ DiscoveryClose(p)
        PROVE  DriverStep
    BY <1>5 DEF Start, DiscoveryOpen, DiscoveryClose, DriverStep
  <1>6. CASE \E k \in Ports : DriverDrops(k)
    BY <1>6 DEF DriverDrops, DriverStep
  <1>7. CASE UNCHANGED vars
    BY <1>7 DEF vars, DriverStep
  <1> QED BY <1>2, <1>3, <1>4, <1>5, <1>6, <1>7 DEF Next

\* Every variable stays in its range.
THEOREM TypeCorrect == Spec => []TypeOK
  <1>1. Init => driver \in Driver
    BY DEF Init, Driver
  <1>2. ASSUME driver \in Driver, ClientInv, [Next]_vars PROVE (driver \in Driver)'
    <2>1. DriverStep
      BY <1>2, DriverSteps
    <2>2. ASSUME NEW K \in SUBSET Ports, driver' \in Unplugged(K) PROVE driver' \in Driver
      BY <1>2, <2>2, UnpluggedFacts
    <2> QED BY <1>2, <2>1, <2>2 DEF DriverStep, Driver
  <1>3. ClientInv /\ driver \in Driver => TypeOK
    BY DEF ClientInv, Types, TypeOK, Proc, DeviceList, Device, Table, Rows, Driver
  <1> QED BY <1>1, <1>2, <1>3, ClientCorrect, PTL DEF Spec

----------------------------------------------------------------------------
(* One client process, and a driver that unplugs what it is asked to.      *)

\* What is plugged in is not free in the table.  The port of a device that is
\* about to be plugged in is the first free one of the table: so the driver,
\* which takes its own first free port, takes that one or one before it that
\* the table has in use.
DriverInv == \A p \in Procs, k \in Ports : driver[k] # None => ports[p][k] # "FREE"

\* With one client, no step plugs something into a port its table says is free,
\* or frees a port of the table without unplugging it.
LEMMA DriverFollowed ==
  ASSUME ~UnplugMayFail, \A p, q \in Procs : p = q,
         ClientInv, driver \in Driver, DriverInv, [Next]_vars
  PROVE  DriverInv'
  <1>0. ports \in [Procs -> Table]
    BY DEF ClientInv, Types
  <1>1. CASE UNCHANGED <<ports, driver>>
    BY <1>1 DEF DriverInv
  <1>2. ASSUME NEW p \in Procs, NEW k \in Ports, vhci_detach(p, k) PROVE DriverInv'
    <2>1. CASE ports[p][k] = "FREE"
      BY <1>1, <1>2, <2>1 DEF vhci_detach
    <2>2. CASE ports[p][k] # "FREE"
      BY <1>2, <2>2, DetachDriver DEF DriverInv
    <2> QED BY <2>1, <2>2
  <1>3. ASSUME NEW p \in Procs, vhci_attach(p) PROVE DriverInv'
    <2> DEFINE first == First({k \in Ports : driver[k] = None})
               port == Dev(p).vhci_port
    <2>1. /\ {k \in Ports : driver[k] = None} # {} /\ proc[p].pc = "plug"
          /\ driver' = [driver EXCEPT ![first] = <<p, proc[p].busid>>]
          /\ ports' = [ports EXCEPT ![p][port] = "CONNECTED"]
      BY <1>3 DEF vhci_attach, Go
    <2>2. first \in Ports /\ driver[first] = None /\ \A k \in Ports : driver[k] = None => first <= k
      BY <2>1, PluggedPort
    <2>3. PortTable(proc[p], device[p], ports[p])
      BY DEF ClientInv, OwnInv, Own
    <2>4. /\ port \in Ports /\ ports[p][port] = "FREE"
          /\ \A k \in Ports : ports[p][k] = "FREE" => port <= k
      BY <2>1, <2>3 DEF PortTable, Dev
    <2> HIDE DEF first, port
    <2>5. first <= port
      BY <2>2, <2>4 DEF DriverInv
    <2>6. first = port \/ ports[p][first] # "FREE"
      BY <2>2, <2>4, <2>5 DEF Ports
    <2>7. /\ driver'[first] = <<p, proc[p].busid>>
          /\ \A k \in Ports : k # first => driver'[k] = driver[k]
      BY <2>1, <2>2 DEF Driver
    <2>8. /\ ports'[p][port] = "CONNECTED"
          /\ \A k \in Ports : k # port => ports'[p][k] = ports[p][k]
      BY <1>0, <2>1, <2>4 DEF Table
    <2>9. ASSUME NEW k \in Ports, driver'[k] # None PROVE ports'[p][k] # "FREE"
      BY <2>2, <2>4, <2>6, <2>7, <2>8, <2>9 DEF DriverInv
    <2> QED BY <2>9 DEF DriverInv
  <1>4. ASSUME NEW p \in Procs, PlugFails(p) PROVE DriverInv'
    <2>1. \A k \in Ports : ports'[p][k] \in {ports[p][k], "ERROR"}
      BY <1>0, <1>4 DEF PlugFails, Table
    <2> QED BY <1>4, <2>1 DEF PlugFails, DriverInv
  <1>5. ASSUME NEW p \in Procs, FreePort(p) PROVE DriverInv'
    <2>1. Dev(p).vhci_port \in Ports \cup {NoPort}
      BY <1>5 DEF ClientInv, OwnInv, Own, Devices, Working, FreePort, Dev, DeviceList, Device
    <2> QED BY <1>1, <1>2, <1>5, <2>1 DEF FreePort
  <1>6. ASSUME NEW p \in Procs, vhci_cleanup(p) PROVE DriverInv'
    <2> DEFINE K == {k \in Ports : ports[p][k] # "FREE"}
    <2>1. driver' \in Unplugged(K) /\ K \in SUBSET Ports
      BY <1>6 DEF vhci_cleanup
    <2>2. /\ \A k \in Ports : driver'[k] \in {driver[k], None}
          /\ \A k \in K : driver'[k] = None
      <3> HIDE DEF K
      <3> QED BY <2>1, UnpluggedFacts
    <2>3. \A k \in Ports : driver'[k] = None
      BY <2>2 DEF DriverInv
    <2> QED BY <2>3 DEF DriverInv
  <1>7. ASSUME NEW k \in Ports, DriverDrops(k) PROVE DriverInv'
    BY <1>7 DEF DriverDrops, DriverInv, Driver
  <1>8. ASSUME NEW p \in Procs, Connecting(p) PROVE DriverInv'
    BY <1>1, <1>3, <1>4, <1>8 DEF Connecting, Connect, ConnectFails, Auth, AuthFails, Import,
       client_gui_connect, ListFails, populate_device_list, ListClose
  <1>9. ASSUME NEW p \in Procs, Leaving(p) PROVE DriverInv'
    BY <1>1, <1>5, <1>6, <1>9 DEF Leaving, FreeSocket, remote_device_disconnect_all,
       remote_device_disconnect, DisconnectAllDone, Announce, AttachedEnds
  <1>10. ASSUME NEW p \in Procs, Asked(p) PROVE DriverInv'
    BY <1>1, <1>2, <1>10 DEF Asked, cmd_detach, AttachCommand, client_gui_attach_device,
       client_gui_detach_device, remote_device_disconnect, DisconnectAllStart, ListOpen,
       ListOpenFails, signal_handler
  <1>11. ASSUME NEW p \in Procs, Start(p) \/ DiscoveryOpen(p) \/ DiscoveryClose(p)
         PROVE  DriverInv'
    BY <1>1, <1>11 DEF Start, DiscoveryOpen, DiscoveryClose
  <1>12. CASE UNCHANGED vars
    BY <1>1, <1>12 DEF vars
  <1> QED BY <1>7, <1>8, <1>9, <1>10, <1>11, <1>12 DEF Next

\* With one client process and a driver that never refuses an unplug, the
\* driver's used ports stay among those of the client's table.
THEOREM TableCoversDriver ==
  ASSUME ~UnplugMayFail, \A p, q \in Procs : p = q
  PROVE  Spec => []DriverInv
  <1>1. Init => DriverInv
    BY DEF Init, DriverInv
  <1>2. TypeOK => driver \in Driver
    BY DEF TypeOK, Driver
  <1>3. ClientInv /\ TypeOK /\ DriverInv /\ [Next]_vars => DriverInv'
    BY <1>2, DriverFollowed
  <1> QED BY <1>1, <1>3, ClientCorrect, TypeCorrect, PTL DEF Spec

\* So a port that vhci_find_free_port may take is one the driver has not in use,
\* although the table is never read back: what fails with two processes.
THEOREM FreePortsAreAvailable ==
  ASSUME ~UnplugMayFail, \A p, q \in Procs : p = q
  PROVE  Spec => []FreeIsAvailable
  <1>1. DriverInv => FreeIsAvailable
    BY DEF DriverInv, FreeIsAvailable
  <1>2. Spec => []DriverInv
    BY TableCoversDriver
  <1> QED BY <1>1, <1>2, PTL

\* And a client that has ended leaves nothing plugged in: a device the driver
\* dropped, and the ports after it, included.
THEOREM NothingLeftPlugged ==
  ASSUME ~UnplugMayFail, \A p, q \in Procs : p = q
  PROVE  Spec => []ExitUnplugs
  <1>1. ASSUME ClientInv, DriverInv, NEW p \in Procs, NEW k \in Ports, NEW b \in Busids,
               proc[p].pc = "none"
        PROVE  driver[k] # <<p, b>>
    <2>1. Devices(proc[p], device[p]) /\ PortTable(proc[p], device[p], ports[p])
      BY <1>1 DEF ClientInv, OwnInv, Own
    <2>2. \A c \in Busids : device[p][c].vhci_port = NoPort
      BY <1>1, <2>1, NoDeviceFacts DEF Devices, Working
    <2>3. ports[p][k] = "FREE"
      BY <2>1, <2>2 DEF PortTable, Ports, NoPort
    <2>4. driver[k] = None
      BY <1>1, <2>3 DEF DriverInv
    <2> QED BY <2>4
  <1>2. ClientInv /\ DriverInv => ExitUnplugs
    BY <1>1 DEF ExitUnplugs
  <1>3. Spec => []DriverInv
    BY TableCoversDriver
  <1> QED BY <1>2, <1>3, ClientCorrect, PTL
=============================================================================
