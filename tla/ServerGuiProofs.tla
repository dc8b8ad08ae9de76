--------------------------- MODULE ServerGuiProofs --------------------------
(***************************************************************************)
(* Proofs about the GUI server, for any number of clients and devices: its *)
(* handler threads serve their clients at the same time, and the window    *)
(* takes the clients down while those threads may still be running.        *)
(***************************************************************************)
EXTENDS ServerGui, FiniteSetTheorems, TLAPS

Windows == {"start", "fill", "run", "stop", "drop", "remove", "free", "close", "exit"}

\* Every variable of the server stays in its range.
GuiTypeOK ==
  /\ TypeOK
  /\ win \in Windows /\ server_running \in BOOLEAN
  /\ accepting \in {"off", "wait", "got"}
  /\ inlist \in SUBSET Devices
  /\ row \in [Devices -> {"absent", "ticked", "unticked"}]
  /\ victim \in Clients \cup {None}

Listed == {c \in Clients : client[c].listed}

\* What the place of the window's thread says about the accept thread, and
\* about the clients it is taking down.
Phases ==
  /\ win \in {"drop", "remove", "free", "close"} => accepting = "off"
  /\ server_running => win \in {"fill", "run", "exit"}
  /\ win = "start" => ~server_running /\ accepting = "off"
  /\ win = "free" => victim \in Clients /\ ~client[victim].listed
  /\ win = "close" => \A c \in Clients : ~client[c].listed

\* The count is right, and a client object that is free, or that its thread is
\* about to free, is not in the list.
Accounts ==
  /\ IsFiniteSet(Listed) /\ CountIsLength
  /\ \A c \in Clients : client[c].pc \in {"none", "free"} => ~client[c].listed

\* What the place of a client's thread says about its fields, until the
\* window interferes.
Fields(r) ==
  /\ r.listed <=> r.pc \notin {"none", "free"}
  /\ r.pc \in {"none", "open", "claim", "handler", "export"} => r.busid = None
  /\ r.pc \in {"open", "claim", "handler", "export"} => r.arg # None
  /\ r.device = IF r.pc = "unexport" THEN None ELSE r.busid
  /\ r.handler = IF r.pc = "export" THEN r.arg ELSE r.device

\* A client's thread has opened the device and will close it.
Opened(r, d) == r.device = d \/ (r.pc \in {"claim", "handler", "export"} /\ r.arg = d)

\* An export has its client, and an open device somebody who will close it.
\* Two threads may have opened the same device: the converse does not hold.
Entries ==
  \A d \in Devices :
    /\ entry[d].state = "EXPORTED" =>
         \E c \in Clients : entry[d].client_id = c /\ client[c].listed /\ client[c].busid = d
    /\ entry[d].is_open => \E c \in Clients : Opened(client[c], d)

\* All of that while the server runs, and before it is started.
Served ==
  win = "start" \/ server_running =>
    (\A c \in Clients : Fields(client[c])) /\ Entries /\ stray = {}

GuiInv == GuiTypeOK /\ Phases /\ Accounts /\ Served

----------------------------------------------------------------------------
(* What a step of one client's thread may change.                          *)

\* A step of client c's thread, or of its peer.
ThreadAction(c) ==
  \/ ThreadStep(c)
  \/ (Request(c) \/ RequestFails(c) \/ PeerGone(c)) /\ UNCHANGED guiVars

\* Only client c changes; it keeps its place in the list or is unlinked and
\* counted off; nobody's sharing changes.
Change(c) ==
  /\ client' \in [Clients -> ClientType] /\ entry' \in [Devices -> EntryType]
  /\ stray' \in SUBSET Devices
  /\ \A x \in Clients : x # c => client'[x] = client[x]
  /\ \/ client_count' = client_count /\ client'[c].listed = client[c].listed
     \/ client_count' = client_count - 1 /\ client[c].listed /\ ~client'[c].listed
  /\ client'[c].pc \in {"none", "free"} => ~client'[c].listed
  /\ \A d \in Devices : entry'[d].is_shared = entry[d].is_shared

\* The entry of device d goes with what client c becomes: an export that is
\* new is c's, one that was c's still is, and a device c had open is closed
\* unless c still has it open.
FitsEntry(c, d) ==
  /\ entry'[d].state = "EXPORTED" =>
       \/ entry'[d].client_id = c /\ client'[c].listed /\ client'[c].busid = d
       \/ /\ entry[d].state = "EXPORTED" /\ entry'[d].client_id = entry[d].client_id
          /\ client[c].listed /\ client[c].busid = d =>
               client'[c].listed /\ client'[c].busid = d
  /\ entry'[d].is_open =>
       Opened(client'[c], d) \/ (entry[d].is_open /\ ~Opened(client[c], d))

Fits(c) ==
  /\ Fields(client'[c]) /\ stray' = {}
  /\ \A d \in Devices : FitsEntry(c, d)

\* The whole list fits when the one client that changed does.
LEMMA EntriesFit ==
  ASSUME NEW c \in Clients, Change(c), Fits(c), Entries,
         \A x \in Clients : Fields(client[x])
  PROVE  Entries' /\ (\A x \in Clients : Fields(client'[x])) /\ stray' = {}
  <1>1. \A x \in Clients : x # c => client'[x] = client[x]
    BY DEF Change
  <1>2. \A x \in Clients : Fields(client'[x])
    BY <1>1 DEF Fits
  <1>3. ASSUME NEW d \in Devices, entry'[d].state = "EXPORTED"
        PROVE  \E x \in Clients : entry'[d].client_id = x /\ client'[x].listed
                                  /\ client'[x].busid = d
    BY <1>1, <1>3 DEF Fits, FitsEntry, Entries
  <1>4. ASSUME NEW d \in Devices, entry'[d].is_open
        PROVE  \E x \in Clients : Opened(client'[x], d)
    BY <1>1, <1>4 DEF Fits, FitsEntry, Entries
  <1> QED BY <1>2, <1>3, <1>4 DEF Fits, Entries

\* The count stays right when client c keeps its place or is counted off.
LEMMA CountFits ==
  ASSUME TypeOK, Accounts, NEW c \in Clients, Change(c)
  PROVE  Accounts'
  <1>1. \A x \in Clients : x # c => client'[x] = client[x]
    BY DEF Change
  <1>2. \A x \in Clients : client'[x].pc \in {"none", "free"} => ~client'[x].listed
    BY <1>1 DEF Change, Accounts
  <1>3. CASE client_count' = client_count /\ client'[c].listed = client[c].listed
    <2>1. Listed' = Listed
      BY <1>1, <1>3 DEF Listed
    <2> QED BY <1>2, <1>3, <2>1 DEF Accounts, CountIsLength, Listed
  <1>4. CASE client_count' = client_count - 1 /\ client[c].listed /\ ~client'[c].listed
    <2>1. Listed' = Listed \ {c} /\ c \in Listed
      BY <1>1, <1>4 DEF Listed
    <2>2. IsFiniteSet(Listed') /\ Cardinality(Listed') = Cardinality(Listed) - 1
      BY <2>1, FS_RemoveElement DEF Accounts
    <2>3. Cardinality(Listed) = client_count /\ client_count \in Int
      BY DEF Accounts, CountIsLength, Listed, TypeOK
    <2>4. Cardinality(Listed') = client_count' /\ client_count' <= MAX_CLIENTS
      BY <1>4, <2>2, <2>3, ManagerAssumption DEF Accounts, CountIsLength
    <2> QED BY <1>2, <2>2, <2>4 DEF Accounts, CountIsLength, Listed
  <1> QED BY <1>3, <1>4 DEF Change

----------------------------------------------------------------------------
(* The steps of a client's thread.                                         *)

\* Closing or unexporting a device leaves the others alone.
LEMMA EntryUpdates ==
  ASSUME entry \in [Devices -> EntryType], NEW e \in Devices \cup {None},
         usb_close_device(e) \/ device_list_unexport(e)
  PROVE  /\ entry' \in [Devices -> EntryType]
         /\ \A d \in Devices :
              /\ entry'[d].is_shared = entry[d].is_shared
              /\ d # e => entry'[d] = entry[d]
  <1>1. ASSUME NEW d \in Devices
        PROVE  /\ entry[d] \in EntryType
               /\ [entry[d] EXCEPT !.is_open = FALSE] \in EntryType
               /\ [entry[d] EXCEPT !.state = "AVAILABLE", !.client_id = None] \in EntryType
               /\ [entry[d] EXCEPT !.is_open = FALSE].is_shared = entry[d].is_shared
               /\ [entry[d] EXCEPT !.state = "AVAILABLE", !.client_id = None].is_shared
                    = entry[d].is_shared
    BY DEF EntryType
  <1>2. CASE usb_close_device(e)
    <2>1. entry' = [entry EXCEPT ![e] = [entry[e] EXCEPT !.is_open = FALSE]]
      BY <1>2 DEF usb_close_device
    <2> QED BY <1>1, <2>1
  <1>3. CASE device_list_unexport(e)
    <2>1. entry' = [entry EXCEPT ![e] = [entry[e] EXCEPT !.state = "AVAILABLE",
                                                         !.client_id = None]]
      BY <1>3 DEF device_list_unexport
    <2> QED BY <1>1, <2>1
  <1> QED BY <1>2, <1>3

\* Every step of a thread is such a change, whoever has removed its client.
LEMMA ThreadChange ==
  ASSUME TypeOK, Accounts, NEW c \in Clients, ThreadAction(c)
  PROVE  Change(c) /\ client_count' \in Int /\ UNCHANGED guiVars
  <1>a. /\ client \in [Clients -> ClientType] /\ client[c] \in ClientType
        /\ entry \in [Devices -> EntryType] /\ client_count \in Int
        /\ stray \in SUBSET Devices
        /\ client[c].pc \in {"none", "free"} => ~client[c].listed
    BY DEF TypeOK, Accounts
  <1>g. UNCHANGED guiVars
    BY DEF ThreadAction, ThreadStep
  <1> SUFFICES Change(c) /\ client_count' \in Int
    BY <1>g
  <1>b. ASSUME NEW p \in Places, p \notin {"none", "free"}, Go(c, client[c].pc, p),
               client[c].pc \notin {"none", "free"},
               client_count' = client_count, entry' = entry, stray' = stray
        PROVE  Change(c) /\ client_count' \in Int
    BY <1>a, <1>b DEF Go, Change, ClientType
  <1>1. CASE RequestFails(c)
    BY <1>1, <1>b DEF RequestFails, Go, Places
  <1>2. CASE PeerGone(c)
    BY <1>2, <1>a DEF PeerGone, Change, ClientType
  <1>3. CASE Request(c)
    <2>1. CASE Go(c, "idle", "list") /\ UNCHANGED <<client_count, entry, stray>>
      BY <2>1, <1>b DEF Go, Places
    <2>2. ASSUME NEW d \in Devices, AttachCheck(c, d) PROVE Change(c) /\ client_count' \in Int
      BY <2>2, <1>a DEF AttachCheck, Change, ClientType, Places
    <2> QED BY <1>3, <2>1, <2>2 DEF Request
  <1>4. CASE AttachOpen(c)
    BY <1>4, <1>a DEF AttachOpen, Go, usb_open_device, Change, ClientType, EntryType, Places
  <1>5. CASE AttachClaim(c)
    BY <1>5, <1>b DEF AttachClaim, Go, Places
  <1>6. CASE AttachHandler(c)
    BY <1>6, <1>a DEF AttachHandler, Strays, Change, ClientType, Places
  <1>7. CASE AttachHandlerFails(c)
    <2>1. usb_close_device(client[c].arg) /\ client[c].arg \in Devices \cup {None}
      BY <1>7, <1>a DEF AttachHandlerFails, ClientType
    <2> QED BY <1>7, <1>a, <2>1, EntryUpdates DEF AttachHandlerFails, Strays, Change,
         ClientType, Places
  <1>8. CASE AttachExport(c)
    <2>1. /\ entry' \in [Devices -> EntryType]
          /\ \A d \in Devices : entry'[d].is_shared = entry[d].is_shared
      BY <1>8, <1>a DEF AttachExport, device_list_export, EntryType
    <2> QED BY <1>8, <1>a, <2>1 DEF AttachExport, Change, ClientType, Places
  <1>9. CASE ImportReply(c) \/ ImportReplyFails(c) \/ ImportRefused(c) \/ SendDevicesFails(c)
    BY <1>9, <1>b DEF ImportReply, ImportReplyFails, ImportRefused, SendDevicesFails, Go, Places
  <1>10. CASE DetachClose(c)
    <2>1. usb_close_device(client[c].device) /\ client[c].device \in Devices \cup {None}
      BY <1>10, <1>a DEF DetachClose, ClientType
    <2> QED BY <1>10, <1>a, <2>1, EntryUpdates DEF DetachClose, Change, ClientType, Places
  <1>11. CASE DetachUnexport(c)
    <2>1. device_list_unexport(client[c].busid) /\ client[c].busid \in Devices \cup {None}
      BY <1>11, <1>a DEF DetachUnexport, ClientType
    <2> QED BY <1>11, <1>a, <2>1, EntryUpdates DEF DetachUnexport, Change, ClientType, Places
  <1>12. CASE Reply(c)
    BY <1>12, <1>b DEF Reply, Go, Places
  <1>13. CASE Remove(c)
    <2>1. CASE client[c].listed /\ RemoveUnlink(c)
      <3>1. /\ entry' \in [Devices -> EntryType]
            /\ \A d \in Devices : entry'[d].is_shared = entry[d].is_shared
        BY <2>1, <1>a, EntryUpdates DEF RemoveUnlink, ClientType
      <3> QED BY <2>1, <1>a, <3>1 DEF RemoveUnlink, Change, ClientType, Places
    <2> QED BY <1>13, <2>1, <1>a DEF Remove, Change, ClientType, Places
  <1>14. CASE free_client(c)
    <2>1. /\ entry' \in [Devices -> EntryType]
          /\ \A d \in Devices : entry'[d].is_shared = entry[d].is_shared
      BY <1>14, <1>a, EntryUpdates DEF free_client, ClientType
    <2> QED BY <1>14, <1>a, <2>1 DEF free_client, Change, ClientType, Places, NoClient
  <1>15. CASE StaleRequest(c)
    BY <1>15, <1>b DEF StaleRequest, Stale, Go, Places
  <1>16. CASE Serve(c)
    BY <1>16, <1>4, <1>5, <1>6, <1>7, <1>8, <1>9, <1>10, <1>11 DEF Serve, InImport
  <1> QED BY <1>1, <1>2, <1>3, <1>12, <1>13, <1>14, <1>15, <1>16
      DEF ThreadAction, ThreadStep

\* While the window leaves the clients alone, what a thread does to the
\* entries goes with what it does to its client.
LEMMA ThreadFits ==
  ASSUME TypeOK, NEW c \in Clients, Fields(client[c]), stray = {}, ThreadAction(c)
  PROVE  Fits(c)
  <1>a. /\ client \in [Clients -> ClientType] /\ client[c] \in ClientType
        /\ entry \in [Devices -> EntryType] /\ None \notin Devices
        /\ Fields(client[c]) /\ ~Stale(c)
    BY ManagerAssumption DEF TypeOK, Fields, Stale
  <1>b. ASSUME NEW p, p \notin {"none", "free", "open", "claim", "handler", "export", "unexport"},
               client' = [client EXCEPT ![c].pc = p],
               client[c].pc \notin {"none", "free", "claim", "handler", "export", "unexport"},
               entry' = entry, stray' = stray
        PROVE  Fits(c)
    <2>1. client'[c] = [client[c] EXCEPT !.pc = p]
      BY <1>a, <1>b
    <2> QED BY <2>1, <1>a, <1>b DEF Fits, FitsEntry, Fields, Opened, ClientType
  <1>1. CASE RequestFails(c)
    BY <1>1, <1>b DEF RequestFails, Go
  <1>2. CASE PeerGone(c)
    <2>1. client'[c] = [client[c] EXCEPT !.up = FALSE]
      BY <1>a, <1>2 DEF PeerGone
    <2> QED BY <1>2, <2>1, <1>a DEF PeerGone, Fits, FitsEntry, Fields, Opened, ClientType
  <1>3. CASE Request(c)
    <2>1. CASE Go(c, "idle", "list") /\ UNCHANGED <<client_count, entry, stray>>
      BY <2>1, <1>b DEF Go
    <2>2. ASSUME NEW d \in Devices, client[c].busid = None, AttachCheck(c, d) PROVE Fits(c)
      BY <2>2, <1>a DEF AttachCheck, Fits, FitsEntry, Fields, Opened, ClientType
    <2> QED BY <1>3, <2>1, <2>2 DEF Request
  <1>4. CASE AttachOpen(c)
    <2>1. client[c].pc = "open" /\ client[c].arg \in Devices
          /\ client'[c] = [client[c] EXCEPT !.pc = "claim"] /\ stray' = {}
      BY <1>4, <1>a DEF AttachOpen, Go, Fields, ClientType
    <2>2. \A d \in Devices :
            /\ entry'[d].state = entry[d].state /\ entry'[d].client_id = entry[d].client_id
            /\ d # client[c].arg => entry'[d] = entry[d]
      BY <1>4, <1>a, <2>1 DEF AttachOpen, usb_open_device, EntryType
    <2> QED BY <2>1, <2>2, <1>a DEF Fits, FitsEntry, Fields, Opened, ClientType
  <1>5. CASE AttachClaim(c)
    <2>1. client[c].pc = "claim" /\ client[c].arg \in Devices
          /\ client'[c] = [client[c] EXCEPT !.pc =
               IF entry[client[c].arg].is_open THEN "handler" ELSE "refuse"]
          /\ entry' = entry /\ stray' = {}
      BY <1>5, <1>a DEF AttachClaim, Go, Fields, ClientType
    <2> QED BY <2>1, <1>a DEF Fits, FitsEntry, Fields, Opened, ClientType
  <1>6. CASE AttachHandler(c)
    BY <1>6, <1>a DEF AttachHandler, Strays, Fits, FitsEntry, Fields, Opened, ClientType
  <1>7. CASE AttachHandlerFails(c)
    <2>1. /\ client[c].pc = "handler" /\ client[c].arg \in Devices /\ stray' = {}
          /\ client'[c] = [client[c] EXCEPT !.pc = "refuse", !.handler = None]
          /\ usb_close_device(client[c].arg)
      BY <1>7, <1>a DEF AttachHandlerFails, Strays, Fields, ClientType
    <2>2. \A d \in Devices :
            /\ entry'[d].state = entry[d].state /\ entry'[d].client_id = entry[d].client_id
            /\ IF d = client[c].arg THEN ~entry'[d].is_open ELSE entry'[d] = entry[d]
      BY <1>a, <2>1 DEF usb_close_device, EntryType
    <2> QED BY <2>1, <2>2, <1>a DEF Fits, FitsEntry, Fields, Opened, ClientType
  <1>8. CASE AttachExport(c)
    <2>1. /\ client[c].pc = "export" /\ client[c].arg \in Devices /\ stray' = {}
          /\ client'[c] = [client[c] EXCEPT !.pc = "reply", !.busid = client[c].arg,
                                            !.device = client[c].arg]
      BY <1>8, <1>a DEF AttachExport, Fields, ClientType
    <2>2. \A d \in Devices :
            /\ entry'[d].is_open = entry[d].is_open
            /\ \/ entry'[d] = entry[d]
               \/ d = client[c].arg /\ entry'[d].client_id = c
      BY <1>8, <1>a, <2>1 DEF AttachExport, device_list_export, EntryType
    <2> QED BY <2>1, <2>2, <1>a DEF Fits, FitsEntry, Fields, Opened, ClientType
  <1>9. CASE ImportReply(c) \/ ImportReplyFails(c) \/ ImportRefused(c) \/ SendDevicesFails(c)
    BY <1>9, <1>b DEF ImportReply, ImportReplyFails, ImportRefused, SendDevicesFails, Go
  <1>10. CASE DetachClose(c)
    <2>1. /\ client[c].pc = "detach" /\ client[c].device \in Devices \cup {None}
          /\ client'[c] = [client[c] EXCEPT !.pc = "unexport", !.handler = None,
                                            !.device = None]
          /\ usb_close_device(client[c].device) /\ stray' = {}
      BY <1>10, <1>a DEF DetachClose, ClientType
    <2>2. \A d \in Devices :
            /\ entry'[d].state = entry[d].state /\ entry'[d].client_id = entry[d].client_id
            /\ IF d = client[c].device THEN ~entry'[d].is_open ELSE entry'[d] = entry[d]
      BY <1>a, <2>1 DEF usb_close_device, EntryType
    <2> QED BY <2>1, <2>2, <1>a DEF Fits, FitsEntry, Fields, Opened, ClientType
  <1>11. CASE DetachUnexport(c)
    <2>1. /\ client[c].pc = "unexport" /\ client[c].busid \in Devices \cup {None}
          /\ client'[c] = [client[c] EXCEPT !.pc = "end", !.busid = None]
          /\ device_list_unexport(client[c].busid) /\ stray' = {}
      BY <1>11, <1>a DEF DetachUnexport, ClientType
    <2>2. \A d \in Devices :
            /\ entry'[d].is_open = entry[d].is_open
            /\ IF d = client[c].busid THEN entry'[d].state = "AVAILABLE"
                                      ELSE entry'[d] = entry[d]
      BY <1>a, <2>1 DEF device_list_unexport, EntryType
    <2> QED BY <2>1, <2>2, <1>a DEF Fits, FitsEntry, Fields, Opened, ClientType
  <1>12. CASE Reply(c)
    BY <1>12, <1>b DEF Reply, Go
  <1>13. CASE Remove(c)
    <2>1. RemoveUnlink(c)
      BY <1>13, <1>a DEF Remove, Fields
    <2>2. /\ client[c].pc = "end" /\ client[c].busid \in Devices \cup {None} /\ stray' = {}
          /\ client'[c] = [client[c] EXCEPT !.pc = "free", !.listed = FALSE]
      BY <2>1, <1>a DEF RemoveUnlink, ClientType
    <2>3. \A d \in Devices :
            /\ entry'[d].is_open = entry[d].is_open
            /\ IF d = client[c].busid THEN entry'[d].state = "AVAILABLE"
                                      ELSE entry'[d] = entry[d]
      BY <1>a, <2>1, <2>2 DEF RemoveUnlink, device_list_unexport, EntryType
    <2> QED BY <2>2, <2>3, <1>a DEF Fits, FitsEntry, Fields, Opened, ClientType
  <1>14. CASE free_client(c)
    <2>1. /\ client[c].pc = "free" /\ client[c].device \in Devices \cup {None}
          /\ client'[c] = NoClient /\ stray' = {}
      BY <1>14, <1>a DEF free_client, ClientType
    <2>2. \A d \in Devices :
            /\ entry'[d].state = entry[d].state /\ entry'[d].client_id = entry[d].client_id
            /\ IF d = client[c].device THEN ~entry'[d].is_open ELSE entry'[d] = entry[d]
      BY <1>a, <1>14, <2>1 DEF free_client, usb_close_device, EntryType
    <2> QED BY <2>1, <2>2, <1>a DEF Fits, FitsEntry, Fields, Opened, ClientType, NoClient
  <1>15. CASE StaleRequest(c)
    BY <1>15, <1>a DEF StaleRequest
  <1>16. CASE Serve(c)
    BY <1>16, <1>4, <1>5, <1>6, <1>7, <1>8, <1>9, <1>10, <1>11 DEF Serve, InImport
  <1> QED BY <1>1, <1>2, <1>3, <1>12, <1>13, <1>14, <1>15, <1>16
      DEF ThreadAction, ThreadStep

----------------------------------------------------------------------------
(* The invariant.                                                          *)

\* server_gui_init, before the server is started, establishes the invariant.
LEMMA GuiInitial == GuiInit => GuiInv
  <1> SUFFICES ASSUME GuiInit PROVE GuiInv
    OBVIOUS
  <1>1. NoClient \in ClientType /\ [NewEntry EXCEPT !.is_shared = FALSE] \in EntryType
    BY DEF NoClient, ClientType, Places, NewEntry, EntryType
  <1>2. GuiTypeOK
    <2>1. client \in [Clients -> ClientType] /\ entry \in [Devices -> EntryType]
      BY <1>1, Zenon DEF GuiInit
    <2>2. row \in [Devices -> {"absent", "ticked", "unticked"}]
      BY Zenon DEF GuiInit
    <2>3. /\ client_count = 0 /\ stray = {} /\ win = "start" /\ server_running = FALSE
          /\ accepting = "off" /\ inlist = {} /\ victim = None
      BY Zenon DEF GuiInit
    <2>4. TypeOK
      BY <2>1, <2>3 DEF TypeOK
    <2> QED BY <2>2, <2>3, <2>4 DEF GuiTypeOK, Windows
  <1>3. Phases
    BY DEF GuiInit, Phases
  <1>4. Listed = {}
    BY DEF GuiInit, Listed, NoClient
  <1>5. IsFiniteSet(Listed) /\ Cardinality(Listed) = 0
    BY <1>4, FS_EmptySet
  <1>6. Accounts
    BY <1>5, ManagerAssumption DEF GuiInit, Accounts, CountIsLength, Listed, NoClient
  <1>7. Served
    BY ManagerAssumption DEF GuiInit, Served, Fields, Entries, NoClient, NewEntry
  <1> QED BY <1>2, <1>3, <1>6, <1>7 DEF GuiInv

\* A step that changes one client's object and leaves the window's thread
\* alone, or is its own when the server has been stopped, keeps the invariant.
LEMMA ChangeKeeps ==
  ASSUME GuiInv, NEW c \in Clients, Change(c), client_count' \in Int,
         GuiTypeOK' , Phases',
         win' = "start" \/ server_running' =>
           (win = "start" \/ server_running) /\ Fits(c)
  PROVE  GuiInv'
  <1>1. Accounts'
    BY CountFits DEF GuiInv, GuiTypeOK
  <1>2. Served'
    BY EntriesFit DEF GuiInv, Served
  <1> QED BY <1>1, <1>2 DEF GuiInv

\* The steps of the clients' threads keep the invariant.
LEMMA ThreadKeeps ==
  ASSUME GuiInv, NEW c \in Clients, ThreadAction(c)
  PROVE  GuiInv'
  <1>1. Change(c) /\ client_count' \in Int /\ UNCHANGED guiVars
    BY ThreadChange DEF GuiInv, GuiTypeOK
  <1>2. GuiTypeOK'
    BY <1>1 DEF GuiInv, GuiTypeOK, TypeOK, Change, guiVars
  <1>3. Phases'
    BY <1>1 DEF GuiInv, Phases, Change, guiVars
  <1>4. win = "start" \/ server_running => Fits(c)
    BY ThreadFits DEF GuiInv, GuiTypeOK, Served
  <1> QED BY <1>1, <1>2, <1>3, <1>4, ChangeKeeps DEF guiVars

\* The accept thread enters a client, with a thread or without.
LEMMA AcceptKeeps ==
  ASSUME GuiInv, NEW c \in Clients, NEW thread \in BOOLEAN, Accept(c, thread)
  PROVE  GuiInv'
  <1> DEFINE r == client'[c]
  <1>a. /\ client \in [Clients -> ClientType] /\ client[c].pc = "none" /\ ~client[c].listed
        /\ client_count \in Int /\ client_count < MAX_CLIENTS
        /\ accepting # "off"
    BY DEF GuiInv, GuiTypeOK, TypeOK, Accounts, Accept, AcceptNext
  <1>1. /\ \A x \in Clients : x # c => client'[x] = client[x]
        /\ r.pc \in {"orphan", "idle", "end"} /\ r.listed /\ r.busid = None
        /\ r.device = None /\ r.handler = None /\ r \in ClientType
    BY <1>a DEF Accept, NewClient, NoClient, ClientType, Places
  <1>2. /\ client' \in [Clients -> ClientType] /\ client_count' = client_count + 1
        /\ entry' = entry /\ stray' = stray /\ win' = win /\ inlist' = inlist
        /\ server_running' = server_running /\ row' = row /\ victim' = victim
        /\ accepting' \in {accepting, "off"}
    BY <1>1, <1>a DEF Accept, AcceptNext
  <1> HIDE DEF r
  <1>3. GuiTypeOK'
    BY <1>2, <1>a DEF GuiInv, GuiTypeOK, TypeOK
  <1>4. Phases'
    BY <1>2, <1>a DEF GuiInv, Phases
  <1>5. Listed' = Listed \cup {c} /\ c \notin Listed
    BY <1>1, <1>a DEF Listed, r
  <1>6. IsFiniteSet(Listed') /\ Cardinality(Listed') = Cardinality(Listed) + 1
    BY <1>5, FS_AddElement DEF GuiInv, Accounts
  <1>7. Cardinality(Listed') = client_count' /\ client_count' <= MAX_CLIENTS
    <2>1. Cardinality(Listed) = client_count
      BY DEF GuiInv, Accounts, CountIsLength, Listed
    <2> QED BY <2>1, <1>2, <1>6, <1>a, ManagerAssumption
  <1>8. \A x \in Clients : client'[x].pc \in {"none", "free"} => ~client'[x].listed
    BY <1>1 DEF GuiInv, Accounts, r
  <1>9. Accounts'
    BY <1>6, <1>7, <1>8 DEF Accounts, CountIsLength, Listed
  <1>10. Served'
    <2> SUFFICES ASSUME win = "start" \/ server_running
                 PROVE  (\A x \in Clients : Fields(client'[x])) /\ Entries' /\ stray' = {}
      BY <1>2 DEF Served
    <2>1. (\A x \in Clients : Fields(client[x])) /\ Entries /\ stray = {}
      BY DEF GuiInv, Served
    <2>2. Fields(r)
      BY <1>1 DEF Fields
    <2>3. \A x \in Clients : Fields(client'[x])
      BY <1>1, <2>1, <2>2 DEF r
    <2>4. \A d \in Devices : client[c].device # d /\ client[c].busid # d
                             /\ ~Opened(client[c], d)
      BY <2>1, <1>a, ManagerAssumption DEF Fields, Opened
    <2>5. Entries'
      BY <1>1, <1>2, <2>1, <2>4 DEF Entries
    <2> QED BY <1>2, <2>1, <2>3, <2>5
  <1> QED BY <1>3, <1>4, <1>9, <1>10 DEF GuiInv

\* The window takes a client down: unlinks it and frees it, whatever its
\* thread is doing.
LEMMA DropKeeps ==
  ASSUME GuiInv, victim # None, DropUnlink(victim) \/ DropFree(victim)
  PROVE  GuiInv' /\ Change(victim)
  <1> DEFINE c == victim
  <1>a. /\ client \in [Clients -> ClientType] /\ c \in Clients /\ client[c] \in ClientType
        /\ entry \in [Devices -> EntryType] /\ client_count \in Int /\ stray \in SUBSET Devices
    BY DEF GuiInv, GuiTypeOK, TypeOK
  <1>b. /\ win \in {"remove", "free"} /\ win' \in {"drop", "free"} /\ accepting' = accepting
        /\ server_running' = server_running /\ inlist' = inlist /\ row' = row
        /\ victim' = victim /\ ~server_running /\ accepting = "off"
    BY DEF DropUnlink, DropFree, GuiInv, Phases
  <1>1. /\ Change(c) /\ client_count' \in Int
        /\ win' = "free" => ~client'[c].listed
    <2>1. CASE DropUnlink(c) /\ ~client[c].listed
      BY <2>1, <1>a DEF DropUnlink, Change, vars, GuiInv, Accounts
    <2>2. CASE DropUnlink(c) /\ client[c].listed
      <3>1. entry' \in [Devices -> EntryType]
            /\ \A d \in Devices : entry'[d].is_shared = entry[d].is_shared
        BY <2>2, <1>a, EntryUpdates DEF DropUnlink, ClientType
      <3>2. /\ client' = [client EXCEPT ![c].listed = FALSE] /\ stray' = stray
            /\ client_count' = client_count - 1
        BY <2>2 DEF DropUnlink
      <3>3. [client[c] EXCEPT !.listed = FALSE] \in ClientType
            /\ ~[client[c] EXCEPT !.listed = FALSE].listed
        BY <1>a DEF ClientType
      <3>4. /\ client' \in [Clients -> ClientType] /\ ~client'[c].listed
            /\ \A x \in Clients : x # c => client'[x] = client[x]
        BY <3>2, <3>3, <1>a
      <3> QED BY <2>2, <3>1, <3>2, <3>4, <1>a DEF Change
    <2>3. CASE DropFree(c)
      <3>1. entry' \in [Devices -> EntryType]
            /\ \A d \in Devices : entry'[d].is_shared = entry[d].is_shared
        BY <2>3, <1>a, EntryUpdates DEF DropFree, ClientType
      <3>2. /\ client_count' = client_count /\ stray' = stray /\ win' = "drop"
            /\ ~client[c].listed
        BY <2>3 DEF DropFree, GuiInv, Phases
      <3>3. PICK p \in Places : client' = [client EXCEPT ![c] = [NoClient EXCEPT !.pc = p]]
        <4>1. client[c].pc \in Places /\ "none" \in Places
          BY <1>a DEF ClientType, Places
        <4> QED BY <2>3, <4>1 DEF DropFree
      <3>4. [NoClient EXCEPT !.pc = p] \in ClientType
            /\ ~[NoClient EXCEPT !.pc = p].listed
        BY DEF NoClient, ClientType
      <3>5. /\ client' \in [Clients -> ClientType] /\ ~client'[c].listed
            /\ \A x \in Clients : x # c => client'[x] = client[x]
        BY <3>3, <3>4, <1>a
      <3>6. client[c].listed \in BOOLEAN /\ client'[c].listed \in BOOLEAN
        BY <3>5, <1>a DEF ClientType
      <3> QED BY <3>1, <3>2, <3>5, <3>6, <1>a DEF Change
    <2> QED BY <2>1, <2>2, <2>3
  <1>2. GuiTypeOK'
    BY <1>1, <1>b DEF GuiInv, GuiTypeOK, TypeOK, Change, Windows
  <1>3. Phases'
    BY <1>1, <1>a, <1>b DEF Phases
  <1> HIDE DEF c
  <1> QED BY <1>a, <1>b, <1>1, <1>2, <1>3, ChangeKeeps DEF c

\* Entries that are new, or shared or unshared, keep everybody's device.
LEMMA EntriesOnly ==
  ASSUME GuiInv, GuiTypeOK', Phases', client' = client, client_count' = client_count,
         stray' = stray,
         win' = "start" \/ server_running' =>
           /\ win = "start" \/ server_running
           /\ \A d \in Devices :
                \/ entry'[d].state = "AVAILABLE" /\ ~entry'[d].is_open
                \/ /\ entry'[d].state = entry[d].state /\ entry'[d].is_open = entry[d].is_open
                   /\ entry'[d].client_id = entry[d].client_id
  PROVE  GuiInv'
  <1>1. Accounts'
    BY DEF GuiInv, Accounts, CountIsLength, Listed
  <1>2. Served'
    BY DEF GuiInv, Served, Entries
  <1> QED BY <1>1, <1>2 DEF GuiInv

\* The rows are filled: device_list_add enters devices as nobody's.
LEMMA FillKeeps ==
  ASSUME GuiInv, NEW present \in SUBSET Devices, Fill(present)
  PROVE  /\ GuiInv'
         /\ \A d \in inlist : entry'[d].is_shared = entry[d].is_shared
  <1>1. PICK added \in SUBSET (present \ inlist) : device_list_add(added)
    BY DEF Fill, populate_device_list
  <1>2. /\ entry \in [Devices -> EntryType] /\ inlist \in SUBSET Devices
        /\ NewEntry \in EntryType /\ NewEntry.state = "AVAILABLE" /\ ~NewEntry.is_open
    BY DEF GuiInv, GuiTypeOK, TypeOK, NewEntry, EntryType
  <1>3. /\ entry' \in [Devices -> EntryType] /\ inlist' \in SUBSET Devices
        /\ \A d \in Devices : entry'[d] = entry[d] \/ (d \notin inlist /\ entry'[d] = NewEntry)
    BY <1>1, <1>2 DEF device_list_add
  <1>4. row' \in [Devices -> {"absent", "ticked", "unticked"}]
    BY DEF Fill, populate_device_list, Tick
  <1>5. /\ client' = client /\ client_count' = client_count /\ stray' = stray
        /\ server_running' = server_running /\ accepting' = accepting /\ victim' = victim
        /\ win \in {"fill", "run"} /\ win' = "run"
    BY DEF Fill, populate_device_list
  <1>6. GuiTypeOK' /\ Phases'
    BY <1>3, <1>4, <1>5 DEF GuiInv, GuiTypeOK, TypeOK, Phases, Windows
  <1>7. GuiInv'
    BY <1>2, <1>3, <1>5, <1>6, EntriesOnly
  <1> QED BY <1>2, <1>3, <1>7

\* A click shares or unshares the device of its row.
LEMMA ClickKeeps ==
  ASSUME GuiInv, NEW e \in Devices, on_device_checkbox_changed(e)
  PROVE  /\ GuiInv'
         /\ \A d \in inlist : entry'[d].is_shared # entry[d].is_shared =>
              row'[d] # row[d] /\ row'[d] = Tick(entry'[d].is_shared)
  <1> DEFINE checked == row[e] = "unticked"
  <1>a. /\ entry \in [Devices -> EntryType] /\ inlist \in SUBSET Devices
        /\ row \in [Devices -> {"absent", "ticked", "unticked"}]
        /\ checked \in BOOLEAN /\ row[e] \in {"ticked", "unticked"}
    BY DEF GuiInv, GuiTypeOK, TypeOK, on_device_checkbox_changed
  <1>1. /\ row' = [row EXCEPT ![e] = Tick(checked)]
        /\ client' = client /\ client_count' = client_count /\ stray' = stray
        /\ entry' = IF e \in inlist THEN [entry EXCEPT ![e].is_shared = checked] ELSE entry
        /\ server_running' = server_running /\ accepting' = accepting /\ victim' = victim
        /\ win = "run" /\ win' = win /\ inlist' = inlist
    BY DEF on_device_checkbox_changed, device_list_set_shared, vars
  <1>2. row'[e] = Tick(checked) /\ Tick(checked) # row[e]
        /\ row' \in [Devices -> {"absent", "ticked", "unticked"}]
    BY <1>a, <1>1 DEF Tick
  <1> HIDE DEF checked
  <1>3. [entry[e] EXCEPT !.is_shared = checked] \in EntryType
        /\ [entry[e] EXCEPT !.is_shared = checked].is_shared = checked
        /\ [entry[e] EXCEPT !.is_shared = checked].is_open = entry[e].is_open
        /\ [entry[e] EXCEPT !.is_shared = checked].state = entry[e].state
        /\ [entry[e] EXCEPT !.is_shared = checked].client_id = entry[e].client_id
    BY <1>a DEF EntryType
  <1>4. /\ entry' \in [Devices -> EntryType]
        /\ \A d \in Devices : entry'[d].state = entry[d].state
             /\ entry'[d].is_open = entry[d].is_open /\ entry'[d].client_id = entry[d].client_id
        /\ \A d \in Devices : d # e => entry'[d] = entry[d]
        /\ e \in inlist => entry'[e].is_shared = checked
    BY <1>a, <1>1, <1>3
  <1>5. GuiTypeOK' /\ Phases'
    BY <1>1, <1>2, <1>4 DEF GuiInv, GuiTypeOK, TypeOK, Phases
  <1>6. GuiInv'
    BY <1>1, <1>4, <1>5, EntriesOnly
  <1> QED BY <1>2, <1>4, <1>6, <1>a

\* The other steps of the window and the accept thread, which leave the
\* clients alone.
Lifecycle ==
  \/ server_gui_start_server \/ StopServer \/ StopWaits \/ DropDone \/ CloseLists
  \/ \E c \in Clients : DropPick(c) \/ StaleFaults(c)
  \/ AcceptEnds \/ AcceptRefused

\* They keep the invariant: the server runs from its start to StopServer, and
\* the accept thread is gone before the first client is taken down.
LEMMA LifecycleKeeps ==
  ASSUME GuiInv, Lifecycle
  PROVE  /\ GuiInv'
         /\ \A d \in Devices : entry'[d].is_shared = entry[d].is_shared
  <1>a. entry \in [Devices -> EntryType] /\ inlist \in SUBSET Devices
    BY DEF GuiInv, GuiTypeOK, TypeOK
  <1>1. CASE CloseLists
    <2>1. \A d \in Devices : entry[d] \in EntryType
            /\ [entry[d] EXCEPT !.is_open = FALSE] \in EntryType
            /\ [entry[d] EXCEPT !.is_open = FALSE].is_shared = entry[d].is_shared
      BY <1>a DEF EntryType
    <2>2. /\ entry' \in [Devices -> EntryType]
          /\ \A d \in Devices : entry'[d].is_shared = entry[d].is_shared
      BY <1>1, <2>1 DEF CloseLists, device_list_cleanup
    <2>3. /\ win = "close" /\ win' = "exit" /\ inlist' = {} /\ client' = client
          /\ client_count' = client_count /\ stray' = stray
          /\ server_running' = server_running /\ accepting' = accepting
          /\ row' = row /\ victim' = victim
      BY <1>1 DEF CloseLists, device_list_cleanup
    <2>4. GuiTypeOK' /\ Phases' /\ ~server_running'
      BY <2>2, <2>3 DEF GuiInv, GuiTypeOK, TypeOK, Phases, Windows
    <2> QED BY <2>2, <2>3, <2>4, EntriesOnly
  <1>2. ASSUME UNCHANGED <<vars, inlist, row>>, GuiTypeOK', Phases',
               win' = "start" \/ server_running' => win = "start" \/ server_running
        PROVE  GuiInv' /\ \A d \in Devices : entry'[d].is_shared = entry[d].is_shared
    BY <1>2, EntriesOnly DEF vars
  <1>3. CASE server_gui_start_server \/ StopServer
    <2>1. GuiTypeOK' /\ Phases'
      BY <1>3 DEF GuiInv, GuiTypeOK, TypeOK, Phases, Windows, server_gui_start_server,
         StopServer, vars
    <2> QED BY <1>2, <1>3, <2>1 DEF server_gui_start_server, StopServer
  <1>4. CASE StopWaits \/ DropDone \/ AcceptEnds \/ AcceptRefused
    <2>1. GuiTypeOK' /\ Phases'
      BY <1>4 DEF GuiInv, GuiTypeOK, TypeOK, Phases, Windows, StopWaits, DropDone,
         AcceptEnds, AcceptRefused, vars
    <2> QED BY <1>2, <1>4, <2>1 DEF StopWaits, DropDone, AcceptEnds, AcceptRefused
  <1>5. ASSUME NEW c \in Clients, DropPick(c) \/ StaleFaults(c)
        PROVE  GuiInv' /\ \A d \in Devices : entry'[d].is_shared = entry[d].is_shared
    <2>1. GuiTypeOK' /\ Phases'
      BY <1>5 DEF GuiInv, GuiTypeOK, TypeOK, Phases, Windows, DropPick, StaleFaults, vars
    <2> QED BY <1>2, <1>5, <2>1 DEF DropPick, StaleFaults
  <1> QED BY <1>1, <1>3, <1>4, <1>5 DEF Lifecycle

\* The steps of the server, sorted by what they can change.
LEMMA StepCases ==
  ASSUME Next
  PROVE  \/ Lifecycle
         \/ \E present \in SUBSET Devices : Fill(present)
         \/ \E d \in Devices : on_device_checkbox_changed(d)
         \/ victim # None /\ (DropUnlink(victim) \/ DropFree(victim))
         \/ \E c \in Clients, thread \in BOOLEAN : Accept(c, thread)
         \/ \E c \in Clients : ThreadAction(c)
  BY DEF Next, WindowStep, AcceptStep, Lifecycle, ThreadAction

\* Every step keeps the invariant.
LEMMA GuiStep == GuiInv /\ [Next]_allVars => GuiInv'
  <1> SUFFICES ASSUME GuiInv, [Next]_allVars PROVE GuiInv'
    OBVIOUS
  <1>1. CASE UNCHANGED allVars
    BY <1>1, Zenon DEF allVars, vars, guiVars, GuiInv, GuiTypeOK, TypeOK, Phases, Accounts,
       CountIsLength, Listed, Served, Entries
  <1>2. CASE Next
    BY <1>2, StepCases, LifecycleKeeps, FillKeeps, ClickKeeps, DropKeeps, AcceptKeeps,
       ThreadKeeps
  <1> QED BY <1>1, <1>2

\* What the threads of the GUI server keep, for any number of clients.
THEOREM GuiCorrect == Spec => []GuiInv
  <1>1. GuiInit => GuiInv
    BY GuiInitial
  <1>2. GuiInv /\ [Next]_allVars => GuiInv'
    BY GuiStep
  <1> QED BY <1>1, <1>2, PTL DEF Spec

----------------------------------------------------------------------------
(* The theorems.                                                           *)

\* The client list and its count agree, and once client_manager_disconnect_all
\* has found the list empty nobody enters a client any more.
THEOREM ClientsAreAccounted == Spec => []ClientsAccounted
  <1>1. GuiInv => ClientsAccounted
    <2> SUFFICES ASSUME GuiInv PROVE ClientsAccounted
      OBVIOUS
    <2>1. CountIsLength
      BY DEF GuiInv, Accounts
    <2>2. ASSUME win = "close" PROVE client_count = 0
      <3>1. Listed = {}
        BY <2>2 DEF GuiInv, Phases, Listed
      <3>2. Cardinality(Listed) = 0
        BY <3>1, FS_EmptySet
      <3> QED BY <3>2, <2>1 DEF CountIsLength, Listed
    <2> QED BY <2>1, <2>2 DEF ClientsAccounted
  <1> QED BY <1>1, GuiCorrect, PTL

\* While the server runs no export outlives its client, and no device stays
\* open and no URB handler is left once all clients are gone, however the
\* handler threads' steps interleave.
THEOREM DevicesAreReleased == Spec => []DevicesFollowClients
  <1>1. GuiInv => DevicesFollowClients
    <2> SUFFICES ASSUME GuiInv, server_running PROVE ExportHasClient /\ NothingLeftBehind
      BY DEF DevicesFollowClients
    <2>1. (\A c \in Clients : Fields(client[c])) /\ Entries /\ stray = {}
      BY DEF GuiInv, Served
    <2>2. ExportHasClient
      BY <2>1 DEF Entries, ExportHasClient
    <2>3. NothingLeftBehind
      <3> SUFFICES ASSUME \A c \in Clients : client[c].pc = "none", NEW d \in Devices
                   PROVE  entry[d].state = "AVAILABLE" /\ ~entry[d].is_open
        BY <2>1 DEF NothingLeftBehind
      <3>1. \A c \in Clients : ~client[c].listed /\ ~Opened(client[c], d)
        BY <2>1, ManagerAssumption DEF Fields, Opened
      <3>2. entry[d].state \in {"AVAILABLE", "EXPORTED"}
        BY DEF GuiInv, GuiTypeOK, TypeOK, EntryType
      <3> QED BY <2>1, <3>1, <3>2 DEF Entries
    <2> QED BY <2>2, <2>3
  <1> QED BY <1>1, GuiCorrect, PTL

\* Only a click on its row shares or unshares a device that is in the list.
THEOREM OnlyClicksShare == Spec => SharingFollowsClicks
  <1> DEFINE Clicked == \A d \in inlist : entry'[d].is_shared # entry[d].is_shared =>
                          row'[d] # row[d] /\ row'[d] = Tick(entry'[d].is_shared)
  <1>1. ASSUME GuiInv, Next PROVE Clicked
    <2>a. inlist \in SUBSET Devices
      BY <1>1 DEF GuiInv, GuiTypeOK
    <2>1. ASSUME \A d \in Devices : entry'[d].is_shared = entry[d].is_shared PROVE Clicked
      BY <2>1, <2>a
    <2>2. CASE Lifecycle
      BY <1>1, <2>1, <2>2, LifecycleKeeps
    <2>3. ASSUME NEW present \in SUBSET Devices, Fill(present) PROVE Clicked
      BY <1>1, <2>3, FillKeeps
    <2>4. ASSUME NEW d \in Devices, on_device_checkbox_changed(d) PROVE Clicked
      BY <1>1, <2>4, ClickKeeps
    <2>5. CASE victim # None /\ (DropUnlink(victim) \/ DropFree(victim))
      <3>1. Change(victim)
        BY <1>1, <2>5, DropKeeps
      <3> QED BY <3>1, <2>1 DEF Change
    <2>6. ASSUME NEW c \in Clients, NEW thread \in BOOLEAN, Accept(c, thread) PROVE Clicked
      BY <2>6, <2>1 DEF Accept
    <2>7. ASSUME NEW c \in Clients, ThreadAction(c) PROVE Clicked
      <3>1. Change(c)
        BY <1>1, <2>7, ThreadChange DEF GuiInv, GuiTypeOK
      <3> QED BY <3>1, <2>1 DEF Change
    <2> QED BY <1>1, <2>2, <2>3, <2>4, <2>5, <2>6, <2>7, StepCases
  <1>2. GuiInv /\ [Next]_allVars => [Clicked]_allVars
    BY <1>1
  <1> QED BY <1>2, GuiCorrect, PTL DEF Spec, SharingFollowsClicks
=============================================================================
