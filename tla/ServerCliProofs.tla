--------------------------- MODULE ServerCliProofs --------------------------
(***************************************************************************)
(* Proofs about the command line server, for any number of clients and     *)
(* devices: it serves one client at a time, so the steps that the device   *)
(* list's mutex does not make atomic are harmless.                         *)
(***************************************************************************)
EXTENDS ServerCli, FiniteSetTheorems, TLAPS

\* At most one client is being served.
Serial ==
  \A c, x \in Clients : client[c].pc # "none" /\ client[x].pc # "none" => c = x

\* What the place of a client's thread says about its fields.
Fields(r) ==
  /\ r.pc # "orphan"
  /\ r.pc \in {"none", "free", "list", "open", "claim", "handler", "export", "refuse"}
       => r.busid = None
  /\ r.pc \in {"reply", "detach", "unexport"} => r.busid # None
  /\ r.pc \in {"open", "claim", "handler", "export"} => r.arg # None
  /\ r.device = IF r.pc = "unexport" THEN None ELSE r.busid
  /\ r.handler = IF r.pc = "export" THEN r.arg ELSE r.device
  /\ r.listed <=> r.pc \notin {"none", "free"}
  /\ r.up => r.pc # "none"

\* A client's thread has the device open: it is attaching or attached.
Opened(r, d) == r.device = d \/ (r.pc \in {"claim", "handler", "export"} /\ r.arg = d)

\* An entry is exported to the client that has the device attached, if any,
\* and is open while that client's thread has it open.
Entries ==
  \A d \in Devices :
    /\ entry[d].state = "EXPORTED" =>
         entry[d].client_id \in Clients /\ client[entry[d].client_id].busid = d
    /\ \A c \in Clients : client[c].busid = d =>
         entry[d].state = "EXPORTED" /\ entry[d].client_id = c
    /\ entry[d].is_open <=> \E c \in Clients : Opened(client[c], d)

CliInv == 
  /\ TypeOK
  /\ Serial
  /\ \A c \in Clients : Fields(client[c])
  /\ Entries
  /\ stray = {}

\* The number of devices a reply announces is a number.
LEMMA CountsAreNat == 
  Cardinality(Devices) \in Nat /\ \A S \in SUBSET Devices : Cardinality(S) \in Nat
  BY ManagerAssumption, FS_Subset, FS_CardinalityType

\* server_init establishes the invariant, whichever devices it shares.
LEMMA CliInit == server_init => CliInv
  <1> SUFFICES ASSUME server_init PROVE CliInv
    OBVIOUS
  <1>1. PICK shared \in {Devices, {}} \cup {{d} : d \in Devices} :
          entry = [d \in Devices |-> [NewEntry EXCEPT !.is_shared = (d \in shared)]]
    BY DEF server_init
  <1>2. /\ client = [c \in Clients |-> NoClient] /\ client_count = 0 /\ stray = {}
    BY DEF server_init
  <1>3. NoClient \in ClientType
    BY DEF NoClient, ClientType, Places
  <1>4. \A d \in Devices : entry[d] \in EntryType /\ entry[d].state = "AVAILABLE"
                           /\ entry[d].is_open = FALSE
    <2> TAKE d \in Devices
    <2> DEFINE b == d \in shared
    <2>1. b \in BOOLEAN
      OBVIOUS
    <2>2. entry[d] = [NewEntry EXCEPT !.is_shared = b]
      BY <1>1, Zenon
    <2> HIDE DEF b
    <2> QED BY <2>1, <2>2 DEF NewEntry, EntryType
  <1>5. TypeOK
    BY <1>1, <1>2, <1>3, <1>4 DEF TypeOK
  <1>6. Serial /\ \A c \in Clients : Fields(client[c])
    BY <1>2 DEF Serial, Fields, NoClient
  <1>7. Entries
    BY <1>2, <1>4, ManagerAssumption DEF Entries, Opened, NoClient
  <1> QED BY <1>2, <1>5, <1>6, <1>7 DEF CliInv

----------------------------------------------------------------------------
(* Every step is a step of the one client c that is being served, or that  *)
(* is accepted when there is none.                                         *)

Alone(c) == \A x \in Clients : x # c => client[x].pc = "none"

\* Entries, when only client c, whose object is r, can have a device.
EntriesFor(c, r, en) ==
  \A d \in Devices :
    /\ en[d].state = "EXPORTED" <=> r.busid = d
    /\ r.busid = d => en[d].client_id = c
    /\ en[d].is_open <=> Opened(r, d)

\* The client whose thread is somewhere is the only one there is.
LEMMA ServedAlone ==
  ASSUME CliInv, NEW c \in Clients, client[c].pc # "none" PROVE Alone(c)
  BY DEF CliInv, Serial, Alone

\* With one client alone, the entries are determined by its record.
LEMMA Focus ==
  ASSUME CliInv, NEW c \in Clients, Alone(c)
  PROVE  EntriesFor(c, client[c], entry)
  <1>1. \A x \in Clients : x # c =>
          /\ client[x].busid = None /\ client[x].device = None
          /\ client[x].pc \notin {"claim", "handler", "export"}
    BY DEF CliInv, Alone, Fields
  <1>2. \A x \in Clients, d \in Devices : x # c =>
          client[x].busid # d /\ ~Opened(client[x], d)
    BY <1>1, ManagerAssumption DEF Opened
  <1> QED BY <1>2 DEF CliInv, Entries, EntriesFor

\* A step of a client that stays alone keeps the invariant when its new
\* record and the new entries fit together.
LEMMA OneClientStep ==
  ASSUME CliInv, NEW c \in Clients, Alone(c),
         client' = [client EXCEPT ![c] = client'[c]],
         client'[c] \in ClientType, Fields(client'[c]),
         entry' \in [Devices -> EntryType], client_count' \in Int, stray' = {},
         EntriesFor(c, client'[c], entry')
  PROVE  CliInv'
  <1>1. \A x \in Clients : x # c => client'[x] = client[x]
    BY DEF CliInv, TypeOK
  <1>2. client' \in [Clients -> ClientType]
    BY DEF CliInv, TypeOK
  <1>3. \A x \in Clients : x # c =>
          /\ client'[x].pc = "none"
          /\ client'[x].busid = None /\ client'[x].device = None
    BY <1>1 DEF CliInv, Alone, Fields
  <1>4. Serial'
    BY <1>3 DEF Serial
  <1>5. \A x \in Clients : Fields(client'[x])
    BY <1>1 DEF CliInv
  <1>6. \A x \in Clients, d \in Devices : x # c =>
          client'[x].busid # d /\ ~Opened(client'[x], d)
    BY <1>3, ManagerAssumption DEF Opened
  <1>7. Entries'
    BY <1>6 DEF Entries, EntriesFor
  <1>8. TypeOK'
    BY <1>2 DEF TypeOK
  <1> QED BY <1>4, <1>5, <1>7, <1>8 DEF CliInv

\* Each step of the server keeps the invariant: accepting and freeing a
\* client, and every step of the session in between.
LEMMA CliStep == CliInv /\ [Next]_vars => CliInv'
  <1> SUFFICES ASSUME CliInv, [Next]_vars PROVE CliInv'
    OBVIOUS
  <1>1. CASE UNCHANGED vars
    BY <1>1 DEF vars, CliInv, TypeOK, Serial, Entries, Opened
  <1>2. ASSUME NEW c \in Clients, Accept(c) \/ PeerGone(c) \/ ThreadStep(c)
        PROVE  CliInv'
    <2>a. /\ client \in [Clients -> ClientType] /\ client[c] \in ClientType
          /\ entry \in [Devices -> EntryType] /\ client_count \in Int /\ stray = {}
          /\ Fields(client[c])
      BY DEF CliInv, TypeOK
    <2>b. Alone(c)
      <3>1. CASE Accept(c)
        BY <3>1 DEF Accept, Alone
      <3>2. CASE client[c].pc # "none"
        BY <3>2, ServedAlone
      <3>3. CASE PeerGone(c)
        BY <3>3, <3>2, <2>a DEF PeerGone, Fields
      <3>4. CASE ThreadStep(c)
        BY <3>4, <3>2 DEF ThreadStep, Request, InRequest, InList, InImport, CountDevices,
           RequestFails, AttachCheck, Go, SendDevices, SendDevicesFails,
           AttachOpen, AttachClaim, AttachHandler, AttachHandlerFails, AttachExport,
           ImportReply, ImportReplyFails, ImportRefused, DetachClose,
           DetachUnexport, ForwardingEnds, SessionDetach, SessionRemove,
           RemoveUnlink, free_client
      <3> QED BY <1>2, <3>1, <3>3, <3>4
    <2>c. EntriesFor(c, client[c], entry)
      BY <2>b, Focus
    <2>1. CASE Accept(c)
      <3>1. /\ client' = [client EXCEPT ![c] = client'[c]]
            /\ client'[c] \in ClientType /\ Fields(client'[c])
        BY <2>1, <2>a DEF Accept, client_manager_add, NewClient, NoClient,
           ClientType, Places, Fields
      <3>2. entry' \in [Devices -> EntryType] /\ EntriesFor(c, client'[c], entry')
        BY <2>1, <2>a, <2>c DEF Accept, client_manager_add, NewClient,
           NoClient, EntryType, EntriesFor, Opened, Fields, ClientType
      <3>3. client_count' \in Int /\ stray' = {}
        BY <2>1, <2>a DEF Accept, client_manager_add, NewClient, NoClient,
           Fields
      <3> QED BY <3>1, <3>2, <3>3, <2>b, OneClientStep
    <2>2. CASE PeerGone(c)
      <3>1. /\ client' = [client EXCEPT ![c] = client'[c]]
            /\ client'[c] \in ClientType /\ Fields(client'[c])
        BY <2>2, <2>a DEF PeerGone, ClientType, Places, Fields
      <3>2. entry' \in [Devices -> EntryType] /\ EntriesFor(c, client'[c],
      entry')
        BY <2>2, <2>a, <2>c DEF PeerGone, EntryType, EntriesFor, Opened,
           Fields, ClientType
      <3>3. client_count' \in Int /\ stray' = {}
        BY <2>2, <2>a DEF PeerGone, Fields
      <3> QED BY <3>1, <3>2, <3>3, <2>b, OneClientStep
    <2>3. CASE RequestFails(c)
      <3>1. /\ client' = [client EXCEPT ![c] = client'[c]]
            /\ client'[c] \in ClientType /\ Fields(client'[c])
        BY <2>3, <2>a DEF RequestFails, Go, ClientType, Places, Fields
      <3>2. entry' \in [Devices -> EntryType] /\ EntriesFor(c, client'[c],
      entry')
        BY <2>3, <2>a, <2>c DEF RequestFails, Go, EntryType, EntriesFor,
           Opened, Fields, ClientType
      <3>3. client_count' \in Int /\ stray' = {}
        BY <2>3, <2>a DEF RequestFails, Go, Fields
      <3> QED BY <3>1, <3>2, <3>3, <2>b, OneClientStep
    <2>4. CASE CountDevices(c) /\ client[c].busid = None
      <3>1. /\ client' = [client EXCEPT ![c] = client'[c]]
            /\ client'[c] \in ClientType /\ Fields(client'[c])
        BY <2>4, <2>a, CountsAreNat DEF CountDevices, Available, Shared,
           ClientType, Places, Fields
      <3>2. entry' \in [Devices -> EntryType] /\ EntriesFor(c, client'[c], entry')
        BY <2>4, <2>a, <2>c DEF CountDevices, Available, Shared, EntryType,
           EntriesFor, Opened, Fields, ClientType
      <3>3. client_count' \in Int /\ stray' = {}
        BY <2>4, <2>a DEF CountDevices, Available, Shared, Fields
      <3> QED BY <3>1, <3>2, <3>3, <2>b, OneClientStep
    <2>5. CASE SendDevices(c)
      <3>1. /\ client' = [client EXCEPT ![c] = client'[c]]
            /\ client'[c] \in ClientType /\ Fields(client'[c])
        BY <2>5, <2>a, CountsAreNat DEF SendDevices, Shared, ClientType,
           Places, Fields
      <3>2. entry' \in [Devices -> EntryType] /\ EntriesFor(c, client'[c], entry')
        BY <2>5, <2>a, <2>c DEF SendDevices, Shared, EntryType, EntriesFor,
           Opened, Fields, ClientType
      <3>3. client_count' \in Int /\ stray' = {}
        BY <2>5, <2>a DEF SendDevices, Shared, Fields
      <3> QED BY <3>1, <3>2, <3>3, <2>b, OneClientStep
    <2>6. CASE SendDevicesFails(c)
      <3>1. /\ client' = [client EXCEPT ![c] = client'[c]]
            /\ client'[c] \in ClientType /\ Fields(client'[c])
        BY <2>6, <2>a DEF SendDevicesFails, Go, ClientType, Places, Fields
      <3>2. entry' \in [Devices -> EntryType] /\ EntriesFor(c, client'[c],
      entry')
        BY <2>6, <2>a, <2>c DEF SendDevicesFails, Go, EntryType, EntriesFor,
           Opened, Fields, ClientType
      <3>3. client_count' \in Int /\ stray' = {}
        BY <2>6, <2>a DEF SendDevicesFails, Go, Fields
      <3> QED BY <3>1, <3>2, <3>3, <2>b, OneClientStep
    <2>7. ASSUME client[c].busid = None, NEW e \in Devices, AttachCheck(c, e)
          PROVE  CliInv'
      <3>1. /\ client' = [client EXCEPT ![c] = client'[c]]
            /\ client'[c] \in ClientType /\ Fields(client'[c])
        BY <2>7, <2>a, ManagerAssumption DEF AttachCheck, ClientType, Places,
           Fields
      <3>2. entry' \in [Devices -> EntryType] /\ EntriesFor(c, client'[c], entry')
        BY <2>7, <2>a, <2>c DEF AttachCheck, EntriesFor, Opened, ClientType
      <3>3. client_count' \in Int /\ stray' = {}
        BY <2>7, <2>a DEF AttachCheck
      <3> QED BY <3>1, <3>2, <3>3, <2>b, OneClientStep
    <2>8. CASE AttachOpen(c)
      <3>1. /\ client' = [client EXCEPT ![c] = client'[c]]
            /\ client'[c] \in ClientType /\ Fields(client'[c])
        BY <2>8, <2>a DEF AttachOpen, Go, ClientType, Places, Fields
      <3>2. entry' \in [Devices -> EntryType] /\ EntriesFor(c, client'[c],
      entry')
        <4> DEFINE a == client[c].arg
        <4>1. /\ a \in Devices /\ client[c].busid = None /\ client[c].device = None
              /\ client[c].pc = "open"
          BY <2>8, <2>a DEF AttachOpen, Go, Fields, ClientType
        <4>2. /\ client'[c].pc = "claim" /\ client'[c].busid = None
              /\ client'[c].device = None /\ client'[c].arg = a
          BY <2>8, <2>a, <4>1 DEF AttachOpen, Go, ClientType
        <4>3. /\ entry' \in [Devices -> EntryType] /\ entry'[a].is_open = TRUE
              /\ entry'[a].state = entry[a].state
              /\ \A d \in Devices : d # a => entry'[d] = entry[d]
          BY <2>8, <2>a, <4>1 DEF AttachOpen, usb_open_device, EntryType
        <4> QED BY <4>1, <4>2, <4>3, <2>c, ManagerAssumption DEF EntriesFor,
             Opened
      <3>3. client_count' \in Int /\ stray' = {}
        BY <2>8, <2>a DEF AttachOpen, Go, Fields
      <3> QED BY <3>1, <3>2, <3>3, <2>b, OneClientStep
    <2>9. CASE AttachClaim(c)
      <3>1. client[c].arg \in Devices /\ entry[client[c].arg].is_open
        BY <2>9, <2>a, <2>c DEF AttachClaim, Go, ClientType, Fields,
           EntriesFor, Opened
      <3>2. client' = [client EXCEPT ![c].pc = "handler"] /\ client[c].pc = "claim"
        BY <2>9, <3>1 DEF AttachClaim, Go
      <3>3. /\ client' = [client EXCEPT ![c] = client'[c]]
            /\ client'[c] \in ClientType /\ Fields(client'[c])
        BY <3>2, <2>a DEF ClientType, Places, Fields
      <3>4. entry' \in [Devices -> EntryType] /\ EntriesFor(c, client'[c],
      entry')
        BY <2>9, <3>2, <2>a, <2>c DEF AttachClaim, EntriesFor, Opened,
           ClientType
      <3>5. client_count' \in Int /\ stray' = {}
        BY <2>9, <2>a DEF AttachClaim
      <3> QED BY <3>3, <3>4, <3>5, <2>b, OneClientStep
    <2>10. CASE AttachHandler(c)
      <3>1. /\ client' = [client EXCEPT ![c] = client'[c]]
            /\ client'[c] \in ClientType /\ Fields(client'[c])
        BY <2>10, <2>a DEF AttachHandler, Strays, ClientType, Places, Fields
      <3>2. entry' \in [Devices -> EntryType] /\ EntriesFor(c, client'[c],
      entry')
        BY <2>10, <2>a, <2>c, ManagerAssumption DEF AttachHandler, EntryType,
           EntriesFor, Opened, Fields, ClientType
      <3>3. client_count' \in Int /\ stray' = {}
        BY <2>10, <2>a DEF AttachHandler, Strays, Fields
      <3> QED BY <3>1, <3>2, <3>3, <2>b, OneClientStep
    <2>11. CASE AttachHandlerFails(c)
      <3>1. /\ client' = [client EXCEPT ![c] = client'[c]]
            /\ client'[c] \in ClientType /\ Fields(client'[c])
        BY <2>11, <2>a DEF AttachHandlerFails, Strays, ClientType, Places,
           Fields
      <3>2. entry' \in [Devices -> EntryType] /\ EntriesFor(c, client'[c], entry')
        <4> DEFINE a == client[c].arg
        <4>1. /\ a \in Devices /\ client[c].busid = None /\ client[c].device = None
              /\ client[c].pc = "handler"
          BY <2>11, <2>a DEF AttachHandlerFails, Go, Fields, ClientType
        <4>2. /\ client'[c].pc = "refuse" /\ client'[c].busid = None
              /\ client'[c].device = None /\ client'[c].arg = a
          BY <2>11, <2>a, <4>1 DEF AttachHandlerFails, Go, ClientType
        <4>3. /\ entry' \in [Devices -> EntryType] /\ entry'[a].is_open = FALSE
              /\ entry'[a].state = entry[a].state
              /\ \A d \in Devices : d # a => entry'[d] = entry[d]
          BY <2>11, <2>a, <4>1 DEF AttachHandlerFails, usb_close_device,
             EntryType
        <4> QED BY <4>1, <4>2, <4>3, <2>c, ManagerAssumption DEF EntriesFor,
             Opened
      <3>3. client_count' \in Int /\ stray' = {}
        BY <2>11, <2>a DEF AttachHandlerFails, Strays, Fields
      <3> QED BY <3>1, <3>2, <3>3, <2>b, OneClientStep
    <2>12. CASE AttachExport(c)
      <3>1. /\ client' = [client EXCEPT ![c] = client'[c]]
            /\ client'[c] \in ClientType /\ Fields(client'[c])
        BY <2>12, <2>a DEF AttachExport, ClientType, Places, Fields
      <3>2. entry' \in [Devices -> EntryType] /\ EntriesFor(c, client'[c],
      entry')
        BY <2>12, <2>a, <2>c, ManagerAssumption DEF AttachExport,
           device_list_export, EntryType, EntriesFor, Opened, Fields, ClientType
      <3>3. client_count' \in Int /\ stray' = {}
        BY <2>12, <2>a DEF AttachExport, Fields
      <3> QED BY <3>1, <3>2, <3>3, <2>b, OneClientStep
    <2>13. CASE ImportReply(c)
      <3>1. /\ client' = [client EXCEPT ![c] = client'[c]]
            /\ client'[c] \in ClientType /\ Fields(client'[c])
        BY <2>13, <2>a DEF ImportReply, Go, ClientType, Places, Fields
      <3>2. entry' \in [Devices -> EntryType] /\ EntriesFor(c, client'[c],
      entry')
        BY <2>13, <2>a, <2>c DEF ImportReply, Go, EntryType, EntriesFor,
           Opened, Fields, ClientType
      <3>3. client_count' \in Int /\ stray' = {}
        BY <2>13, <2>a DEF ImportReply, Go, Fields
      <3> QED BY <3>1, <3>2, <3>3, <2>b, OneClientStep
    <2>14. CASE ImportReplyFails(c)
      <3>1. /\ client' = [client EXCEPT ![c] = client'[c]]
            /\ client'[c] \in ClientType /\ Fields(client'[c])
        BY <2>14, <2>a DEF ImportReplyFails, Go, ClientType, Places, Fields
      <3>2. entry' \in [Devices -> EntryType] /\ EntriesFor(c, client'[c],
      entry')
        BY <2>14, <2>a, <2>c DEF ImportReplyFails, Go, EntryType, EntriesFor,
           Opened, Fields, ClientType
      <3>3. client_count' \in Int /\ stray' = {}
        BY <2>14, <2>a DEF ImportReplyFails, Go, Fields
      <3> QED BY <3>1, <3>2, <3>3, <2>b, OneClientStep
    <2>15. CASE ImportRefused(c)
      <3>1. /\ client' = [client EXCEPT ![c] = client'[c]]
            /\ client'[c] \in ClientType /\ Fields(client'[c])
        BY <2>15, <2>a DEF ImportRefused, Go, ClientType, Places, Fields
      <3>2. entry' \in [Devices -> EntryType] /\ EntriesFor(c, client'[c],
      entry')
        BY <2>15, <2>a, <2>c DEF ImportRefused, Go, EntryType, EntriesFor,
           Opened, Fields, ClientType
      <3>3. client_count' \in Int /\ stray' = {}
        BY <2>15, <2>a DEF ImportRefused, Go, Fields
      <3> QED BY <3>1, <3>2, <3>3, <2>b, OneClientStep
    <2>16. CASE DetachClose(c)
      <3>1. /\ client' = [client EXCEPT ![c] = client'[c]]
            /\ client'[c] \in ClientType /\ Fields(client'[c])
        BY <2>16, <2>a DEF DetachClose, ClientType, Places, Fields
      <3>2. entry' \in [Devices -> EntryType] /\ EntriesFor(c, client'[c],
      entry')
        BY <2>16, <2>a, <2>c, ManagerAssumption DEF DetachClose,
           usb_close_device, EntryType, EntriesFor, Opened, Fields, ClientType
      <3>3. client_count' \in Int /\ stray' = {}
        BY <2>16, <2>a DEF DetachClose, Fields
      <3> QED BY <3>1, <3>2, <3>3, <2>b, OneClientStep
    <2>17. CASE DetachUnexport(c)
      <3>1. /\ client' = [client EXCEPT ![c] = client'[c]]
            /\ client'[c] \in ClientType /\ Fields(client'[c])
        BY <2>17, <2>a DEF DetachUnexport, ClientType, Places, Fields
      <3>2. entry' \in [Devices -> EntryType] /\ EntriesFor(c, client'[c],
      entry')
        BY <2>17, <2>a, <2>c, ManagerAssumption DEF DetachUnexport,
           device_list_unexport, EntryType, EntriesFor, Opened, Fields,
           ClientType
      <3>3. client_count' \in Int /\ stray' = {}
        BY <2>17, <2>a DEF DetachUnexport, Fields
      <3> QED BY <3>1, <3>2, <3>3, <2>b, OneClientStep
    <2>18. CASE ForwardingEnds(c)
      <3>1. /\ client' = [client EXCEPT ![c] = client'[c]]
            /\ client'[c] \in ClientType /\ Fields(client'[c])
        BY <2>18, <2>a DEF ForwardingEnds, Go, ClientType, Places, Fields
      <3>2. entry' \in [Devices -> EntryType] /\ EntriesFor(c, client'[c],
      entry')
        BY <2>18, <2>a, <2>c DEF ForwardingEnds, Go, EntryType, EntriesFor,
           Opened, Fields, ClientType
      <3>3. client_count' \in Int /\ stray' = {}
        BY <2>18, <2>a DEF ForwardingEnds, Go, Fields
      <3> QED BY <3>1, <3>2, <3>3, <2>b, OneClientStep
    <2>19. CASE SessionDetach(c)
      <3>1. /\ client' = [client EXCEPT ![c] = client'[c]]
            /\ client'[c] \in ClientType /\ Fields(client'[c])
        BY <2>19, <2>a DEF SessionDetach, Go, ClientType, Places, Fields
      <3>2. entry' \in [Devices -> EntryType] /\ EntriesFor(c, client'[c],
      entry')
        BY <2>19, <2>a, <2>c DEF SessionDetach, Go, EntryType, EntriesFor,
           Opened, Fields, ClientType
      <3>3. client_count' \in Int /\ stray' = {}
        BY <2>19, <2>a DEF SessionDetach, Go, Fields
      <3> QED BY <3>1, <3>2, <3>3, <2>b, OneClientStep
    <2>20. CASE SessionRemove(c)
      <3>1. /\ client' = [client EXCEPT ![c] = client'[c]]
            /\ client'[c] \in ClientType /\ Fields(client'[c])
        BY <2>20, <2>a DEF SessionRemove, RemoveUnlink, ClientType, Places,
           Fields
      <3>2. entry' \in [Devices -> EntryType] /\ EntriesFor(c, client'[c], entry')
        BY <2>20, <2>a, <2>c DEF SessionRemove, RemoveUnlink, EntryType,
           EntriesFor, Opened, Fields, ClientType
      <3>3. client_count' \in Int /\ stray' = {}
        BY <2>20, <2>a DEF SessionRemove, RemoveUnlink, Fields
      <3> QED BY <3>1, <3>2, <3>3, <2>b, OneClientStep
    <2>21. CASE free_client(c)
      <3>1. /\ client' = [client EXCEPT ![c] = client'[c]]
            /\ client'[c] \in ClientType /\ Fields(client'[c])
        BY <2>21, <2>a DEF free_client, NoClient, ClientType, Places, Fields
      <3>2. entry' \in [Devices -> EntryType] /\ EntriesFor(c, client'[c],
      entry')
        BY <2>21, <2>a, <2>c, ManagerAssumption DEF free_client, NoClient,
           usb_close_device, EntryType, EntriesFor, Opened, Fields, ClientType
      <3>3. client_count' \in Int /\ stray' = {}
        BY <2>21, <2>a DEF free_client, NoClient, Fields
      <3> QED BY <3>1, <3>2, <3>3, <2>b, OneClientStep
    <2> QED BY <1>2, <2>1, <2>2, <2>3, <2>4, <2>5, <2>6, <2>7, <2>8, <2>9,
         <2>10, <2>11, <2>12, <2>13, <2>14, <2>15, <2>16, <2>17, <2>18, <2>19,
         <2>20, <2>21
       DEF ThreadStep, Request, InRequest, InList, InImport
  <1> QED BY <1>1, <1>2 DEF Next

\* The invariant holds in every state of the server.
THEOREM CliInvariant == Spec => []CliInv
  BY CliInit, CliStep, PTL DEF Spec

\* Every variable stays in its range.
THEOREM TypeCorrect == Spec => []TypeOK
  BY CliInvariant, PTL DEF CliInv

\* A client whose import succeeded has the device, open, with its URB handler
\* and exported to it and to no one else.
THEOREM AttachedOwns == Spec => []AttachedOwnsDevice
  <1>1. CliInv => AttachedOwnsDevice
    <2> SUFFICES ASSUME CliInv, NEW c \in Clients, client[c].pc = "idle",
                        client[c].busid # None
                 PROVE  LET d == client[c].busid
                        IN /\ entry[d].is_open /\ client[c].handler = d
                           /\ client[c].device = d
                           /\ entry[d].state = "EXPORTED" /\ entry[d].client_id = c
      BY DEF AttachedOwnsDevice
    <2>1. client[c].busid \in Devices /\ Fields(client[c])
      BY DEF CliInv, TypeOK, ClientType
    <2> QED BY <2>1 DEF CliInv, Entries, Opened, Fields
  <1> QED BY <1>1, CliInvariant, PTL

\* No export outlives the client it is for.
THEOREM ExportsHaveClients == Spec => []ExportHasClient
  <1>1. CliInv => ExportHasClient
    <2> SUFFICES ASSUME CliInv, NEW d \in Devices, entry[d].state = "EXPORTED"
                 PROVE  LET c == entry[d].client_id
                        IN c \in Clients /\ client[c].listed /\ client[c].busid = d
      BY DEF ExportHasClient
    <2>1. entry[d].client_id \in Clients /\ client[entry[d].client_id].busid = d
      BY DEF CliInv, Entries
    <2>2. Fields(client[entry[d].client_id])
      BY <2>1 DEF CliInv
    <2> QED BY <2>1, <2>2, ManagerAssumption DEF Fields
  <1> QED BY <1>1, CliInvariant, PTL

\* When no client is connected every device is available and closed, and no
\* URB handler is running: every way out of a session undoes the attach.
THEOREM NothingIsLeftBehind == Spec => []NothingLeftBehind
  <1>1. CliInv => NothingLeftBehind
    <2> SUFFICES ASSUME CliInv, \A c \in Clients : client[c].pc = "none",
                        NEW d \in Devices
                 PROVE  entry[d].state = "AVAILABLE" /\ ~entry[d].is_open
      BY DEF NothingLeftBehind, CliInv
    <2>1. \A c \in Clients : client[c].busid # d /\ ~Opened(client[c], d)
      BY ManagerAssumption DEF CliInv, Fields, Opened
    <2>2. entry[d].state \in {"AVAILABLE", "EXPORTED"}
      BY DEF CliInv, TypeOK, EntryType
    <2> QED BY <2>1, <2>2 DEF CliInv, Entries
  <1> QED BY <1>1, CliInvariant, PTL

----------------------------------------------------------------------------
(* The server implements DeviceLease.                                      *)

\* When one client is alone it is the only one that can hold a device.
LEMMA HoldersAlone ==
  ASSUME CliInv, NEW c \in Clients, Alone(c)
  PROVE  Holders = [d \in Devices |-> IF client[c].device = d THEN {c} ELSE {}]
  <1>1. \A x \in Clients, d \in Devices : x # c => client[x].device # d
    BY ManagerAssumption DEF CliInv, Alone, Fields
  <1> QED BY <1>1 DEF Holders

\* A step is one of a client that is alone before and after it, and only the
\* attach and the two ways to let go of the device change its device.
LEMMA StepOfOne ==
  ASSUME CliInv, NEW c \in Clients, Accept(c) \/ PeerGone(c) \/ ThreadStep(c)
  PROVE  /\ Alone(c) /\ Alone(c)'
         /\ \/ client'[c].device = client[c].device
            \/ client[c].device = None
            \/ client'[c].device = None
  <1>a. client \in [Clients -> ClientType] /\ client[c] \in ClientType /\ Fields(client[c])
    BY DEF CliInv, TypeOK
  <1>1. CASE Accept(c)
    <2>1. Alone(c) /\ client' = [client EXCEPT ![c] = NewClient]
      BY <1>1 DEF Accept, client_manager_add, Alone
    <2>2. client'[c].device = None /\ Alone(c)'
      BY <2>1, <1>a DEF NewClient, NoClient, Alone
    <2> QED BY <2>1, <2>2
  <1>2. CASE PeerGone(c)
    <2>1. Alone(c) /\ client' = [client EXCEPT ![c].up = FALSE]
      BY <1>2, <1>a, ServedAlone DEF PeerGone, Fields
    <2>2. client'[c].device = client[c].device /\ Alone(c)'
      BY <2>1, <1>a DEF Alone, ClientType
    <2> QED BY <2>1, <2>2
  <1>3. CASE ThreadStep(c)
    <2>1. Alone(c)
      BY <1>3, ServedAlone DEF ThreadStep, Request, InRequest, InList, InImport, CountDevices,
         RequestFails,
         AttachCheck, Go, SendDevices, SendDevicesFails, AttachOpen, AttachClaim,
         AttachHandler, AttachHandlerFails, AttachExport, ImportReply,
         ImportReplyFails, ImportRefused, DetachClose, DetachUnexport,
         ForwardingEnds, SessionDetach, SessionRemove, RemoveUnlink, free_client
    <2>2. \A x \in Clients : x # c => client'[x] = client[x]
      BY <1>3, <1>a DEF ThreadStep, Request, InRequest, InList, InImport, CountDevices,
         RequestFails,
         AttachCheck, Go, SendDevices, SendDevicesFails, AttachOpen, AttachClaim,
         AttachHandler, AttachHandlerFails, AttachExport, ImportReply,
         ImportReplyFails, ImportRefused, DetachClose, DetachUnexport,
         ForwardingEnds, SessionDetach, SessionRemove, RemoveUnlink, free_client
    <2>3. Alone(c)'
      BY <2>1, <2>2 DEF Alone
    <2>4. CASE AttachExport(c)
      <3>1. client[c].device = None
        BY <2>4, <1>a DEF AttachExport, Fields
      <3> QED BY <2>1, <2>3, <3>1
    <2>5. CASE DetachClose(c) \/ free_client(c)
      <3>1. client'[c].device = None
        BY <2>5, <1>a DEF DetachClose, free_client, NoClient, ClientType
      <3> QED BY <2>1, <2>3, <3>1
    <2>6. CASE \/ Request(c) \/ SendDevices(c) \/ SendDevicesFails(c)
               \/ AttachOpen(c) \/ AttachClaim(c) \/ AttachHandler(c)
               \/ AttachHandlerFails(c)
               \/ ImportReply(c) \/ ImportReplyFails(c) \/ ImportRefused(c)
               \/ DetachUnexport(c) \/ ForwardingEnds(c)
               \/ SessionDetach(c) \/ SessionRemove(c)
      <3>1. client'[c].device = client[c].device
        <4>1. CASE Request(c)
          <5>1. CASE CountDevices(c)
            BY <5>1, <1>a DEF CountDevices, ClientType
          <5>2. CASE RequestFails(c)
            BY <5>2, <1>a DEF RequestFails, Go, ClientType
          <5>3. ASSUME NEW d \in Devices, AttachCheck(c, d)
                PROVE  client'[c].device = client[c].device
            BY <5>3, <1>a DEF AttachCheck, ClientType
          <5> QED BY <4>1, <5>1, <5>2, <5>3 DEF Request
        <4>2. CASE SendDevices(c) \/ SendDevicesFails(c) \/ AttachOpen(c)
                 \/ AttachClaim(c)
          BY <4>2, <1>a DEF SendDevices, SendDevicesFails, AttachOpen,
             AttachClaim, Go, ClientType
        <4>3. CASE AttachHandler(c) \/ AttachHandlerFails(c)
          BY <4>3, <1>a DEF AttachHandler, AttachHandlerFails, ClientType
        <4>4. CASE ImportReply(c) \/ ImportReplyFails(c) \/ ImportRefused(c)
          BY <4>4, <1>a DEF ImportReply, ImportReplyFails, ImportRefused, Go,
             ClientType
        <4>5. CASE DetachUnexport(c) \/ ForwardingEnds(c)
          BY <4>5, <1>a DEF DetachUnexport, ForwardingEnds, Go, ClientType
        <4>6. CASE SessionDetach(c) \/ SessionRemove(c)
          BY <4>6, <1>a DEF SessionDetach, SessionRemove, RemoveUnlink, Go,
             ClientType
        <4> QED BY <2>6, <4>1, <4>2, <4>3, <4>4, <4>5, <4>6
      <3> QED BY <2>1, <2>3, <3>1
    <2> QED BY <1>3, <2>4, <2>5, <2>6 DEF ThreadStep, InRequest, InList, InImport
  <1> QED BY <1>1, <1>2, <1>3

\* The command line server gives a device to one client at a time: seen
\* through the clients that use each device, it does only what DeviceLease
\* allows.
THEOREM OneUser == Spec => OneUserPerDevice
  <1>1. server_init => Holders = Lease!Free
    BY ManagerAssumption DEF server_init, Holders, Lease!Free, NoClient
  <1>2. CliInv /\ CliInv' /\ [Next]_vars => [Lease!Next]_Holders
    <2> SUFFICES ASSUME CliInv, CliInv', [Next]_vars PROVE [Lease!Next]_Holders
      OBVIOUS
    <2>1. CASE UNCHANGED vars
      BY <2>1 DEF vars, Holders
    <2>2. ASSUME NEW c \in Clients, Accept(c) \/ PeerGone(c) \/ ThreadStep(c)
          PROVE  [Lease!Next]_Holders
      <3> DEFINE old == client[c].device
                 new == client'[c].device
      <3>1. /\ Holders = [d \in Devices |-> IF old = d THEN {c} ELSE {}]
            /\ Holders' = [d \in Devices |-> IF new = d THEN {c} ELSE {}]
        <4>1. Alone(c) /\ Alone(c)'
          BY <2>2, StepOfOne
        <4>2. \A x \in Clients, d \in Devices : x # c => client'[x].device # d
          BY <4>1, ManagerAssumption DEF CliInv, Alone, Fields
        <4> QED BY <4>1, <4>2, HoldersAlone DEF Holders
      <3>2. old \in Devices \cup {None} /\ new \in Devices \cup {None}
        BY DEF CliInv, TypeOK, ClientType
      <3>3. new = old \/ old = None \/ new = None
        BY <2>2, StepOfOne
      <3> HIDE DEF old, new
      <3>4. CASE new = old
        BY <3>1, <3>4
      <3>5. CASE old = None /\ new \in Devices
        <4>1. Lease!Acquire(c, new)
          BY <3>1, <3>5, ManagerAssumption DEF Lease!Acquire
        <4> QED BY <4>1, <3>5 DEF Lease!Next
      <3>6. CASE new = None /\ old \in Devices
        <4>1. Lease!Release(c, old)
          BY <3>1, <3>6, ManagerAssumption DEF Lease!Release
        <4> QED BY <4>1, <3>6 DEF Lease!Next
      <3> QED BY <3>2, <3>3, <3>4, <3>5, <3>6
    <2> QED BY <2>1, <2>2 DEF Next
  <1> QED BY <1>1, <1>2, CliInvariant, PTL DEF Spec, OneUserPerDevice,
       Lease!Spec

----------------------------------------------------------------------------
(* Device lists.                                                           *)

\* Between counting and sending, the count is that of the devices to come;
\* afterwards, unless the sending failed and the session is over, it is that
\* of the devices sent.
ListOf(r, n) ==
  /\ r.pc = "list" => r.announced = n
  /\ r.pc \in {"idle", "open", "claim", "handler", "export", "reply"} => r.announced = r.sent

Lists == \A c \in Clients : ListOf(client[c], Cardinality(Shared))

\* No step of this server changes which devices are shared.
LEMMA SharedStays ==
  ASSUME CliInv, NEW c \in Clients, Accept(c) \/ PeerGone(c) \/ ThreadStep(c)
  PROVE  Shared' = Shared
  <1>a. entry \in [Devices -> EntryType]
    BY DEF CliInv, TypeOK
  <1>1. \/ UNCHANGED entry
        \/ usb_open_device(client[c].arg) \/ usb_close_device(client[c].arg)
        \/ usb_close_device(client[c].device)
        \/ device_list_export(client[c].arg, c)
        \/ device_list_unexport(client[c].busid)
    BY DEF Accept, client_manager_add, PeerGone, ThreadStep, Request, InRequest, InList, InImport,
       CountDevices, RequestFails, AttachCheck, SendDevices, SendDevicesFails,
       AttachOpen, AttachClaim, AttachHandler, AttachHandlerFails, AttachExport, ImportReply,
       ImportReplyFails, ImportRefused, DetachClose, DetachUnexport,
       ForwardingEnds, SessionDetach, SessionRemove, RemoveUnlink, free_client
  <1>2. \A d \in Devices : entry'[d].is_shared = entry[d].is_shared
    <2>1. CASE UNCHANGED entry
      BY <2>1
    <2>2. ASSUME NEW a, usb_open_device(a) \/ usb_close_device(a)
          PROVE  \A d \in Devices : entry'[d].is_shared = entry[d].is_shared
      BY <2>2, <1>a DEF usb_open_device, usb_close_device, EntryType
    <2>3. ASSUME NEW a, device_list_export(a, c) \/ device_list_unexport(a)
          PROVE  \A d \in Devices : entry'[d].is_shared = entry[d].is_shared
      BY <2>3, <1>a DEF device_list_export, device_list_unexport, EntryType
    <2> QED BY <1>1, <2>1, <2>2, <2>3
  <1> QED BY <1>2 DEF Shared

\* A client that is asked for the list has nothing attached, nor has anybody
\* else: every shared device is available.
LEMMA AllAvailable ==
  ASSUME CliInv, NEW c \in Clients, Alone(c), client[c].busid = None
  PROVE  Available = Shared
  <1>1. \A d \in Devices : entry[d].state = "AVAILABLE"
    BY Focus, ManagerAssumption DEF EntriesFor, CliInv, TypeOK, EntryType
  <1> QED BY <1>1 DEF Available, Shared

\* Announced and sent stay equal outside a reply, and within it the devices
\* counted are those that will be sent.
LEMMA ListsStep == CliInv /\ Lists /\ [Next]_vars => Lists'
  <1> SUFFICES ASSUME CliInv, Lists, [Next]_vars PROVE Lists'
    OBVIOUS
  <1>1. CASE UNCHANGED vars
    BY <1>1 DEF vars, Lists, Shared
  <1>2. ASSUME NEW c \in Clients, Accept(c) \/ PeerGone(c) \/ ThreadStep(c)
        PROVE  Lists'
    <2>a. client \in [Clients -> ClientType] /\ client[c] \in ClientType
      BY DEF CliInv, TypeOK
    <2>b. Alone(c) /\ Alone(c)' /\ Shared' = Shared
      BY <1>2, StepOfOne, SharedStays
    <2>1. \A x \in Clients : x # c => client'[x] = client[x]
      BY <1>2, <2>a DEF Accept, client_manager_add, PeerGone, ThreadStep,
         Request,
         InRequest, InList, InImport, CountDevices, RequestFails, AttachCheck, Go, SendDevices,
         SendDevicesFails, AttachOpen, AttachClaim, AttachHandler, AttachHandlerFails,
         AttachExport, ImportReply, ImportReplyFails, ImportRefused, DetachClose,
         DetachUnexport, ForwardingEnds, SessionDetach, SessionRemove,
         RemoveUnlink, free_client
    <2>2. ListOf(client'[c], Cardinality(Shared))
      <3>0. ListOf(client[c], Cardinality(Shared))
        BY DEF Lists
      <3>1. CASE Accept(c)
        BY <3>0, <3>1, <2>a DEF ListOf, Accept, client_manager_add, NewClient,
           NoClient, ClientType
      <3>2. CASE PeerGone(c)
        BY <3>0, <3>2, <2>a DEF ListOf, PeerGone, ClientType
      <3>3. CASE RequestFails(c) \/ ForwardingEnds(c) \/ SessionDetach(c)
        BY <3>0, <3>3, <2>a DEF ListOf, RequestFails, ForwardingEnds,
           SessionDetach, Go, ClientType
      <3>4. CASE SendDevices(c)
        BY <3>0, <3>4, <2>a DEF ListOf, SendDevices, ClientType
      <3>5. CASE SendDevicesFails(c) \/ ImportReply(c) \/ ImportReplyFails(c) \/ ImportRefused(c)
        BY <3>0, <3>5, <2>a DEF ListOf, SendDevicesFails, ImportReply,
           ImportReplyFails, ImportRefused, Go, ClientType
      <3>6. CASE AttachOpen(c) \/ AttachClaim(c) \/ AttachHandler(c)
        BY <3>0, <3>6, <2>a DEF ListOf, AttachOpen, AttachClaim, AttachHandler,
           Go, ClientType
      <3>7. CASE AttachHandlerFails(c) \/ AttachExport(c)
        BY <3>0, <3>7, <2>a DEF ListOf, AttachHandlerFails, AttachExport,
           ClientType
      <3>8. CASE DetachClose(c) \/ DetachUnexport(c) \/ SessionRemove(c)
        BY <3>0, <3>8, <2>a DEF ListOf, DetachClose, DetachUnexport,
           SessionRemove, RemoveUnlink, ClientType
      <3>9. CASE free_client(c)
        BY <3>0, <3>9, <2>a DEF ListOf, free_client, NoClient, ClientType
      <3>10. CASE client[c].busid = None /\ CountDevices(c)
        BY <3>10, <2>a, <2>b, AllAvailable DEF ListOf, CountDevices, ClientType
      <3>11. ASSUME NEW d \in Devices, AttachCheck(c, d)
            PROVE  ListOf(client'[c], Cardinality(Shared))
        BY <3>0, <3>11, <2>a DEF ListOf, AttachCheck, ClientType
      <3> QED BY <1>2, <3>1, <3>2, <3>3, <3>4, <3>5, <3>6, <3>7, <3>8, <3>9,
           <3>10, <3>11
             DEF ThreadStep, Request, InRequest, InList, InImport
    <2> QED BY <2>1, <2>2, <2>b DEF Lists
  <1> QED BY <1>1, <1>2 DEF Next

\* A device list reply of this server holds as many devices as it announces,
\* although the list is unlocked between counting and sending.
THEOREM ListsConsistent == Spec => []DeviceListConsistent
  <1>1. server_init => Lists
    BY DEF server_init, Lists, ListOf, NoClient
  <1>2. Lists => DeviceListConsistent
    BY DEF Lists, ListOf, DeviceListConsistent
  <1> QED BY <1>1, <1>2, ListsStep, CliInvariant, PTL DEF Spec
=============================================================================
