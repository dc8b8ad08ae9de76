--------------------------- MODULE UsbipExchange ----------------------------
(***************************************************************************)
(* One connection between a client and the server, byte for byte: the      *)
(* device list and the import (client/remote_device.c against              *)
(* server/client_manager.c), then the URBs that the client's driver and    *)
(* handle_client_session (server/main.c) exchange.                         *)
(*                                                                         *)
(* Neither end marks where a message ends: each reads as many bytes as its *)
(* own view of the fields read so far says.  The driver is external and    *)
(* speaks USB/IP as README.md has it, big-endian; net_recv_all returns all *)
(* the bytes asked for, or fails when the other end has closed before.     *)
(* The queues of the URB handler are UrbHandler's subject: here a URB is   *)
(* executed when its answer is taken from the completed queue.             *)
(***************************************************************************)
EXTENDS UsbipFormat, SequencesExt

CONSTANTS
  Names,        \* the paths and bus ids of devices
  Lists,        \* what the server may share, in the order of its device list
  Urbs,         \* the URBs the driver may submit
  MAX_DEVICES,  \* the client's table of listed devices
  MaxUrbs,      \* bound: messages of the driver on the connection
  Losses        \* bound: how many bytes in flight a lost connection loses

\* What a usb_device_t says of a device, and with its interfaces.
usb_device_t ==
  [path : Names, busid : Names, busnum : Int32, devnum : Int32, speed : Int32,
   vendor_id : Nat16, product_id : Nat16, bcd_device : Nat16, codes : [1 .. 5 -> Octet],
   num_interfaces : Octet]
SharedDevice == [info : usb_device_t, interfaces : Seq([1 .. 4 -> Octet])]

\* The headers of the URBs that a driver submits.
SubmitHeaders ==
  [command : {USBIP_CMD_SUBMIT}, seqnum : Int32, devid : Int32,
   direction : {USBIP_DIR_OUT, USBIP_DIR_IN}, ep : 0 .. 15, transfer_flags : Int32,
   transfer_buffer_length : Int32 \cap Nat, start_frame : Int32,
   number_of_packets : Int32, interval : Int32, setup : [1 .. 8 -> Octet]]

\* The length of the list goes into a 32-bit field; the driver gives every
\* URB, and every request to unlink one (DriverUnlink), its own number.
ASSUME ExchangeAssumption ==
  /\ MAX_DEVICES \in Nat \ {0} /\ MaxUrbs \in Nat /\ Losses \subseteq Nat
  /\ \A l \in Lists : /\ l \in Seq(SharedDevice) /\ Len(l) \in Int32
                      /\ \A i \in DOMAIN l :
                           l[i].info.num_interfaces = Len(l[i].interfaces)
  /\ Urbs \subseteq SubmitHeaders
  /\ \A u \in Urbs : 512 + u.seqnum \in Int32
  /\ \A u, v \in Urbs : u.seqnum = v.seqnum => u = v

VARIABLES
  shared,     \* the shared devices
  up, down,   \* bytes in flight to the server and to the client
  cli, srv,   \* where client and server are, and what they hold
  pending,    \* URBs submitted to the handler and not answered
  executed,   \* the kinds of transfer made for URBs of each endpoint
  asked,      \* the messages sent to the server, as they were meant
  heard,      \* the messages the server has understood
  told,       \* the messages sent to the client, as they were meant
  learned     \* the messages the client has understood

vars == <<shared, up, down, cli, srv, pending, executed, asked, heard, told, learned>>
clientVars == <<shared, cli, asked, learned>>
serverVars == <<shared, srv, pending, executed, heard, told>>

\* The concatenation of a sequence of sequences of bytes.
Bytes(struct) ==
  LET first[i \in 0 .. Len(struct)] == IF i = 0 THEN <<>> ELSE first[i - 1] \o struct[i]
  IN first[Len(struct)]
Rest(bytes, n) == SubSeq(bytes, n + 1, Len(bytes))

\* The data of a transfer of n bytes.
Payload(n) == [i \in 1 .. n |-> (16 * i) % 256]

----------------------------------------------------------------------------
(* The functions of common/protocol.c that send and receive a structure:   *)
(* the bytes they send, and what they make of the bytes they receive.      *)

usbip_recv_header_basic(bytes) == usbip_unpack_header_basic(Fields(bytes, BasicLayout))
usbip_send_device(dev) == Bytes(usbip_pack_device(dev))
usbip_recv_device(bytes) == usbip_unpack_device(Fields(bytes, DeviceLayout))
usbip_send_interface(iface) == iface
usbip_send_urb_header(header) == Bytes(usbip_pack_header(header, Number32(header[1])))
usbip_recv_urb_header(bytes) == usbip_unpack_header(Fields(bytes, HeaderLayout))

----------------------------------------------------------------------------
(* The format a USB/IP reader expects: README.md, "Byte order: big-endian". *)

Words(s) == Bytes([i \in DOMAIN s |-> Net32(s[i])])

WireDevice(d) ==
  <<d.path, d.busid>> \o Words(<<d.busnum, d.devnum, d.speed>>)
    \o Net16(d.vendor_id) \o Net16(d.product_id) \o Net16(d.bcd_device)
    \o d.codes \o <<d.num_interfaces>>

WireBasic(command, status) == Net16(USBIP_PROTO_VERSION) \o Net16(command) \o Net32(status)

Wire(m) ==
  CASE m.op = "REQ_DEVLIST" -> WireBasic(OP_REQ_DEVLIST, 0)
    [] m.op = "REQ_IMPORT" -> WireBasic(OP_REQ_IMPORT, 0) \o <<m.busid>>
    [] m.op = "REP_DEVLIST" ->
         WireBasic(OP_REP_DEVLIST, USBIP_ST_OK) \o Net32(Len(m.devices))
           \o Bytes([i \in DOMAIN m.devices |->
                WireDevice(m.devices[i].info) \o Bytes(m.devices[i].interfaces)])
    [] m.op = "REP_IMPORT" ->
         WireBasic(OP_REP_IMPORT, m.status)
           \o (IF m.status = USBIP_ST_OK THEN WireDevice(m.device) ELSE <<>>)
    [] m.op = "SUBMIT" ->
         Words(<<USBIP_CMD_SUBMIT, m.u.seqnum, m.u.devid, m.u.direction, m.u.ep,
                 m.u.transfer_flags, m.u.transfer_buffer_length, m.u.start_frame,
                 m.u.number_of_packets, m.u.interval>>)
           \o m.u.setup \o m.data
    [] m.op = "UNLINK" ->
         Words(<<USBIP_CMD_UNLINK, m.u.seqnum, m.u.devid, 0, 0, m.u.seqnum_to_unlink,
                 0, 0, 0, 0, 0, 0>>)
    [] m.op = "RET_SUBMIT" ->
         Words(<<USBIP_RET_SUBMIT, m.seqnum, m.devid, m.direction, m.ep, m.status,
                 m.actual_length, m.start_frame, m.number_of_packets, 0>>)
           \o m.setup \o m.data
    [] m.op = "RET_UNLINK" ->
         Words(<<USBIP_RET_UNLINK, m.seqnum, m.devid, 0, 0, m.status, 0, 0, 0, 0, 0, 0>>)

WireAll(ms) == Bytes([i \in DOMAIN ms |-> Wire(ms[i])])

----------------------------------------------------------------------------
Init ==
  /\ shared \in Lists
  /\ up = <<>> /\ down = <<>>
  /\ cli = [pc |-> "start", left |-> 0, devices |-> <<>>]
  /\ srv = [pc |-> "request", header |-> <<>>]
  /\ pending = {} /\ executed = {}
  /\ asked = <<>> /\ heard = <<>> /\ told = <<>> /\ learned = <<>>

\* The client at pc takes n bytes.
ClientTakes(pc, n) == cli.pc = pc /\ Len(down) >= n /\ down' = Rest(down, n)
ServerTakes(pc, n) == srv.pc = pc /\ Len(up) >= n /\ up' = Rest(up, n)

\* The client, or the server, sends message m as these bytes.  What goes to
\* a client that has closed is lost.
ClientSends(m, bytes) == up' = up \o bytes /\ asked' = Append(asked, m)
ServerSends(m, bytes) ==
  IF cli.pc = "closed" THEN UNCHANGED <<down, told>>
                       ELSE down' = down \o bytes /\ told' = Append(told, m)

Learn(m) == learned' = Append(learned, m)

----------------------------------------------------------------------------
(* The client programs.                                                    *)

\* remote_server_list_devices
ListRequest ==
  /\ cli.pc = "start" /\ cli' = [cli EXCEPT !.pc = "list"]
  /\ ClientSends([op |-> "REQ_DEVLIST"],
                 Bytes(usbip_pack_header_basic(usbip_create_devlist_request)))
  /\ UNCHANGED <<down, learned, serverVars>>

ListHeader ==
  /\ ClientTakes("list", 8)
  /\ LET header == usbip_recv_header_basic(down)
     IN cli' = [cli EXCEPT !.pc = IF Number32(header[3]) = USBIP_ST_OK
                                  THEN "ndev" ELSE "closed"]
  /\ UNCHANGED <<up, asked, learned, serverVars>>

\* Mutation: the number of devices is used as it came.
ListCountRaw ==
  /\ ClientTakes("ndev", 4)
  /\ cli' = [cli EXCEPT !.pc = "device", !.left = Number32(SubSeq(down, 1, 4))]
  /\ UNCHANGED <<up, asked, learned, serverVars>>

ListCount ==
  /\ ClientTakes("ndev", 4)
  /\ cli' = [cli EXCEPT !.pc = "device", !.left = Number32(swap32(SubSeq(down, 1, 4)))]
  /\ UNCHANGED <<up, asked, learned, serverVars>>

\* The next device, and whether it is there with the interfaces it says follow.
DeviceSize == 26
NextDevice == DeviceInfo(usbip_recv_device(down))
More == cli.left > 0 /\ Len(cli.devices) < MAX_DEVICES
Whole == Len(down) >= DeviceSize /\ Len(down) >= DeviceSize + 4 * NextDevice.num_interfaces

\* usbip_recv_device and usbip_recv_interface: the interfaces are skipped.
ListDevice ==
  /\ More /\ Whole
  /\ ClientTakes("device", DeviceSize + 4 * NextDevice.num_interfaces)
  /\ cli' = [cli EXCEPT !.left = @ - 1, !.devices = Append(@, NextDevice)]
  /\ UNCHANGED <<up, asked, learned, serverVars>>

\* The list is what has been read: all of it, as much as the table holds, or
\* what came before the server closed, its last device without interfaces.
ListEnds ==
  /\ cli.pc = "device" /\ (More => srv.pc = "closed" /\ ~Whole)
  /\ LET last == IF More /\ Len(down) >= DeviceSize THEN <<NextDevice>> ELSE <<>>
     IN Learn([op |-> "REP_DEVLIST", devices |-> cli.devices \o last])
  /\ cli' = [cli EXCEPT !.pc = "closed"]
  /\ UNCHANGED <<up, down, asked, serverVars>>

\* remote_device_connect
ImportRequest(busid) ==
  /\ cli.pc = "start" /\ cli' = [cli EXCEPT !.pc = "import"]
  /\ ClientSends([op |-> "REQ_IMPORT", busid |-> busid],
                 Bytes(usbip_pack_header_basic(usbip_create_import_request)) \o <<busid>>)
  /\ UNCHANGED <<down, learned, serverVars>>

ImportHeader ==
  /\ ClientTakes("import", 8)
  /\ LET status == Number32(usbip_recv_header_basic(down)[3])
     IN IF status = USBIP_ST_OK
        THEN cli' = [cli EXCEPT !.pc = "info"] /\ UNCHANGED learned
        ELSE /\ cli' = [cli EXCEPT !.pc = "closed"]
             /\ Learn([op |-> "REP_IMPORT", status |-> status])
  /\ UNCHANGED <<up, asked, serverVars>>

ImportDevice ==
  /\ ClientTakes("info", DeviceSize)
  /\ cli' = [cli EXCEPT !.pc = "driver"]
  /\ Learn([op |-> "REP_IMPORT", status |-> USBIP_ST_OK,
            device |-> NextDevice])
  /\ UNCHANGED <<up, asked, serverVars>>

ClientNeeds ==
  CASE cli.pc \in {"list", "import"} -> 8 [] cli.pc = "ndev" -> 4
    [] cli.pc = "info" -> DeviceSize [] OTHER -> 0

\* A receive fails: the server has closed and the bytes do not come.
ClientShort ==
  /\ srv.pc = "closed" /\ Len(down) < ClientNeeds
  /\ cli' = [cli EXCEPT !.pc = "closed"]
  /\ UNCHANGED <<up, down, asked, learned, serverVars>>

\* The client closes or disappears; the last bytes may not arrive.
ClientGone ==
  /\ cli.pc # "closed" /\ cli' = [cli EXCEPT !.pc = "closed"]
  /\ \E n \in Losses : n <= Len(up) /\ up' = SubSeq(up, 1, Len(up) - n)
  /\ UNCHANGED <<down, asked, learned, serverVars>>

----------------------------------------------------------------------------
(* The client's driver, external.                                          *)

SubmitMessage(u) ==
  [op |-> "SUBMIT", u |-> u,
   data |-> IF u.direction = USBIP_DIR_OUT THEN Payload(u.transfer_buffer_length) ELSE <<>>]

UnlinkMessage(u) ==
  [op |-> "UNLINK",
   u |-> [command |-> USBIP_CMD_UNLINK, seqnum |-> 512 + u.seqnum, devid |-> u.devid,
          direction |-> 0, ep |-> 0, seqnum_to_unlink |-> u.seqnum]]

DriverSubmit(u) ==
  /\ cli.pc = "driver" /\ Len(asked) <= MaxUrbs
  /\ \A i \in DOMAIN asked : asked[i].op = "SUBMIT" => asked[i].u.seqnum # u.seqnum
  /\ ClientSends(SubmitMessage(u), Wire(SubmitMessage(u)))
  /\ UNCHANGED <<down, cli, learned, serverVars>>

DriverUnlink(u) ==
  /\ cli.pc = "driver" /\ Len(asked) <= MaxUrbs /\ ~Contains(asked, UnlinkMessage(u))
  /\ ClientSends(UnlinkMessage(u), Wire(UnlinkMessage(u)))
  /\ UNCHANGED <<down, cli, learned, serverVars>>

\* The fields of a big-endian header; the data of an IN transfer follows.
DriverReceive ==
  /\ cli.pc = "driver" /\ Len(down) >= 48
  /\ LET f == Fields(down, HeaderLayout)
         N(i) == Number32(swap32(f[i]))
         in == {u \in Urbs : u.seqnum = N(2) /\ u.direction = USBIP_DIR_IN}
         n == IF N(1) = USBIP_RET_SUBMIT /\ in # {} THEN N(7) ELSE 0
     IN /\ n >= 0 /\ ClientTakes("driver", 48 + n)
        /\ Learn(IF N(1) = USBIP_RET_SUBMIT
                 THEN [op |-> "RET_SUBMIT", seqnum |-> N(2), devid |-> N(3),
                       direction |-> N(4), ep |-> N(5), status |-> N(6),
                       actual_length |-> N(7), start_frame |-> N(8),
                       number_of_packets |-> N(9), setup |-> f[11],
                       data |-> SubSeq(down, 49, 48 + n)]
                 ELSE [op |-> "RET_UNLINK", seqnum |-> N(2), devid |-> N(3),
                       status |-> N(6)])
  /\ UNCHANGED <<up, cli, asked, serverVars>>

----------------------------------------------------------------------------
(* The server: client_handle_request.                                      *)

\* client_send_device_list and send_device_callback
DeviceListBytes ==
  Bytes(usbip_pack_header_basic(usbip_create_devlist_reply))
    \o swap32(Host32(Len(shared)))
    \o Bytes([i \in DOMAIN shared |->
         usbip_send_device(usb_device_to_usbip(shared[i].info))
           \o Bytes([j \in DOMAIN shared[i].interfaces |->
                usbip_send_interface(shared[i].interfaces[j])])])

RecvRequest ==
  /\ ServerTakes("request", 8)
  /\ LET command == Number16(usbip_recv_header_basic(up)[2])
     IN \/ /\ command = OP_REQ_DEVLIST
           /\ heard' = Append(heard, [op |-> "REQ_DEVLIST"])
           /\ ServerSends([op |-> "REP_DEVLIST", devices |-> shared], DeviceListBytes)
           /\ UNCHANGED srv
        \/ /\ command = OP_REQ_IMPORT
           /\ srv' = [srv EXCEPT !.pc = "busid"]
           /\ UNCHANGED <<down, heard, told>>
        \/ /\ command \notin {OP_REQ_DEVLIST, OP_REQ_IMPORT}
           /\ srv' = [srv EXCEPT !.pc = "closed"]
           /\ UNCHANGED <<down, heard, told>>
  /\ UNCHANGED <<clientVars, pending, executed>>

ImportReplyBytes(status, info) ==
  Bytes(usbip_pack_header_basic(BasicHeader(OP_REP_IMPORT, status)))
    \o (IF status = USBIP_ST_OK THEN usbip_send_device(usb_device_to_usbip(info))
                             ELSE <<>>)

\* client_handle_import: a device of the list, busy or not, or none of them.
RecvBusid ==
  /\ ServerTakes("busid", 1)
  /\ heard' = Append(heard, [op |-> "REQ_IMPORT", busid |-> Head(up)])
  /\ \/ \E i \in DOMAIN shared :
          /\ shared[i].info.busid = Head(up)
          /\ ServerSends([op |-> "REP_IMPORT", status |-> USBIP_ST_OK,
                          device |-> shared[i].info],
                         ImportReplyBytes(USBIP_ST_OK, shared[i].info))
          /\ srv' = [srv EXCEPT !.pc = "urb"]
     \/ \E status \in {USBIP_ST_DEV_BUSY, USBIP_ST_NA} :
          /\ ServerSends([op |-> "REP_IMPORT", status |-> status],
                         ImportReplyBytes(status, shared[1].info))
          /\ srv' = [srv EXCEPT !.pc = "closed"]
  /\ UNCHANGED <<clientVars, pending, executed>>

----------------------------------------------------------------------------
(* The server: handle_client_session with a device attached.               *)

\* urb_handler_submit: the entry for a header.
Entry(u) ==
  [seqnum |-> u.seqnum, devid |-> u.devid, direction |-> u.direction % 256,
   endpoint |-> IF u.direction % 256 = USBIP_DIR_IN THEN 128 + (u.ep % 128)
                                                    ELSE u.ep % 256,
   type |-> IF u.ep % 256 = 0 THEN "CONTROL" ELSE "BULK",
   buffer_length |-> u.transfer_buffer_length, start_frame |-> u.start_frame,
   number_of_packets |-> u.number_of_packets, setup |-> u.setup, cancelled |-> FALSE]

\* The URB is submitted, or there is no memory for its entry.
Forward(u) == pending' \in {pending \cup {Entry(u)}, pending}

CarriesData(u) == u.direction = USBIP_DIR_OUT /\ u.transfer_buffer_length > 0

RecvSubmit ==
  /\ ServerTakes("urb", 48)
  /\ LET u == Submit(usbip_recv_urb_header(up))
     IN /\ u.command = USBIP_CMD_SUBMIT
        /\ IF CarriesData(u)
           THEN /\ srv' = [pc |-> "data", header |-> u]
                /\ UNCHANGED <<pending, heard>>
           ELSE /\ srv' = [srv EXCEPT !.pc = "drain"]
                /\ Forward(u)
                /\ heard' = Append(heard, [op |-> "SUBMIT", u |-> u, data |-> <<>>])
  /\ UNCHANGED <<down, clientVars, executed, told>>

\* usbip_recv_urb_data
RecvData ==
  /\ ServerTakes("data", srv.header.transfer_buffer_length)
  /\ srv' = [srv EXCEPT !.pc = "drain"]
  /\ Forward(srv.header)
  /\ heard' = Append(heard, [op |-> "SUBMIT", u |-> srv.header,
                             data |-> SubSeq(up, 1, srv.header.transfer_buffer_length)])
  /\ UNCHANGED <<down, clientVars, executed, told>>

\* urb_handler_unlink finds the URB in the pending queue or does not; the
\* answer is the same.
RecvUnlink ==
  /\ ServerTakes("urb", 48)
  /\ LET u == Unlink(usbip_recv_urb_header(up))
         victims == {e \in pending : e.seqnum = u.seqnum_to_unlink}
     IN /\ u.command = USBIP_CMD_UNLINK
        /\ heard' = Append(heard, [op |-> "UNLINK", u |-> u])
        /\ \E found \in SUBSET victims :
             pending' = (pending \ found) \cup {[e EXCEPT !.cancelled = TRUE] : e \in found}
        /\ ServerSends([op |-> "RET_UNLINK", seqnum |-> u.seqnum, devid |-> u.devid,
                        status |-> 0],
                       usbip_send_urb_header(
                         usbip_create_urb_unlink_ret(u.seqnum, u.devid, 0)))
  /\ UNCHANGED <<clientVars, srv, executed>>

\* What a transfer may come to: moved bytes, and success, a timeout after some
\* bytes (a pipe only) or another failure.
usb_control_transfer(length) ==
  {[ok |-> TRUE, actual |-> n] : n \in 0 .. length} \cup {[ok |-> FALSE, actual |-> 0]}
usb_bulk_transfer(length) == [ok : BOOLEAN, actual : 0 .. length]

\* A control transfer carries a 16-bit length.  usb_interrupt_transfer is
\* usb_bulk_transfer.
TransferKind(e) == IF e.endpoint = 0 THEN "control" ELSE "pipe"
usb_submit_urb(e) ==
  IF TransferKind(e) = "control" THEN usb_control_transfer(e.buffer_length % 65536)
                                 ELSE usb_bulk_transfer(e.buffer_length)

\* The status urb_worker_thread or urb_handler_unlink leaves in the entry.
EIO == 5
ECANCELED == 105
Completions(e) ==
  {[seqnum |-> e.seqnum, devid |-> e.devid, direction |-> e.direction,
    endpoint |-> e.endpoint, start_frame |-> e.start_frame,
    number_of_packets |-> e.number_of_packets, setup |-> e.setup,
    actual_length |-> r.actual, status |-> r.status] :
   r \in IF e.cancelled THEN {[actual |-> 0, status |-> -ECANCELED]}
         ELSE {[actual |-> t.actual, status |-> IF t.ok THEN 0 ELSE -EIO] :
               t \in usb_submit_urb(e)}}

CompletionData(c) ==
  IF c.direction = USBIP_DIR_IN THEN Payload(c.actual_length) ELSE <<>>

\* The answer to a URB, as it is meant.
ReturnMessage(c) ==
  [op |-> "RET_SUBMIT", seqnum |-> c.seqnum, devid |-> c.devid, direction |-> c.direction,
   ep |-> c.endpoint % 128, status |-> c.status, actual_length |-> c.actual_length,
   start_frame |-> c.start_frame, number_of_packets |-> c.number_of_packets,
   setup |-> c.setup, data |-> CompletionData(c)]

\* client_send_urb_completion; the header is sent as it is, then the data.
DrainSend(e) ==
  /\ srv.pc = "drain" /\ e \in pending /\ pending' = pending \ {e}
  /\ executed' = IF e.cancelled THEN executed
                 ELSE executed \cup {[ep |-> e.endpoint % 128, kind |-> TransferKind(e)]}
  /\ \E c \in Completions(e) :
       ServerSends(ReturnMessage(c),
                   usbip_send_urb_header(urb_handler_create_return(c)) \o CompletionData(c))
  /\ UNCHANGED <<up, clientVars, srv, heard>>

DrainDone ==
  /\ srv.pc = "drain" /\ srv' = [srv EXCEPT !.pc = "urb"]
  /\ UNCHANGED <<up, down, clientVars, pending, executed, heard, told>>

ServerNeeds ==
  CASE srv.pc = "request" -> 8 [] srv.pc = "busid" -> 1 [] srv.pc = "urb" -> 48
    [] srv.pc = "data" -> srv.header.transfer_buffer_length [] OTHER -> 0

\* A receive fails: the client has closed and the bytes do not come.
ServerShort ==
  /\ cli.pc = "closed" /\ Len(up) < ServerNeeds
  /\ srv' = [srv EXCEPT !.pc = "closed"]
  /\ UNCHANGED <<up, down, clientVars, pending, executed, heard, told>>

\* The server's process ends; the last bytes may not arrive.
ServerGone ==
  /\ srv.pc # "closed" /\ srv' = [srv EXCEPT !.pc = "closed"]
  /\ \E n \in Losses : n <= Len(down) /\ down' = SubSeq(down, 1, Len(down) - n)
  /\ UNCHANGED <<up, clientVars, pending, executed, heard, told>>

----------------------------------------------------------------------------
ClientStep ==
  ListHeader \/ ListCount \/ ListDevice \/ ListEnds \/ ImportHeader \/ ImportDevice
  \/ ClientShort

ServerStep ==
  RecvRequest \/ RecvBusid \/ RecvSubmit \/ RecvData \/ RecvUnlink \/ ServerShort
  \/ DrainDone \/ \E e \in pending : DrainSend(e)

Driver ==
  DriverReceive \/ \E u \in Urbs : DriverSubmit(u) \/ DriverUnlink(u)

Busids == {shared[i].info.busid : i \in DOMAIN shared}

Next ==
  \/ ListRequest \/ \E b \in Busids : ImportRequest(b)
  \/ ClientStep \/ Driver \/ ClientGone
  \/ ServerStep \/ ServerGone

Spec == Init /\ [][Next]_vars

----------------------------------------------------------------------------
(* Properties.                                                             *)

\* What the server has understood is what was meant, message by message, and
\* between two messages the next byte it will read is the first of the next
\* message: no path through client_handle_request and handle_client_session
\* reads a byte too many or too few, and no field is misread.
RequestsUnderstood ==
  /\ IsPrefix(heard, asked)
  /\ srv.pc \in {"request", "urb", "drain"} =>
       LET rest == WireAll(Rest(asked, Len(heard)))
       IN IF cli.pc = "closed" THEN IsPrefix(up, rest) ELSE up = rest

Agrees(l, t) ==
  CASE t.op = "REP_DEVLIST" ->
         /\ l.op = "REP_DEVLIST" /\ Len(l.devices) <= Len(t.devices)
         /\ \A i \in DOMAIN l.devices : l.devices[i] = t.devices[i].info
         /\ srv.pc # "closed" => \/ Len(l.devices) = Len(t.devices)
                                 \/ Len(l.devices) = MAX_DEVICES
    [] OTHER -> l = t

\* The same for the replies: the client's program and its driver take every
\* device, status and length for what the server meant, and the driver finds
\* each header where the one before ends.
RepliesUnderstood ==
  /\ Len(learned) <= Len(told)
  /\ \A i \in DOMAIN learned : Agrees(learned[i], told[i])
  /\ cli.pc = "driver" =>
       LET rest == WireAll(Rest(told, Len(learned)))
       IN IF srv.pc = "closed" THEN IsPrefix(down, rest) ELSE down = rest

\* A client program and the server never both wait for bytes of the other: what
\* one takes for the end of a message is the end for the other.  (The driver
\* may wait: see UrbSession!EveryUrbAnswered.)
NeverBothWaiting ==
  ~(srv.pc # "closed" /\ Len(up) < ServerNeeds
    /\ \/ cli.pc \in {"list", "ndev", "import", "info"} /\ Len(down) < ClientNeeds
       \/ cli.pc = "device" /\ More /\ ~Whole)

\* A URB for endpoint 0 is executed as a control transfer.
ControlIsControl == \A x \in executed : x.ep = 0 => x.kind = "control"
=============================================================================
