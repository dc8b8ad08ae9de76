---------------------------- MODULE UsbipFormat -----------------------------
(***************************************************************************)
(* The structures of common/protocol.h in memory and on the wire, and the  *)
(* functions of common/protocol.c that build and convert them.             *)
(*                                                                         *)
(* A structure is the sequence of its fields and a field the sequence of   *)
(* its bytes in memory.  The host is little-endian.  The three members of  *)
(* the union in usbip_header_t overlay each other word by word, so a URB   *)
(* header is ten words and the eight bytes of the setup packet whatever    *)
(* its command.  A name (path, bus id) takes one place instead of its 256  *)
(* or 32 characters: names are never converted.  32-bit numbers are read   *)
(* as signed ones.                                                         *)
(***************************************************************************)
EXTENDS Integers, Sequences

USBIP_PROTO_VERSION == 273    \* 0x0111
OP_REQ_DEVLIST == 32773       \* 0x8005
OP_REP_DEVLIST == 5
OP_REQ_IMPORT == 32771        \* 0x8003
OP_REP_IMPORT == 3
USBIP_CMD_SUBMIT == 1
USBIP_CMD_UNLINK == 2
USBIP_RET_SUBMIT == 3
USBIP_RET_UNLINK == 4
USBIP_ST_OK == 0
USBIP_ST_NA == 1
USBIP_ST_DEV_BUSY == 2
USBIP_DIR_OUT == 0
USBIP_DIR_IN == 1

\* The first and the last byte of every field of a structure.
BasicLayout == <<<<1, 2>>, <<3, 4>>, <<5, 8>>>>
DeviceLayout == <<<<1, 1>>, <<2, 2>>, <<3, 6>>, <<7, 10>>, <<11, 14>>, <<15, 16>>,
                  <<17, 18>>, <<19, 20>>, <<21, 25>>, <<26, 26>>>>
HeaderLayout == <<<<1, 4>>, <<5, 8>>, <<9, 12>>, <<13, 16>>, <<17, 20>>, <<21, 24>>,
                  <<25, 28>>, <<29, 32>>, <<33, 36>>, <<37, 40>>, <<41, 48>>>>
Fields(bytes, layout) ==
  [i \in DOMAIN layout |-> SubSeq(bytes, layout[i][1], layout[i][2])]

\* A number as a field in the memory of the host, and the number in a field.
Host16(n) == <<n % 256, (n \div 256) % 256>>
Host32(n) == <<n % 256, (n \div 256) % 256, (n \div 65536) % 256, (n \div 16777216) % 256>>
Number16(f) == f[1] + 256 * f[2]
Number32(f) == f[1] + 256 * f[2] + 65536 * f[3]
                 + 16777216 * (IF f[4] < 128 THEN f[4] ELSE f[4] - 256)

\* The numbers a field of four bytes holds, read as signed, and one of two bytes.
Int32 == {n \in Int : -2147483647 - 1 <= n /\ n <= 2147483647}
Nat16 == 0 .. 65535
Octet == 0 .. 255

\* The same number in network order, the reference for what is on the wire.
Net16(n) == <<(n \div 256) % 256, n % 256>>
Net32(n) == <<(n \div 16777216) % 256, (n \div 65536) % 256, (n \div 256) % 256, n % 256>>

----------------------------------------------------------------------------
(* Conversion between host and network byte order.                         *)

\* htobe16, htobe32, be16toh and be32toh all reverse the bytes.
swap16(f) == <<f[2], f[1]>>
swap32(f) == <<f[4], f[3], f[2], f[1]>>

Swapped(f) == IF Len(f) = 2 THEN swap16(f) ELSE swap32(f)

SwapFields(s, F) == [i \in DOMAIN s |-> IF i \in F THEN Swapped(s[i]) ELSE s[i]]

usbip_pack_header_basic(header) == SwapFields(header, 1 .. 3)
usbip_unpack_header_basic(header) == SwapFields(header, 1 .. 3)

\* busnum, devnum, speed, idVendor, idProduct, bcdDevice
usbip_pack_device(dev) == SwapFields(dev, 3 .. 8)
usbip_unpack_device(dev) == SwapFields(dev, 3 .. 8)

\* The words of the union that the switch on the command converts.
CommandFields(command) ==
  IF command \in {USBIP_CMD_SUBMIT, USBIP_RET_SUBMIT} THEN 6 .. 10
  ELSE IF command \in {USBIP_CMD_UNLINK, USBIP_RET_UNLINK} THEN {6} ELSE {}

usbip_pack_header(header, command) ==
  SwapFields(header, 1 .. 5 \cup CommandFields(command))

\* Mutation: the switch looks at the command before it is converted.
UnpackByRawCommand(header) ==
  SwapFields(SwapFields(header, 1 .. 5), CommandFields(Number32(header[1])))

\* The common header first, for the command in host order.
usbip_unpack_header(header) ==
  LET common == SwapFields(header, 1 .. 5)
  IN SwapFields(common, CommandFields(Number32(common[1])))

----------------------------------------------------------------------------
(* Messages as their sender builds them.                                   *)

BasicHeader(command, status) ==
  <<Host16(USBIP_PROTO_VERSION), Host16(command), Host32(status)>>

usbip_create_devlist_request == BasicHeader(OP_REQ_DEVLIST, 0)
usbip_create_devlist_reply == BasicHeader(OP_REP_DEVLIST, USBIP_ST_OK)
usbip_create_import_request == BasicHeader(OP_REQ_IMPORT, 0)

\* usb_device_to_usbip: a usb_device_t as the protocol's structure.
usb_device_to_usbip(d) ==
  <<<<d.path>>, <<d.busid>>, Host32(d.busnum), Host32(d.devnum), Host32(d.speed),
    Host16(d.vendor_id), Host16(d.product_id), Host16(d.bcd_device), d.codes,
    <<d.num_interfaces>>>>

Zero == Host32(0)

\* Mutation: the endpoint keeps the direction bit.
ReturnKeepsDirection(e) ==
  <<Host32(USBIP_RET_SUBMIT), Host32(e.seqnum), Host32(e.devid),
    Host32(e.direction), Host32(e.endpoint), Host32(e.status),
    Host32(e.actual_length), Host32(e.start_frame), Host32(e.number_of_packets),
    Zero, e.setup>>

urb_handler_create_return(e) ==
  <<Host32(USBIP_RET_SUBMIT), Host32(e.seqnum), Host32(e.devid),
    Host32(e.direction), Host32(e.endpoint % 16), Host32(e.status),
    Host32(e.actual_length), Host32(e.start_frame), Host32(e.number_of_packets),
    Zero, e.setup>>

usbip_create_urb_unlink_ret(seqnum, devid, status) ==
  <<Host32(USBIP_RET_UNLINK), Host32(seqnum), Host32(devid), Zero, Zero,
    Host32(status), Zero, Zero, Zero, Zero, Zero \o Zero>>

----------------------------------------------------------------------------
(* What a reader makes of a structure it has unpacked.                     *)

DeviceInfo(dev) ==
  [path |-> dev[1][1], busid |-> dev[2][1], busnum |-> Number32(dev[3]),
   devnum |-> Number32(dev[4]), speed |-> Number32(dev[5]),
   vendor_id |-> Number16(dev[6]), product_id |-> Number16(dev[7]),
   bcd_device |-> Number16(dev[8]), codes |-> dev[9], num_interfaces |-> dev[10][1]]

\* The common header and the union's first words, named as in a CMD_SUBMIT.
Submit(h) ==
  [command |-> Number32(h[1]), seqnum |-> Number32(h[2]), devid |-> Number32(h[3]),
   direction |-> Number32(h[4]), ep |-> Number32(h[5]),
   transfer_flags |-> Number32(h[6]), transfer_buffer_length |-> Number32(h[7]),
   start_frame |-> Number32(h[8]), number_of_packets |-> Number32(h[9]),
   interval |-> Number32(h[10]), setup |-> h[11]]

Unlink(h) ==
  [command |-> Number32(h[1]), seqnum |-> Number32(h[2]), devid |-> Number32(h[3]),
   direction |-> Number32(h[4]), ep |-> Number32(h[5]),
   seqnum_to_unlink |-> Number32(h[6])]
=============================================================================
