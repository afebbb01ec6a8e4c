-------------------------------- MODULE Frames --------------------------------
(***************************************************************************)
(* How long the frames are, and how both ends work that out: the header    *)
(* fields the writers fill in, and the slices the readers take.  Lengths   *)
(* are real byte counts, with the 16 bits the code keeps of them; what the *)
(* bytes say is left out.                                                  *)
(*                                                                         *)
(* A URB of the guest is [kind, out, len, pkts]: its direction, the length *)
(* of its buffer and its isochronous packets.                              *)
(***************************************************************************)
EXTENDS Integers

Kinds == {"ctrl", "int", "bulk", "iso"}
Urb == [kind : Kinds, out : BOOLEAN, len : Nat, pkts : Nat]

HeaderLen == 8          \* size_of Header, ReqFrame and Resp
UrbHeaderLen == 24
SetupLen == 8           \* IocSetupPacket
PktLen == 8             \* IocIsoPacketData and IocIsoPacketGiveback
Headers == HeaderLen + UrbHeaderLen
ScratchLen == 65536     \* one buffer of the BytesAllocator

u16(n) == n % 65536
align(n) == ((n + 7) \div 8) * 8
padding(n) == align(n) - n

(* The sender divides the length by 8, the receiver multiplies it again, both
   in 16 bits (as built with --release; a debug build panics instead). *)
compress_frame_len(len) == u16(len \div 8)
get_slice_len(total) == u16(total * 8)

(* UrbHeader and the rule for what follows it, as UrbFrame::get_slice_len has
   it: a transfer buffer if the other side needs to read it, and the packets.
   (The code states the rule and no code path uses it: recv_frame cuts frames
   by total_frame_len, and writers and handlers each do their own sums.) *)
UrbHeader == [kind : Kinds, out : BOOLEAN, reply : BOOLEAN, alen : Nat, pkts : Nat]
padded_transfer_len(h) == align(h.alen)
iso_byte_len(h) == h.pkts * PktLen
has_transfer(h) == (h.out /\ ~h.reply) \/ (~h.out /\ h.reply)
required_byte_len(h) ==
  (IF has_transfer(h) THEN padded_transfer_len(h) ELSE 0) + iso_byte_len(h)

-----------------------------------------------------------------------------
(* BorrowSendHandler::process_urb *)
request_header(u) == [kind |-> u.kind, out |-> u.out, reply |-> FALSE,
                      alen |-> u16(u.len), pkts |-> u16(u.pkts)]
request_bytes_Unpadded(u) ==
  LET h == request_header(u)
  IN Headers + (IF u.out THEN h.alen ELSE 0) + iso_byte_len(h)
request_bytes(u) ==
  LET h == request_header(u)
  IN Headers + (IF u.out THEN padded_transfer_len(h) ELSE 0) + iso_byte_len(h)

(* What new_ctrl, new_int, new_bulk and new_iso make of a request frame of b
   bytes: the length of the transfer's buffer and the bytes left for packets,
   or a failed assertion, split or unwrap.  wLength is the URB's length. *)
data_len(b) == b - Headers
shorter(m, n) == IF m < n THEN m ELSE n
new_ctrl(h, b) ==
  IF h.out THEN [ok |-> align(h.alen + SetupLen) = data_len(b) + SetupLen,
                 len |-> shorter(h.alen, data_len(b)), iso |-> 0]
           ELSE [ok |-> SetupLen + padded_transfer_len(h) <= ScratchLen,
                 len |-> h.alen, iso |-> 0]
new_int(h, b) ==
  IF h.out THEN [ok |-> TRUE, len |-> shorter(h.alen, data_len(b)), iso |-> 0]
           ELSE [ok |-> padded_transfer_len(h) <= ScratchLen, len |-> h.alen, iso |-> 0]
new_bulk(h, b) == new_int(h, b)
new_iso(h, b) ==
  LET rest == IF h.out THEN data_len(b) - padded_transfer_len(h) ELSE data_len(b)
  IN [ok |-> rest = iso_byte_len(h), len |-> h.alen, iso |-> rest]
lend_view(h, b) == CASE h.kind = "ctrl" -> new_ctrl(h, b)
                     [] h.kind = "int"  -> new_int(h, b)
                     [] h.kind = "bulk" -> new_bulk(h, b)
                     [] h.kind = "iso"  -> new_iso(h, b)

-----------------------------------------------------------------------------
(* ResultData of a transfer that moved n bytes.  An isochronous transfer sends
   its whole buffer back, whose capacity is the padded length. *)
result_len(h, n) == IF h.kind = "iso" THEN padded_transfer_len(h) ELSE n

(* as_header_data and ctrl_completed, int_completed, bulk_completed,
   iso_completed *)
reply_header(h, n) ==
  [kind |-> h.kind, out |-> h.out, reply |-> TRUE, alen |-> u16(result_len(h, n)),
   pkts |-> IF h.kind = "iso" THEN h.pkts ELSE 0]
reply_bytes_NoPackets(h, n) ==
  LET r == result_len(h, n)
  IN Headers + (IF h.out THEN 0 ELSE r + padding(u16(r)))
reply_bytes(h, n) ==
  LET r == result_len(h, n)
  IN Headers + (IF h.out THEN 0 ELSE r + padding(u16(r)))
     + (IF h.kind = "iso" THEN iso_byte_len(h) ELSE 0)

(* BorrowRecvHandler::urb_reply *)
urb_reply_Untruncated(h, b) ==
  IF h.out THEN [ok |-> TRUE, len |-> h.alen, iso |-> data_len(b)]
  ELSE [ok |-> padded_transfer_len(h) <= data_len(b), len |-> padded_transfer_len(h),
        iso |-> data_len(b) - padded_transfer_len(h)]
urb_reply(h, b) ==
  IF h.out THEN [ok |-> TRUE, len |-> h.alen, iso |-> data_len(b)]
  ELSE [ok |-> padded_transfer_len(h) <= data_len(b), len |-> h.alen,
        iso |-> data_len(b) - padded_transfer_len(h)]
=============================================================================
