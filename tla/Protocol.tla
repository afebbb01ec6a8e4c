------------------------------ MODULE Protocol ------------------------------
(***************************************************************************)
(* The vocabulary that borrower and lender share: what libusb can say of a *)
(* transfer, what the lender makes of it, which header status goes on the  *)
(* wire and what parse_frame makes of that on the other side.  Constant    *)
(* definitions only; the state lives in the modules that extend this one.  *)
(***************************************************************************)
EXTENDS Naturals, Sequences, FiniteSets

(* Finite maps: HashMap::insert and HashMap::remove. *)
Insert(f, k, v) == [x \in DOMAIN f \cup {k} |-> IF x = k THEN v ELSE f[x]]
Remove(f, k) == [x \in DOMAIN f \ {k} |-> f[x]]
IsMap(f, K, V) == /\ f = [x \in DOMAIN f |-> f[x]]
                  /\ DOMAIN f \subseteq K
                  /\ \A x \in DOMAIN f : f[x] \in V
EmptyMap == [x \in {} |-> x]

-----------------------------------------------------------------------------
(* What a submitted transfer ends with: the TransferStatus of libusb, or
   the error of a failed libusb call. *)
TransferStatus == {"Completed", "Error", "TimedOut", "Cancelled", "Stall",
                   "NoDevice", "Overflow"}
RusbError == {"IoErr", "InvalidParamErr", "NoDeviceErr", "TimeoutErr",
              "OverflowErr", "PipeErr", "NotFoundErr", "OtherErr"}

ReportableError == {"TimedOut", "Cancelled", "Stall", "Overflow"}
AbortableError == {"InvalidData", "DeviceDisconnected", "Proto", "Oops", "Other"}

(* A transfer ends well, with an error the guest driver should see, or with
   one that ends the session. *)
Ok == [class |-> "ok", err |-> "Success"]
Reportable(e) == [class |-> "reportable", err |-> e]
Abortable(e) == [class |-> "abortable", err |-> e]
TransferResult == {Ok} \cup {Reportable(e) : e \in ReportableError}
                       \cup {Abortable(e) : e \in AbortableError}

convert_libusb_to_proto(s) ==
  CASE s = "Completed" -> Ok
    [] s \in {"TimedOut", "Cancelled", "Stall", "Overflow"} -> Reportable(s)
    [] s \in {"NoDevice", "NoDeviceErr"} -> Abortable("DeviceDisconnected")
    [] s \in {"IoErr", "InvalidParamErr"} -> Abortable("Proto")
    [] s = "TimeoutErr" -> Reportable("TimedOut")
    [] s = "OverflowErr" -> Reportable("Overflow")
    [] s = "PipeErr" -> Reportable("Stall")
    [] OTHER -> Abortable("Other")

(* AbortableError::as_proto: the header status a lender aborts with. *)
as_proto(e) ==
  CASE e = "InvalidData" -> "Proto"
    [] e = "DeviceDisconnected" -> "NoDev"
    [] e = "Proto" -> "DevErr"
    [] e = "Oops" -> "Failed"
    [] e = "Other" -> "Unexpected"

Status == {"Success", "Failed", "DevBusy", "DevErr", "NoDev", "Unexpected",
           "VersionMismatch", "Timeout", "Proto"}

(* parse_frame on the status of a RetSubmit or RetPort header: the frame,
   an AbortableError, or the panic of unimplemented!(). *)
parse_status(s) ==
  CASE s = "Success" -> "frame"
    [] s \in {"DevErr", "NoDev", "Proto"} -> "abort"
    [] OTHER -> "unimplemented"

-----------------------------------------------------------------------------
(* What the lender does with a URB depends on its TransferKind and, for a
   control URB, on CtrlKind::parse of its setup packet.  "setaddr" never
   leaves the borrower.  A port reset is no URB but takes the same path. *)
Asynchronous == {"iso", "int", "ctrl", "bulk"}
Blocking == {"setif", "setcfg", "clrstall"}
RemoteKind == Asynchronous \cup Blocking
UrbKind == RemoteKind \cup {"setaddr"}

(* The five channels between the lender's loops and their capacities. *)
Channel == {"iso", "int", "ctrl", "bulk", "reset"}
ChannelOf(kind) == IF kind \in Blocking THEN "ctrl" ELSE kind
ChanCap(c) == IF c \in {"iso", "bulk"} THEN 8 ELSE 1

-----------------------------------------------------------------------------
(* Frames.  A CmdSubmit and a RetSubmit carry a UrbHeader after the Header,
   the other frames are a bare Header.  "whole" is FALSE for a reply whose
   tail was overwritten, and "Garbage" is a header no peer ever composed. *)
CmdFrame(cmd, s, kind) == [cmd |-> cmd, seq |-> s, kind |-> kind]
RetFrame(cmd, s, st, res) ==
  [cmd |-> cmd, seq |-> s, status |-> st, res |-> res, whole |-> TRUE]

CmdFrames(S) == [cmd : {"CmdSubmit", "CmdUnlink", "CmdPort"}, seq : S,
                 kind : RemoteKind \cup {"none"}]
RetFrames(S) == [cmd : {"RetSubmit", "RetPort", "Garbage"}, seq : S,
                 status : Status, res : ReportableError \cup {"Success"},
                 whole : BOOLEAN]

(* Length of a frame in 8-byte words, as far as the 32-byte ring of the
   drain loops can tell: an 8-byte Header, with a 24-byte UrbHeader or not. *)
DrainRoom == 4
CmdWords(f) == IF f.cmd = "CmdSubmit" THEN DrainRoom ELSE 1
RetWords(f) == IF f.cmd = "RetSubmit" /\ f.status = "Success" THEN DrainRoom ELSE 1
=============================================================================
