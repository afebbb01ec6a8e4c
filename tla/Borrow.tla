------------------------------- MODULE Borrow -------------------------------
(***************************************************************************)
(* BorrowDevice::borrow: the task that owns the session, the SendLoop that *)
(* turns work items of the virtual port into frames, and the RecvLoop that *)
(* turns replies into givebacks.  The two loops share the handle/seqnum    *)
(* maps behind a mutex, and the cancellation token.                        *)
(*                                                                         *)
(* The loops are tasks of one single-threaded runtime, so what one of them *)
(* does between two awaits is one action.  A debug_assert is not part of   *)
(* the actions (release builds drop it); Session states it as a property.  *)
(* An assert!, unwrap() or unimplemented!() that fails ends its task.      *)
(***************************************************************************)
EXTENDS Vhci, Streams

CONSTANTS SeqLimit,         \* bound: sequence numbers, far below 2^32
          BorrowCancel      \* may the application cancel the borrower?

ASSUME BorrowAssumption ==
  /\ SeqLimit \in Nat
  /\ BorrowCancel \in BOOLEAN

VARIABLES curSeq, seqnums, handles,     \* Counter and HandleSeqnumLinker
          bAddr, bPrev,                 \* BorrowSendHandler::addr, ::prev
          bBuf, bFlush,                 \* ::buf, and what write_all still has to write
          bSend, bRecv, bMain,          \* control state of the three tasks
          bCancel,                      \* the CancellationToken
          bRoom,                        \* free words of the drain loop's ring
          urbOf                         \* history: seqnum -> URB, 0 for a reset

borrowVars == <<curSeq, seqnums, handles, bAddr, bPrev, bBuf, bFlush,
                bSend, bRecv, bMain, bCancel, bRoom, urbOf>>

Seqnum == 0..(SeqLimit - 1)
NoAddress == 255

BorrowInit ==
  /\ curSeq = 0 /\ seqnums = EmptyMap /\ handles = EmptyMap /\ urbOf = EmptyMap
  /\ bAddr = 0 /\ bPrev = {}
  /\ bBuf = <<>> /\ bFlush = <<>>
  /\ bSend = "Solicit" /\ bRecv = "run" /\ bMain = "recv"
  /\ bCancel = FALSE /\ bRoom = DrainRoom

BorrowTypeOK ==
  /\ curSeq \in 0..SeqLimit
  /\ IsMap(seqnums, AnyHandle, Seqnum)
  /\ IsMap(handles, Seqnum, AnyHandle)
  /\ IsMap(urbOf, Seqnum, {0} \cup Urb)
  /\ bAddr \in {0, 1, NoAddress} /\ bPrev \in SUBSET PortFlag
  /\ bBuf \in Seq(CmdFrames(Seqnum)) /\ bFlush \in Seq(CmdFrames(Seqnum))
  /\ bSend \in {"Solicit", "Timer", "Flush", "closing", "done"}
  /\ bRecv \in {"run", "drain", "done", "unwrapPanic", "unimplementedPanic"}
  /\ bMain \in {"recv", "send", "disconnect", "done", "panic"}
  /\ bCancel \in BOOLEAN /\ bRoom \in 0..DrainRoom

-----------------------------------------------------------------------------
(* SendLoop::do_loop.  The loop takes a work item in every state, but none
   after the token was cancelled.  It checks the buffer after each. *)
Sending == bSend \in {"Solicit", "Timer", "Flush"}
afterWork_NoTimer(buf) == bSend
afterWork(buf) == IF bSend = "Solicit" /\ buf # <<>> THEN "Timer" ELSE bSend
TakeWork(op) == /\ Sending /\ ~bCancel
                /\ work # <<>> /\ Head(work).op = op
                /\ work' = Tail(work)

(* The loop returned: the handler and its buffer are dropped, a write in
   progress is abandoned, and run() closes the stream. *)
endSendLoop == /\ bSend' = "closing" /\ toLFin' = TRUE
               /\ bBuf' = <<>> /\ bFlush' = <<>>

(* The next sequence number, entered into both maps. *)
nextSeqnum(h, u) ==
  /\ curSeq < SeqLimit
  /\ curSeq' = curSeq + 1
  /\ seqnums' = Insert(seqnums, h, curSeq)
  /\ handles' = Insert(handles, curSeq, h)
  /\ urbOf' = Insert(urbOf, curSeq, u)

address_invalidated(next) == "C_CONNECTION" \in next
reset_successful_Early(next) == "C_RESET" \in next /\ "RESET" \in next
reset_successful(next) == "C_RESET" \in next /\ "RESET" \notin next /\ "ENABLE" \in next
power_off(next) == "POWER" \in bPrev /\ "POWER" \notin next
send_port_reset(next) == /\ ~address_invalidated(next) /\ ~reset_successful(next)
                         /\ ~power_off(next)
                         /\ "RESET" \notin bPrev /\ {"RESET", "CONNECTION"} \subseteq next

port_stat ==
  /\ TakeWork("PortStat")
  /\ LET next == Head(work).stat IN
       /\ bPrev' = next
       /\ bAddr' = IF address_invalidated(next) THEN NoAddress
                   ELSE IF reset_successful(next) THEN 0 ELSE bAddr
       /\ IF send_port_reset(next)
          THEN /\ \E h \in ResetHandles \ DOMAIN seqnums : nextSeqnum(h, 0)
               /\ bBuf' = Append(bBuf, CmdFrame("CmdPort", curSeq, "none"))
          ELSE UNCHANGED <<curSeq, seqnums, handles, urbOf, bBuf>>
  /\ bSend' = afterWork(bBuf')
  /\ UNCHANGED <<bFlush, bRecv, bMain, bCancel, bRoom, port, kaddr, urbs, cur,
                 unlinked, outcome, nResets, tasks, streamVars>>

(* SET_ADDRESS for a device without an address stays on this side. *)
set_address ==
  /\ TakeWork("ProcessUrb")
  /\ LET w == Head(work) IN
       /\ urbs[w.u].kind = "setaddr" /\ w.addr = 0
       /\ bAddr' = 1
       /\ tasks' = Append(tasks, Giveback(w.h, w.u, "Success"))
  /\ UNCHANGED <<curSeq, seqnums, handles, bPrev, bBuf, bFlush, bSend, bRecv,
                 bMain, bCancel, bRoom, urbOf, port, kaddr, urbs, cur,
                 unlinked, outcome, nResets, streamVars>>

(* Any other URB becomes a CmdSubmit.  Payload the device is to receive is
   first fetched from the controller, which fails with ECANCELED when the
   guest has unlinked the URB meanwhile; a failure ends the loop. *)
process_urb ==
  /\ TakeWork("ProcessUrb")
  /\ LET w == Head(work)
         shape == urbs[w.u]
     IN /\ ~(shape.kind = "setaddr" /\ w.addr = 0)
        /\ nextSeqnum(w.h, w.u)
        /\ \/ /\ bBuf' = Append(bBuf, CmdFrame("CmdSubmit", curSeq, shape.kind))
              /\ bSend' = afterWork(bBuf')
              /\ UNCHANGED <<bFlush, toLFin>>
           \/ /\ shape.fetch /\ w.u \in unlinked
              /\ endSendLoop
  /\ UNCHANGED <<bAddr, bPrev, bRecv, bMain, bCancel, bRoom, port, kaddr, urbs,
                 cur, unlinked, outcome, nResets, tasks,
                 toL, toLStop, toB, toBFin, toBStop, lost>>

(* The handle of a URB whose reply was already taken is no longer mapped. *)
cancel_urb_GivesBack ==
  /\ TakeWork("CancelUrb")
  /\ LET h == Head(work).h IN
       tasks' = IF h \in DOMAIN seqnums
                THEN Append(tasks, Giveback(h, urbOf[seqnums[h]], "Cancelled"))
                ELSE tasks
  /\ UNCHANGED <<borrowVars, port, kaddr, urbs, cur, unlinked, outcome, nResets,
                 streamVars>>
cancel_urb ==
  /\ TakeWork("CancelUrb")
  /\ LET h == Head(work).h IN
       bBuf' = IF h \in DOMAIN seqnums
               THEN Append(bBuf, CmdFrame("CmdUnlink", seqnums[h], "none"))
               ELSE bBuf
  /\ bSend' = afterWork(bBuf')
  /\ UNCHANGED <<curSeq, seqnums, handles, bAddr, bPrev, bFlush, bRecv, bMain,
                 bCancel, bRoom, urbOf, port, kaddr, urbs, cur, unlinked,
                 outcome, nResets, tasks, streamVars>>

sendUnchanged == UNCHANGED <<curSeq, seqnums, handles, bAddr, bPrev, bRecv,
                             bMain, bCancel, bRoom, urbOf>>

flush_buf_Copies == bFlush' = bBuf /\ bBuf' = bBuf
flush_buf == bFlush' = bBuf /\ bBuf' = <<>>

FlushBuf ==
  /\ bSend = "Timer"
  /\ bSend' = "Flush"
  /\ flush_buf
  /\ sendUnchanged /\ UNCHANGED <<vhciVars, streamVars>>

(* write_all puts one more frame on the stream. *)
WriteFrame ==
  /\ bSend = "Flush" /\ bFlush # <<>>
  /\ ~lost /\ ~toLStop
  /\ toL' = Append(toL, Head(bFlush))
  /\ bFlush' = Tail(bFlush)
  /\ sendUnchanged
  /\ UNCHANGED <<bBuf, bSend, vhciVars, toLFin, toLStop, borrowDir, lost>>

afterFlush_Solicit(buf) == "Solicit"
afterFlush(buf) == IF buf = <<>> THEN "Solicit" ELSE "Timer"

FlushComplete ==
  /\ bSend = "Flush" /\ bFlush = <<>>
  /\ bSend' = afterFlush(bBuf)
  /\ sendUnchanged /\ UNCHANGED <<bBuf, bFlush, vhciVars, streamVars>>

(* The loop ends on a failed write, or when the token stops its work stream. *)
EndSendLoop ==
  /\ \/ bSend = "Flush" /\ bFlush # <<>> /\ (lost \/ toLStop)
     \/ Sending /\ bCancel
  /\ endSendLoop
  /\ sendUnchanged /\ UNCHANGED <<vhciVars, toL, toLStop, borrowDir, lost>>

(* stopped(): the peer has everything, refused the rest, or is lost.  QUIC
   may acknowledge frames before the peer's loop has read them. *)
StreamStopped ==
  /\ bSend = "closing"
  /\ bSend' = "done"
  /\ sendUnchanged /\ UNCHANGED <<bBuf, bFlush, vhciVars, streamVars>>

-----------------------------------------------------------------------------
(* RecvLoop::do_loop. *)
recvUnchanged == UNCHANGED <<curSeq, bAddr, bPrev, bBuf, bFlush, bSend, bMain,
                             bCancel, urbOf>>
CanRead == bRecv = "run" /\ ~bCancel /\ ~lost /\ toB # <<>>
Reply == Head(toB)

(* Both unwraps must find their entry. *)
Expected(s) == s \in DOMAIN handles /\ handles[s] \in DOMAIN seqnums
forget_OneMap(s) == handles' = Remove(handles, s) /\ UNCHANGED seqnums
forget(s) == /\ handles' = Remove(handles, s)
             /\ seqnums' = Remove(seqnums, handles[s])

urb_reply ==
  /\ CanRead /\ Reply.cmd = "RetSubmit" /\ parse_status(Reply.status) = "frame"
  /\ Expected(Reply.seq)
  /\ forget(Reply.seq)
  /\ tasks' = Append(tasks, Giveback(handles[Reply.seq], urbOf[Reply.seq], Reply.res))
  /\ toB' = Tail(toB)
  /\ recvUnchanged
  /\ UNCHANGED <<bRecv, bRoom, port, kaddr, urbs, cur, unlinked, outcome,
                 nResets, work, lendDir, toBFin, toBStop, lost>>

device_reset ==
  /\ CanRead /\ Reply.cmd = "RetPort" /\ parse_status(Reply.status) = "frame"
  /\ Expected(Reply.seq)
  /\ forget(Reply.seq)
  /\ PortResetDone
  /\ toB' = Tail(toB)
  /\ recvUnchanged
  /\ UNCHANGED <<bRecv, bRoom, urbs, cur, unlinked, outcome, nResets, tasks,
                 lendDir, toBFin, toBStop, lost>>

(* A reply for a command that was never sent, or with a status parse_frame has
   no use for.  The panic drops the stream on its way out. *)
RecvPanic ==
  /\ CanRead /\ Reply.cmd # "Garbage"
  /\ LET parsed == parse_status(Reply.status) IN
       /\ parsed = "unimplemented" \/ (parsed = "frame" /\ ~Expected(Reply.seq))
       /\ bRecv' = IF parsed = "frame" THEN "unwrapPanic" ELSE "unimplementedPanic"
  /\ toB' = <<>> /\ toBStop' = TRUE
  /\ recvUnchanged
  /\ UNCHANGED <<seqnums, handles, bRoom, vhciVars, lendDir, toBFin, lost>>

(* An error frame, garbage, the end of the stream or the token end the loop. *)
EndRecvLoop ==
  /\ bRecv = "run"
  /\ \/ /\ CanRead
        /\ Reply.cmd = "Garbage" \/ parse_status(Reply.status) = "abort"
        /\ toB' = Tail(toB)
     \/ /\ bCancel \/ lost \/ (toBFin /\ toB = <<>>)
        /\ UNCHANGED toB
  /\ bRecv' = "drain"
  /\ recvUnchanged
  /\ UNCHANGED <<seqnums, handles, bRoom, vhciVars, lendDir, toBFin, toBStop, lost>>

(* "Drain the streams": reads into a ring of 32 bytes that is never emptied. *)
DrainRead ==
  /\ bRecv = "drain" /\ bRoom > 0 /\ toB # <<>>
  /\ toB' = Tail(toB)
  /\ bRoom' = IF RetWords(Reply) > bRoom THEN 0 ELSE bRoom - RetWords(Reply)
  /\ recvUnchanged
  /\ UNCHANGED <<seqnums, handles, bRecv, vhciVars, lendDir, toBFin, toBStop, lost>>

DrainEnd ==
  /\ bRecv = "drain"
  /\ bRoom = 0 \/ lost \/ (toBFin /\ toB = <<>>)
  /\ bRecv' = "done"
  /\ toBStop' = (toBStop \/ ~(toBFin /\ toB = <<>>))
  /\ toB' = <<>>
  /\ recvUnchanged
  /\ UNCHANGED <<seqnums, handles, bRoom, vhciVars, lendDir, toBFin, lost>>

-----------------------------------------------------------------------------
(* BorrowDevice::borrow waits for the receive loop, cancels, waits for the
   send loop, and unplugs the port. *)
mainUnchanged == UNCHANGED <<curSeq, seqnums, handles, bAddr, bPrev, bRecv,
                             bRoom, urbOf, port, kaddr, urbs, cur, unlinked,
                             outcome, nResets, work>>
RecvJoined_NoCancel ==
  /\ bMain = "recv" /\ bRecv = "done"
  /\ bMain' = "send"
  /\ mainUnchanged /\ UNCHANGED <<bCancel, bBuf, bFlush, bSend, tasks, streamVars>>

RecvJoined_SendFirst ==
  /\ bMain = "recv" /\ bSend = "done"
  /\ bMain' = "send"
  /\ mainUnchanged /\ UNCHANGED <<bCancel, bBuf, bFlush, bSend, tasks, streamVars>>

RecvJoined ==
  /\ bMain = "recv" /\ bRecv = "done"
  /\ bMain' = "send" /\ bCancel' = TRUE
  /\ mainUnchanged /\ UNCHANGED <<bBuf, bFlush, bSend, tasks, streamVars>>

(* recv.await.unwrap() of a task that panicked: the send task is dropped
   with its stream, and the port stays plugged in. *)
RecvJoinPanic ==
  /\ bMain = "recv" /\ bRecv \in {"unwrapPanic", "unimplementedPanic"}
  /\ bMain' = "panic"
  /\ bSend' = "done" /\ bBuf' = <<>> /\ bFlush' = <<>> /\ toLFin' = TRUE
  /\ mainUnchanged
  /\ UNCHANGED <<bCancel, tasks, toL, toLStop, borrowDir, lost>>

SendJoined ==
  /\ bMain = "send" /\ bSend = "done"
  /\ bMain' = "disconnect"
  /\ tasks' = Append(tasks, Disconnect)
  /\ mainUnchanged /\ UNCHANGED <<bCancel, bBuf, bFlush, bSend, streamVars>>

Disconnected ==
  /\ bMain = "disconnect" /\ port = "gone"
  /\ bMain' = "done"
  /\ mainUnchanged /\ UNCHANGED <<bCancel, bBuf, bFlush, bSend, tasks, streamVars>>

CancelBorrow ==
  /\ BorrowCancel /\ ~bCancel /\ bMain = "recv"
  /\ bCancel' = TRUE
  /\ mainUnchanged
  /\ UNCHANGED <<bMain, bBuf, bFlush, bSend, tasks, streamVars>>

BorrowSend == \/ port_stat \/ set_address \/ process_urb \/ cancel_urb
              \/ FlushBuf \/ WriteFrame \/ FlushComplete \/ EndSendLoop
BorrowRecv == \/ urb_reply \/ device_reset \/ RecvPanic \/ EndRecvLoop
              \/ DrainRead \/ DrainEnd
BorrowMain == RecvJoined \/ RecvJoinPanic \/ SendJoined \/ Disconnected
BlockingThread == (RunGiveback \/ RunDisconnect) /\ UNCHANGED <<borrowVars, streamVars>>
=============================================================================
