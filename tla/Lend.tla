-------------------------------- MODULE Lend --------------------------------
(***************************************************************************)
(* LendDevice::lend: the RecvLoop that turns command frames into USB       *)
(* transfers, the SendLoop that turns completed transfers into replies,    *)
(* the five bounded channels between them, the cancel tokens they recycle, *)
(* and the task that owns both.  External parts: libusb, which completes a *)
(* submitted transfer in its own time, and the runtime's blocking pool.    *)
(*                                                                         *)
(* lTasks is the queue of the thread behind task::spawn_blocking.  The     *)
(* closure at its head submits the transfer and then lets go of its        *)
(* reference, in two steps: libusb may complete the transfer in between.   *)
(***************************************************************************)
EXTENDS Streams

CONSTANTS LendSeqnum,       \* sequence numbers frames may carry
          NoToken,          \* stands for "no cancel token"
          Results,          \* how libusb may complete a transfer
          BlockingResults,  \* how set_config, set_interface, clear_halt may end
          LendCancel        \* may the application cancel the lender?

ASSUME LendAssumption ==
  /\ NoToken \notin LendSeqnum
  /\ Results \subseteq TransferStatus \ {"Cancelled"}
  /\ BlockingResults \subseteq {"Completed"} \cup RusbError
  /\ LendCancel \in BOOLEAN

VARIABLES xfer,         \* seqnum -> transfer: kind, st, token, libusb's result
          lTasks,       \* seqnums whose closure the blocking thread still holds
          active,       \* active_transfers: seqnum -> token
          cached,       \* cached_cancel_tokens, a stack
          cancelled,    \* tokens that were cancelled
          chan, hold,   \* the channels; a send the RecvLoop is blocked in
          lBuf, lFlush, \* LendSendHandler::buf; what write_all still has to write
          lSend, lRecv, lMain, lCancel,
          lRoom         \* free words of the drain loop's ring

lendVars == <<xfer, lTasks, active, cached, cancelled, chan, hold, lBuf, lFlush,
              lSend, lRecv, lMain, lCancel, lRoom>>

(* A token is named after the transfer it was created for. *)
Token == LendSeqnum
TransferState == {"queued", "inflight", "ready", "gone"}
Transfer == [kind : RemoteKind \cup {"reset"}, st : TransferState,
             tok : Token \cup {NoToken}, res : TransferStatus \cup RusbError \cup {"none"}]
Completion == [seq : LendSeqnum, res : TransferResult]
NoChannel == [c \in Channel |-> <<>>]

LendInit ==
  /\ xfer = EmptyMap /\ lTasks = <<>>
  /\ active = EmptyMap /\ cached = <<>> /\ cancelled = {}
  /\ chan = NoChannel /\ hold = <<>>
  /\ lBuf = <<>> /\ lFlush = <<>>
  /\ lSend = "Solicit" /\ lRecv = "run" /\ lMain = "join"
  /\ lCancel = FALSE /\ lRoom = DrainRoom

LendTypeOK ==
  /\ IsMap(xfer, LendSeqnum, Transfer)
  /\ lTasks \in Seq(LendSeqnum)
  /\ IsMap(active, LendSeqnum, Token)
  /\ cached \in Seq(Token) /\ cancelled \subseteq Token
  /\ chan \in [Channel -> Seq(Completion)]
  /\ hold \in Seq(Completion)
  /\ lBuf \in Seq(RetFrames(LendSeqnum)) /\ lFlush \in Seq(RetFrames(LendSeqnum))
  /\ lSend \in {"Solicit", "Timer", "Flush", "closing", "done"}
  /\ lRecv \in {"run", "drain", "done", "arcPanic", "todoPanic"}
  /\ lMain \in {"join", "libusb", "done", "panic"}
  /\ lCancel \in BOOLEAN /\ lRoom \in 0..DrainRoom

-----------------------------------------------------------------------------
(* RecvLoop::do_loop.  The loop handles nothing while it is blocked in the
   send of a completion. *)
Running == lRecv = "run" /\ hold = <<>>
TakeFrame(cmd) == /\ Running /\ ~lCancel /\ ~lost
                  /\ toL # <<>> /\ Head(toL).cmd = cmd
                  /\ toL' = Tail(toL)
Frame == Head(toL)

recvKeeps == UNCHANGED <<lBuf, lFlush, lSend, lMain, lCancel, lRoom,
                         toLFin, toLStop, borrowDir, lost>>

start(s, kind, st, tok, res) ==
  xfer' = Insert(xfer, s, [kind |-> kind, st |-> st, tok |-> tok, res |-> res])

(* register_cancel_token recycles the token that was cached last. *)
pop_Peek == cached
pop == IF cached = <<>> THEN cached ELSE SubSeq(cached, 1, Len(cached) - 1)
recycled_CacheOnly(s) == IF cached = <<>> THEN NoToken ELSE cached[Len(cached)]
recycled(s) == IF cached = <<>> THEN s ELSE cached[Len(cached)]
register_cancel_token(s) ==
  LET tok == recycled(s) IN
  /\ cached' = pop
  /\ active' = Insert(active, s, tok)
  /\ start(s, Frame.kind, "queued", tok, "none")

(* task::spawn_blocking: the one thread takes its closures in order. *)
spawn_blocking_Stack(s) == <<s>> \o lTasks
spawn_blocking(s) == Append(lTasks, s)

(* What new_ctrl, new_int, new_iso and new_bulk have in common. *)
new_transfer ==
  /\ TakeFrame("CmdSubmit") /\ Frame.kind \in Asynchronous
  /\ register_cancel_token(Frame.seq)
  /\ lTasks' = spawn_blocking(Frame.seq)
  /\ recvKeeps /\ UNCHANGED <<cancelled, chan, hold, lRecv>>
new_ctrl == new_transfer /\ Frame.kind = "ctrl"
new_int == new_transfer /\ Frame.kind = "int"
new_iso == new_transfer /\ Frame.kind = "iso"
new_bulk == new_transfer /\ Frame.kind = "bulk"

(* Three control requests run on the blocking pool, and have no token. *)
blocking_request ==
  /\ TakeFrame("CmdSubmit") /\ Frame.kind \in Blocking
  /\ start(Frame.seq, Frame.kind, "inflight", NoToken, "none")
  /\ recvKeeps /\ UNCHANGED <<lTasks, active, cached, cancelled, chan, hold, lRecv>>

set_config == blocking_request /\ Frame.kind = "setcfg"
set_interface == blocking_request /\ Frame.kind = "setif"
clear_stall == blocking_request /\ Frame.kind = "clrstall"

(* device_reset leaves the device alone and succeeds at once. *)
port_reset ==
  /\ TakeFrame("CmdPort")
  /\ start(Frame.seq, "reset", "ready", NoToken, "Completed")
  /\ recvKeeps /\ UNCHANGED <<lTasks, active, cached, cancelled, chan, hold, lRecv>>

(* A transfer that is no longer active has been replied to. *)
cancel_transfer_KeepsToken(s) ==
  /\ cancelled' = IF s \in DOMAIN active THEN cancelled \cup {active[s]} ELSE cancelled
  /\ UNCHANGED active
cancel_transfer_OnlyForgets(s) ==
  /\ active' = IF s \in DOMAIN active THEN Remove(active, s) ELSE active
  /\ UNCHANGED cancelled
cancel_transfer(s) ==
  IF s \in DOMAIN active
  THEN /\ cancelled' = cancelled \cup {active[s]}
       /\ active' = Remove(active, s)
  ELSE UNCHANGED <<cancelled, active>>

unlink_urb ==
  /\ TakeFrame("CmdUnlink")
  /\ cancel_transfer(Frame.seq)
  /\ recvKeeps /\ UNCHANGED <<xfer, lTasks, cached, chan, hold, lRecv>>

(* What the future of a transfer that libusb, or the pool, is done with
   resolves to. *)
resultOf(t) ==
  CASE t.kind \in Asynchronous -> convert_libusb_to_proto(t.res)
    [] t.kind \in Blocking -> IF t.res = "Completed" THEN Ok ELSE Reportable("Stall")
    [] t.kind = "reset" -> Ok

(* Arc::into_inner(ours) needs the closure's reference gone; SetInterface's
   poll has todo!() for a device or interface that is not there. *)
Shared(s) == \E i \in DOMAIN lTasks : lTasks[i] = s
Todo(t) == t.kind = "setif" /\ t.res \in {"NoDeviceErr", "NotFoundErr"}
Receiving == lSend \in {"Solicit", "Timer", "Flush"}

(* The future resolves, and its result is sent on the channel of its kind.
   The send blocks on a full channel and fails once the SendLoop is gone. *)
completed(s) ==
  LET t == xfer[s]
      c == ChannelOf(t.kind)
      done == [seq |-> s, res |-> resultOf(t)]
  IN /\ Running /\ t.st = "ready"
     /\ ~Shared(s) /\ ~Todo(t)
     /\ xfer' = [xfer EXCEPT ![s].st = "gone"]
     /\ \/ /\ Receiving /\ Len(chan[c]) < ChanCap(c)
           /\ chan' = [chan EXCEPT ![c] = Append(@, done)]
           /\ UNCHANGED hold
        \/ /\ Receiving /\ Len(chan[c]) >= ChanCap(c)
           /\ hold' = <<done>>
           /\ UNCHANGED chan
        \/ /\ ~Receiving
           /\ UNCHANGED <<chan, hold>>
     /\ recvKeeps /\ UNCHANGED <<toL, lTasks, active, cached, cancelled, lRecv>>

sendResumes ==
  /\ hold # <<>>
  /\ LET c == ChannelOf(xfer[hold[1].seq].kind) IN
       \/ /\ Receiving /\ Len(chan[c]) < ChanCap(c)
          /\ chan' = [chan EXCEPT ![c] = Append(@, hold[1])]
       \/ ~Receiving /\ UNCHANGED chan
  /\ hold' = <<>>
  /\ recvKeeps /\ UNCHANGED <<toL, xfer, lTasks, active, cached, cancelled, lRecv>>

(* The loop's end drops the handler, which cancels every token that is still
   active, the futures in progress and the senders. *)
dropHandler ==
  /\ cancelled' = cancelled \cup {active[s] : s \in DOMAIN active}
  /\ xfer' = [s \in DOMAIN xfer |-> [xfer[s] EXCEPT !.st = "gone"]]
  /\ UNCHANGED <<lTasks, active, cached, chan, hold, lBuf, lFlush, lSend, lMain,
                 lCancel, lRoom, toLFin, borrowDir, lost>>

endRecvLoop ==
  /\ Running
  /\ lCancel \/ lost \/ (toLFin /\ toL = <<>>)
  /\ lRecv' = "drain"
  /\ dropHandler /\ UNCHANGED <<toL, toLStop>>

recvPanic(s) ==
  /\ Running /\ xfer[s].st = "ready"
  /\ \/ Shared(s) /\ lRecv' = "arcPanic"
     \/ ~Shared(s) /\ Todo(xfer[s]) /\ lRecv' = "todoPanic"
  /\ dropHandler /\ toL' = <<>> /\ toLStop' = TRUE

drainKeeps == UNCHANGED <<xfer, lTasks, active, cached, cancelled, chan, hold,
                          lBuf, lFlush, lSend, lMain, lCancel, toLFin,
                          borrowDir, lost>>
drainRead ==
  /\ lRecv = "drain" /\ lRoom > 0 /\ toL # <<>>
  /\ toL' = Tail(toL)
  /\ lRoom' = IF CmdWords(Frame) > lRoom THEN 0 ELSE lRoom - CmdWords(Frame)
  /\ drainKeeps /\ UNCHANGED <<lRecv, toLStop>>

drainEnd ==
  /\ lRecv = "drain"
  /\ lRoom = 0 \/ lost \/ (toLFin /\ toL = <<>>)
  /\ lRecv' = "done"
  /\ toLStop' = (toLStop \/ ~(toLFin /\ toL = <<>>))
  /\ toL' = <<>>
  /\ drainKeeps /\ UNCHANGED lRoom

-----------------------------------------------------------------------------
(* SendLoop::do_loop. *)
sendKeeps == UNCHANGED <<xfer, lTasks, cancelled, hold, lRecv, lMain, lCancel,
                         lRoom, lendDir, lost>>

(* A completed transfer's token goes back to the cache, unless an unlink
   has taken it out of the active ones. *)
deregister_token(s) ==
  IF s \in DOMAIN active
  THEN /\ active' = Remove(active, s)
       /\ cached' = Append(cached, active[s])
  ELSE UNCHANGED <<active, cached>>

reply_AlwaysSuccess(c, done) ==
  RetFrame(IF c = "reset" THEN "RetPort" ELSE "RetSubmit", done.seq, "Success", "Success")
reply(c, done) ==
  RetFrame(IF c = "reset" THEN "RetPort" ELSE "RetSubmit", done.seq, "Success", done.res.err)

(* A result the guest is to see is replied to. *)
transferReplied(c) ==
  /\ Receiving /\ ~lCancel /\ chan[c] # <<>>
  /\ LET done == Head(chan[c]) IN
       /\ done.res.class # "abortable"
       /\ IF c = "reset" THEN UNCHANGED <<active, cached>>
                         ELSE deregister_token(done.seq)
       /\ lBuf' = Append(lBuf, reply(c, done))
  /\ chan' = [chan EXCEPT ![c] = Tail(@)]
  /\ lSend' = IF lSend = "Solicit" THEN "Timer" ELSE lSend
  /\ sendKeeps /\ UNCHANGED <<lFlush, borrowDir>>

endSending == /\ lSend' = "closing" /\ toBFin' = TRUE
              /\ chan' = NoChannel /\ lBuf' = <<>> /\ lFlush' = <<>>

(* The error header follows whatever part of the current write is already on
   the stream: a frame cut short takes it in as its own last bytes. *)
onWire(header) ==
  IF lost \/ toBStop THEN {toB}
  ELSE {Append(toB, header)} \cup
       IF lSend # "Flush" \/ lFlush = <<>> THEN {}
       ELSE LET torn == Head(lFlush) IN
            {toB, Append(toB, [torn EXCEPT !.cmd = "Garbage"])} \cup
            IF torn.cmd = "RetPort" THEN {}
            ELSE {Append(toB, [torn EXCEPT !.whole = FALSE])}

(* A result that ends the session: the loop returns it, run() writes the
   error header without flushing the buffer, and closes the stream. *)
transferAborts(c) ==
  /\ Receiving /\ ~lCancel /\ chan[c] # <<>>
  /\ LET done == Head(chan[c]) IN
       /\ done.res.class = "abortable"
       /\ deregister_token(done.seq)
       /\ toB' \in onWire(RetFrame("RetSubmit", done.seq, as_proto(done.res.err), "Success"))
  /\ endSending
  /\ sendKeeps /\ UNCHANGED toBStop

transferCompleted(c) == transferReplied(c) \/ transferAborts(c)
iso_completed == transferCompleted("iso")
int_completed == transferCompleted("int")
ctrl_completed == transferCompleted("ctrl")
bulk_completed == transferCompleted("bulk")
device_resetted == transferCompleted("reset")

lend_flush_buf_Copies == lFlush' = lBuf /\ lBuf' = lBuf
lend_flush_buf == lFlush' = lBuf /\ lBuf' = <<>>

lendFlushBuf ==
  /\ lSend = "Timer"
  /\ lSend' = "Flush"
  /\ lend_flush_buf
  /\ sendKeeps /\ UNCHANGED <<active, cached, chan, borrowDir>>

lendWriteFrame ==
  /\ lSend = "Flush" /\ lFlush # <<>>
  /\ ~lost /\ ~toBStop
  /\ toB' = Append(toB, Head(lFlush))
  /\ lFlush' = Tail(lFlush)
  /\ sendKeeps /\ UNCHANGED <<active, cached, chan, lBuf, lSend, toBFin, toBStop>>

lendFlushComplete ==
  /\ lSend = "Flush" /\ lFlush = <<>>
  /\ lSend' = IF lBuf = <<>> THEN "Solicit" ELSE "Timer"
  /\ sendKeeps /\ UNCHANGED <<active, cached, chan, lBuf, lFlush, borrowDir>>

(* The loop ends on a failed write, on the token, and when the RecvLoop is
   gone and every channel is empty. *)
lendEndSend ==
  /\ \/ lSend = "Flush" /\ lFlush # <<>> /\ (lost \/ toBStop)
     \/ Receiving /\ lCancel
     \/ Receiving /\ lRecv # "run" /\ chan = NoChannel
  /\ endSending
  /\ sendKeeps /\ UNCHANGED <<active, cached, toB, toBStop>>

lendStopped ==
  /\ lSend = "closing"
  /\ lSend' = "done"
  /\ sendKeeps /\ UNCHANGED <<active, cached, chan, lBuf, lFlush, borrowDir>>

-----------------------------------------------------------------------------
deviceKeeps == UNCHANGED <<active, cached, cancelled, chan, hold, lBuf, lFlush,
                           lSend, lRecv, lMain, lCancel, lRoom, streamVars>>

(* One closure of the blocking thread: submit, then drop the reference. *)
LendThread ==
  /\ lTasks # <<>>
  /\ IF xfer[Head(lTasks)].st = "queued"
     THEN /\ xfer' = [xfer EXCEPT ![Head(lTasks)].st = "inflight"]
          /\ UNCHANGED lTasks
     ELSE /\ lTasks' = Tail(lTasks)
          /\ UNCHANGED xfer
  /\ deviceKeeps

(* libusb, or the blocking pool, is done with a transfer.  Only a transfer
   whose token was cancelled ends as cancelled. *)
deviceDone(s, r) ==
  /\ xfer[s].st = "inflight"
  /\ \/ /\ xfer[s].kind \in Asynchronous
        /\ r \in Results \cup (IF xfer[s].tok \in cancelled THEN {"Cancelled"} ELSE {})
     \/ xfer[s].kind \in Blocking /\ r \in BlockingResults
  /\ xfer' = [xfer EXCEPT ![s].st = "ready", ![s].res = r]
  /\ UNCHANGED lTasks /\ deviceKeeps

(* Control transfers time out after 900 ms, pool calls return, and libusb
   ends a transfer it was asked to cancel; nothing else has to end. *)
MustEnd(s) == xfer[s].kind \in Blocking \cup {"ctrl"} \/ xfer[s].tok \in cancelled

-----------------------------------------------------------------------------
(* LendDevice::lend joins both loops, cancels, and waits for the libusb
   event thread.  A loop that panicked makes it panic before it cancels. *)
lendMainKeeps == UNCHANGED <<xfer, lTasks, active, cached, cancelled, chan, hold,
                             lBuf, lFlush, lSend, lRecv, lRoom, streamVars>>
lendJoined ==
  /\ lMain = "join" /\ lSend = "done"
  /\ \/ lRecv = "done" /\ lMain' = "libusb" /\ lCancel' = TRUE
     \/ /\ lRecv \in {"arcPanic", "todoPanic"}
        /\ lMain' = "panic" /\ UNCHANGED lCancel
  /\ lendMainKeeps

libusbJoined ==
  /\ lMain = "libusb" /\ lCancel
  /\ lMain' = "done"
  /\ lendMainKeeps /\ UNCHANGED lCancel

CancelLend ==
  /\ LendCancel /\ ~lCancel /\ lMain = "join"
  /\ lCancel' = TRUE
  /\ lendMainKeeps /\ UNCHANGED lMain

LendRecv == \/ new_ctrl \/ new_int \/ new_iso \/ new_bulk
            \/ set_config \/ set_interface \/ clear_stall
            \/ port_reset \/ unlink_urb
            \/ \E s \in DOMAIN xfer : completed(s) \/ recvPanic(s)
            \/ sendResumes \/ endRecvLoop \/ drainRead \/ drainEnd
LendSend == \/ iso_completed \/ int_completed \/ ctrl_completed \/ bulk_completed
            \/ device_resetted
            \/ lendFlushBuf \/ lendWriteFrame \/ lendFlushComplete \/ lendEndSend
LendMain == lendJoined \/ libusbJoined
Device == \E s \in DOMAIN xfer, r \in TransferStatus \cup RusbError : deviceDone(s, r)
=============================================================================
