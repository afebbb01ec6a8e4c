------------------------------- MODULE Session -------------------------------
(***************************************************************************)
(* One borrowing session: a guest and its virtual port, the borrower, the  *)
(* stream, the lender and the device.                                      *)
(***************************************************************************)
EXTENDS Borrow, Lend

ASSUME SessionAssumption == LendSeqnum = Seqnum

vars == <<vhciVars, borrowVars, streamVars, lendVars>>

Init == VhciInit /\ BorrowInit /\ StreamInit /\ LendInit

Borrower(A) == A /\ UNCHANGED lendVars
Lender(A) == A /\ UNCHANGED <<vhciVars, borrowVars>>

Next ==
  \/ Guest /\ UNCHANGED <<borrowVars, streamVars, lendVars>>
  \/ ConnectionLost /\ UNCHANGED <<vhciVars, borrowVars, lendVars>>
  \/ Borrower(BorrowSend) \/ Borrower(StreamStopped)
  \/ Borrower(BorrowRecv) \/ Borrower(BorrowMain)
  \/ Borrower(BlockingThread) \/ Borrower(CancelBorrow)
  \/ Lender(LendRecv) \/ Lender(LendSend) \/ Lender(lendStopped)
  \/ Lender(LendThread) \/ Lender(Device)
  \/ Lender(LendMain) \/ Lender(CancelLend)

(* Every task that can run is polled again, both blocking threads run their
   queues, and a write or a close that the peer keeps up with completes. *)
Fairness ==
  /\ WF_vars(Borrower(BorrowSend)) /\ WF_vars(Borrower(BorrowRecv))
  /\ WF_vars(Borrower(BorrowMain)) /\ WF_vars(Borrower(BlockingThread))
  /\ WF_vars(Lender(LendRecv)) /\ WF_vars(Lender(LendSend))
  /\ WF_vars(Lender(LendThread)) /\ WF_vars(Lender(LendMain))
  /\ WF_vars((lost \/ toLStop \/ toL = <<>>) /\ Borrower(StreamStopped))
  /\ WF_vars((lost \/ toBStop \/ toB = <<>>) /\ Lender(lendStopped))
  /\ \A s \in LendSeqnum :
       WF_vars(\E r \in TransferStatus \cup RusbError :
                 s \in DOMAIN xfer /\ MustEnd(s) /\ Lender(deviceDone(s, r)))

Spec == Init /\ [][Next]_vars /\ Fairness

(* Every variable keeps its type, and every frame, work item, closure and
   completion is one its reader knows how to handle. *)
StreamTypeOK ==
  /\ toL \in Seq(CmdFrames(Seqnum)) /\ toB \in Seq(RetFrames(Seqnum))
  /\ toLFin \in BOOLEAN /\ toLStop \in BOOLEAN /\ toBFin \in BOOLEAN
  /\ toBStop \in BOOLEAN /\ lost \in BOOLEAN
TypeOK == VhciTypeOK /\ BorrowTypeOK /\ LendTypeOK /\ StreamTypeOK

-----------------------------------------------------------------------------
(* The borrower.  Neither unwrap() of urb_reply or device_reset fails: every
   reply names a command that is still unanswered. *)
ReplyIsExpected == bRecv # "unwrapPanic"

(* HandleSeqnumLinker: the two maps behind the mutex are inverse to each
   other, whatever both loops do to them. *)
MapsInverse ==
  /\ \A h \in DOMAIN seqnums : seqnums[h] \in DOMAIN handles /\ handles[seqnums[h]] = h
  /\ \A s \in DOMAIN handles : handles[s] \in DOMAIN seqnums /\ seqnums[handles[s]] = s

(* Handles are reused: a giveback waiting on the blocking thread must still
   find the URB it was meant for behind its handle, never a later one. *)
GivebackMatches ==
  \A i \in DOMAIN tasks : tasks[i].op = "giveback" =>
    tasks[i].h \in DOMAIN cur /\ cur[tasks[i].h] = tasks[i].u

(* process_urb's debug_assert: the address the URB carries is the one the
   handler has followed through resets and SET_ADDRESS. *)
AddressAgrees ==
  Sending /\ ~bCancel /\ work # <<>> /\ Head(work).op = "ProcessUrb"
    /\ urbs[Head(work).u].kind # "setaddr"
    => Head(work).addr = bAddr

(* reset_done is called for a port that is being reset, never for one that is
   enabled or unplugged. *)
ResetDoneInTime ==
  CanRead /\ Reply.cmd = "RetPort" /\ Reply.status = "Success" => port = "resetting"

(* Nothing is queued behind the disconnect of the port. *)
DisconnectLast ==
  \A i \in DOMAIN tasks : tasks[i].op = "disconnect" => i = Len(tasks)

-----------------------------------------------------------------------------
(* Both loops.  A frame in a send buffer always has a timer or a write that
   will flush it. *)
NoStrandedFrame ==
  /\ bSend = "Solicit" => bBuf = <<>> /\ bFlush = <<>>
  /\ lSend = "Solicit" => lBuf = <<>> /\ lFlush = <<>>

(* A URB is returned as cancelled only if the guest unlinked it, although
   handles, sequence numbers and cancel tokens are all found by lookup and
   tokens are recycled. *)
CancelledOnlyIfUnlinked ==
  \A u \in DOMAIN outcome : outcome[u] = "Cancelled" => u \in unlinked

-----------------------------------------------------------------------------
(* The lender.  Transfers whose future, or whose completion, is not yet with
   the send handler. *)
Live == {s \in DOMAIN xfer : xfer[s].st # "gone"}
        \cup (UNION {{chan[c][i].seq : i \in DOMAIN chan[c]} : c \in Channel})
        \cup {hold[i].seq : i \in DOMAIN hold}

(* Recycled tokens are exclusive: no two live transfers share one, a cached
   one is neither in use nor cancelled. *)
TokensExclusive ==
  lRecv = "run" =>
    /\ \A s, t \in Live : xfer[s].tok = xfer[t].tok /\ xfer[s].tok # NoToken => s = t
    /\ \A i \in DOMAIN cached : /\ cached[i] \notin cancelled
                                /\ \A s \in Live : xfer[s].tok # cached[i]

(* USB transfers reach libusb in the order the guest submitted their URBs,
   through the send buffer, the stream and the blocking thread. *)
SubmittedInOrder ==
  \A t \in DOMAIN xfer : \A s \in DOMAIN urbOf : s < t =>
    /\ s \in DOMAIN xfer
    /\ xfer[t].kind \in Asynchronous /\ xfer[t].st \in {"inflight", "ready"}
         => xfer[s].st # "queued"

-----------------------------------------------------------------------------
(* A borrower that panicked has left its port as it was. *)
Panicked == bMain = "panic"

(* A URB the guest unlinked comes back. *)
UnlinkedReturns ==
  \A u \in Urb : u \in unlinked ~> (u \in DOMAIN outcome \/ Panicked)

(* A reset of the port comes to an end. *)
ResetEnds == port = "resetting" ~> (port # "resetting" \/ Panicked)

(* However a session ends - either application cancels, the connection is
   lost, the device fails, a task panics - both sides come to an end. *)
Ending == bCancel \/ lCancel \/ lost \/ bSend = "closing" \/ lSend = "closing"
          \/ bRecv # "run" \/ lRecv # "run"
TeardownCompletes ==
  Ending ~> (bMain \in {"done", "panic"} /\ lMain \in {"done", "panic"})

-----------------------------------------------------------------------------
(* The session as a service to the guest.  What the device made of a URB is
   read off the transfer its sequence number belongs to. *)
executed == {s \in DOMAIN xfer : xfer[s].kind # "reset" /\ xfer[s].res # "none"}
addressed == {u \in DOMAIN outcome : urbs[u].kind = "setaddr" /\ outcome[u] # "Shutdown"}
reported(r) == IF r.class = "abortable" THEN "Aborted" ELSE r.err

requested == [u \in DOMAIN urbs |-> urbs[u].kind = "setaddr"]
carriedOut == [u \in {urbOf[s] : s \in executed} \cup addressed |->
                 IF u \in addressed THEN outcome[u]
                 ELSE reported(resultOf(xfer[CHOOSE s \in executed : urbOf[s] = u]))]

Service == INSTANCE UrbService WITH
  Urb <- Urb, Result <- ReportableError \cup {"Success"},
  submitted <- requested, unwanted <- unlinked, done <- carriedOut,
  returned <- outcome, open <- port # "gone"

(* The guest gets every URB back at most once, with the result of the one
   execution of that URB on the device, although URBs are told apart only by
   reused handles and by sequence numbers; only an unlinked one is cancelled. *)
ImplementsService == Service!ServiceSpec

-----------------------------------------------------------------------------
(* What the repository says of the program, and the program does not do. *)

(* AbortableError: the borrower understands every way a lender aborts. *)
AbortUnderstood == bRecv # "unimplementedPanic"

(* Arc::into_inner(ours) of a completed transfer finds no other reference. *)
SoleOwnerOnCompletion == lRecv # "arcPanic"

(* recv_frame: a frame that was not received whole is reported, not used. *)
RepliesWhole == CanRead => Reply.whole
=============================================================================
