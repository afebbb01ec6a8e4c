--------------------------- MODULE SessionProofs ---------------------------
(***************************************************************************)
(* Session for every number of handles, URBs, resets and sequence numbers: *)
(* first the types, then that send buffers are flushed, that the port is   *)
(* unplugged last, and that the two maps of the borrower stay inverse      *)
(* although handles are used again and again.                              *)
(***************************************************************************)
EXTENDS Session, TLAPS

(* Finite maps: insertion and removal keep the types of keys and values. *)
LEMMA InsertMap ==
  ASSUME NEW f, NEW K, NEW V, NEW k \in K, NEW v \in V, IsMap(f, K, V)
  PROVE  IsMap(Insert(f, k, v), K, V)
BY DEF IsMap, Insert

LEMMA RemoveMap ==
  ASSUME NEW f, NEW K, NEW V, NEW k, IsMap(f, K, V)
  PROVE  IsMap(Remove(f, k), K, V)
BY DEF IsMap, Remove

LEMMA EmptyIsMap ==
  ASSUME NEW K, NEW V
  PROVE  IsMap(EmptyMap, K, V) /\ DOMAIN EmptyMap = {}
BY DEF IsMap, EmptyMap

LEMMA MapValue ==
  ASSUME NEW f, NEW K, NEW V, IsMap(f, K, V), NEW k \in DOMAIN f
  PROVE  k \in K /\ f[k] \in V
BY DEF IsMap

LEMMA InsertValue ==
  ASSUME NEW f, NEW k, NEW v
  PROVE  /\ DOMAIN Insert(f, k, v) = DOMAIN f \cup {k}
         /\ Insert(f, k, v)[k] = v
         /\ \A x \in DOMAIN f : x # k => Insert(f, k, v)[x] = f[x]
BY DEF Insert

LEMMA RemoveValue ==
  ASSUME NEW f, NEW k
  PROVE  /\ DOMAIN Remove(f, k) = DOMAIN f \ {k}
         /\ \A x \in DOMAIN f \ {k} : Remove(f, k)[x] = f[x]
BY DEF Remove

(* Queues. *)
LEMMA QueueTake ==
  ASSUME NEW S, NEW q \in Seq(S), q # <<>>
  PROVE  Head(q) \in S /\ Tail(q) \in Seq(S)
OBVIOUS

LEMMA QueuePut ==
  ASSUME NEW S, NEW q \in Seq(S), NEW e \in S
  PROVE  Append(q, e) \in Seq(S)
OBVIOUS

LEMMA EmptyQueue ==
  ASSUME NEW S
  PROVE  <<>> \in Seq(S)
OBVIOUS

(* What the conversions produce. *)
LEMMA ConvertType ==
  ASSUME NEW t \in Transfer
  PROVE  resultOf(t) \in TransferResult
<1>1. \A s : convert_libusb_to_proto(s) \in TransferResult
  BY DEF convert_libusb_to_proto, TransferResult, ReportableError, AbortableError,
         Ok, Reportable, Abortable
<1>2. Ok \in TransferResult /\ Reportable("Stall") \in TransferResult
  BY DEF TransferResult, ReportableError
<1>3. t.kind \in Asynchronous \/ t.kind \in Blocking \/ t.kind = "reset"
  BY DEF Transfer, RemoteKind
<1> QED
  BY <1>1, <1>2, <1>3 DEF resultOf

LEMMA ResultType ==
  ASSUME NEW r \in TransferResult
  PROVE  /\ r.class # "abortable" => r.err \in ReportableError \cup {"Success"}
         /\ r.class = "abortable" => r.err \in AbortableError
BY DEF TransferResult, Ok, Reportable, Abortable

LEMMA StatusType ==
  ASSUME NEW e \in AbortableError
  PROVE  as_proto(e) \in Status
BY DEF AbortableError, as_proto, Status

-----------------------------------------------------------------------------
(* TypeOK is not inductive by itself: process_urb puts the kind of a submitted
   URB into a frame, so what waits in the work queue must have been submitted,
   and a SET_ADDRESS there must be one the borrower keeps to itself. *)
WorkOK ==
  \A i \in DOMAIN work : work[i].op = "ProcessUrb" =>
    /\ work[i].u \in DOMAIN urbs
    /\ urbs[work[i].u].kind = "setaddr" => work[i].addr = 0
HandlesKnown == DOMAIN handles \subseteq DOMAIN urbOf
HoldKnown == hold # <<>> => hold[1].seq \in DOMAIN xfer
TypeInv == TypeOK /\ WorkOK /\ HandlesKnown /\ HoldKnown

LEMMA VhciKept == VhciTypeOK /\ UNCHANGED vhciVars => VhciTypeOK'
BY DEF VhciTypeOK, vhciVars, IsMap
LEMMA BorrowKept == BorrowTypeOK /\ UNCHANGED borrowVars => BorrowTypeOK'
BY DEF BorrowTypeOK, borrowVars, IsMap
LEMMA LendKept == LendTypeOK /\ UNCHANGED lendVars => LendTypeOK'
BY DEF LendTypeOK, lendVars, IsMap
LEMMA StreamKept == StreamTypeOK /\ UNCHANGED streamVars => StreamTypeOK'
BY DEF StreamTypeOK, streamVars
LEMMA WorkKept == WorkOK /\ UNCHANGED vhciVars => WorkOK'
BY DEF WorkOK, vhciVars
LEMMA KnownKept == HandlesKnown /\ UNCHANGED borrowVars => HandlesKnown'
BY DEF HandlesKnown, borrowVars

(* A queue of work stays sane when an item is taken or a sane one is added. *)
LEMMA WorkTaken ==
  ASSUME WorkOK, work \in Seq(Work), work # <<>>, work' = Tail(work), UNCHANGED urbs
  PROVE  WorkOK'
BY DEF WorkOK

LEMMA WorkAdded ==
  ASSUME WorkOK, NEW w, work \in Seq(Work), work' = Append(work, w),
         urbs' = urbs, w.op # "ProcessUrb"
  PROVE  WorkOK'
BY DEF WorkOK

LEMMA InitType == Init => TypeInv
<1> SUFFICES ASSUME Init PROVE TypeInv
  OBVIOUS
<1> USE DEF Init
<1>1. VhciTypeOK
  BY VhciAssumption, EmptyIsMap DEF VhciInit, VhciTypeOK, PortState, PortStat, Connected, Work, PortFlag
<1>2. BorrowTypeOK
  <2>1. bCancel \in BOOLEAN
    BY Zenon DEF BorrowInit
  <2>2. bPrev \in SUBSET PortFlag /\ bBuf = <<>> /\ bFlush = <<>>
    BY DEF BorrowInit
  <2> QED
    BY <2>1, <2>2, BorrowAssumption, EmptyIsMap, EmptyQueue DEF BorrowInit, BorrowTypeOK, DrainRoom
<1>3. LendTypeOK
  <2>1. lCancel \in BOOLEAN
    BY Zenon DEF LendInit
  <2>2. chan \in [Channel -> Seq(Completion)]
    BY DEF LendInit, NoChannel
  <2> QED
    BY <2>1, <2>2, EmptyIsMap, EmptyQueue DEF LendInit, LendTypeOK, DrainRoom
<1>4. StreamTypeOK
  BY EmptyQueue, Zenon DEF StreamInit, StreamTypeOK
<1>5. WorkOK
  BY DEF WorkOK, VhciInit, PortStat
<1>6. HandlesKnown
  BY DEF HandlesKnown, BorrowInit
<1>7. HoldKnown
  BY DEF HoldKnown, LendInit
<1> QED BY <1>1, <1>2, <1>3, <1>4, <1>5, <1>6, <1>7 DEF TypeInv, TypeOK

(* The guest, and the blocking thread on its behalf. *)
LEMMA GuestType == VhciTypeOK /\ WorkOK /\ Guest => VhciTypeOK' /\ WorkOK'
<1> SUFFICES ASSUME VhciTypeOK, WorkOK, Guest PROVE VhciTypeOK' /\ WorkOK'
  OBVIOUS
<1>1. ASSUME NEW h \in Handles, NEW shape \in Shapes, Submit(h, shape)
      PROVE  VhciTypeOK' /\ WorkOK'
  <2>1. urbs' \in Seq(Shapes) /\ Len(urbs') <= MaxUrb /\ Len(urbs) + 1 \in Urb
    BY <1>1, VhciAssumption DEF Submit, VhciTypeOK, Urb
  <2>2. IsMap(cur', Handles, Urb)
    BY <1>1, <2>1, InsertMap DEF Submit, VhciTypeOK
  <2>3. ProcessUrb(h, Len(urbs) + 1, kaddr) \in Work
    BY <1>1, <2>1 DEF VhciTypeOK, Work, ProcessUrb
  <2>4. work' \in Seq(Work)
    BY <1>1, <2>3 DEF Submit, VhciTypeOK
  <2>5. VhciTypeOK'
    BY <1>1, <2>1, <2>2, <2>4 DEF Submit, VhciTypeOK, IsMap
  <2>6. WorkOK'
    <3> SUFFICES ASSUME NEW i \in DOMAIN work', work'[i].op = "ProcessUrb"
                 PROVE  /\ work'[i].u \in DOMAIN urbs'
                        /\ urbs'[work'[i].u].kind = "setaddr" => work'[i].addr = 0
      BY DEF WorkOK
    <3>1. CASE i = Len(work) + 1
      <4>1. work'[i] = ProcessUrb(h, Len(urbs) + 1, kaddr)
        BY <1>1, <3>1 DEF Submit, VhciTypeOK
      <4>2. urbs'[Len(urbs) + 1] = shape /\ Len(urbs) + 1 \in DOMAIN urbs'
        BY <1>1 DEF Submit, VhciTypeOK
      <4> QED BY <1>1, <4>1, <4>2 DEF Submit, ProcessUrb
    <3>2. CASE i # Len(work) + 1
      <4>1. i \in DOMAIN work /\ work'[i] = work[i]
        BY <1>1, <3>2 DEF Submit, VhciTypeOK
      <4>2. \A u \in DOMAIN urbs : u \in DOMAIN urbs' /\ urbs'[u] = urbs[u]
        BY <1>1 DEF Submit, VhciTypeOK
      <4> QED BY <4>1, <4>2 DEF WorkOK
    <3> QED BY <3>1, <3>2
  <2> QED BY <2>5, <2>6
<1>2. ASSUME NEW h \in Handles, Unlink(h)
      PROVE  VhciTypeOK' /\ WorkOK'
  <2>1. CancelUrb(h) \in Work /\ CancelUrb(h).op # "ProcessUrb"
    BY DEF Work, CancelUrb
  <2>2. cur[h] \in Urb
    BY <1>2, MapValue DEF Unlink, VhciTypeOK
  <2>3. VhciTypeOK'
    BY <1>2, <2>1, <2>2 DEF Unlink, VhciTypeOK, IsMap
  <2>4. WorkOK'
    BY <1>2, <2>1, WorkAdded DEF Unlink, VhciTypeOK
  <2> QED BY <2>3, <2>4
<1>3. ASSUME ResetPort
      PROVE  VhciTypeOK' /\ WorkOK'
  <2>1. PortStat(Resetting) \in Work /\ PortStat(Resetting).op # "ProcessUrb"
    BY DEF Work, PortStat, Resetting, PortFlag
  <2>2. VhciTypeOK'
    BY <1>3, <2>1, VhciAssumption DEF ResetPort, VhciTypeOK, IsMap, PortState
  <2>3. WorkOK'
    BY <1>3, <2>1, WorkAdded DEF ResetPort, VhciTypeOK
  <2> QED BY <2>2, <2>3
<1> QED BY <1>1, <1>2, <1>3 DEF Guest

LEMMA ThreadType ==
  VhciTypeOK /\ WorkOK /\ (RunGiveback \/ RunDisconnect) => VhciTypeOK' /\ WorkOK'
<1> SUFFICES ASSUME VhciTypeOK, WorkOK, RunGiveback \/ RunDisconnect
             PROVE  VhciTypeOK' /\ WorkOK'
  OBVIOUS
<1>1. CASE RunGiveback
  <2>1. Head(tasks) \in Task /\ Head(tasks).op = "giveback" /\ tasks' \in Seq(Task)
    BY <1>1, QueueTake DEF RunGiveback, VhciTypeOK
  <2>2. Head(tasks).res \in Outcome
    BY <2>1 DEF Task, Disconnect
  <2>3. IsMap(cur', Handles, Urb) /\ IsMap(outcome', Urb, Outcome) /\ kaddr' \in {0, 1}
    <3>1. CASE Head(tasks).h \in DOMAIN cur
      <4>1. cur[Head(tasks).h] \in Urb
        BY <3>1, MapValue DEF VhciTypeOK
      <4> QED BY <1>1, <2>2, <3>1, <4>1, InsertMap, RemoveMap DEF RunGiveback, VhciTypeOK
    <3>2. CASE Head(tasks).h \notin DOMAIN cur
      BY <1>1, <3>2 DEF RunGiveback, VhciTypeOK, IsMap
    <3> QED BY <3>1, <3>2
  <2>4. VhciTypeOK'
    BY <1>1, <2>1, <2>3 DEF RunGiveback, VhciTypeOK
  <2>5. WorkOK'
    BY <1>1 DEF RunGiveback, WorkOK
  <2> QED BY <2>4, <2>5
<1>2. CASE RunDisconnect
  <2>1. tasks' \in Seq(Task)
    BY <1>2, QueueTake DEF RunDisconnect, VhciTypeOK
  <2>2. \A h \in DOMAIN cur : cur[h] \in Urb
    BY MapValue DEF VhciTypeOK
  <2>3. IsMap(outcome', Urb, Outcome)
    BY <1>2, <2>2 DEF RunDisconnect, VhciTypeOK, IsMap, Outcome
  <2>4. VhciTypeOK'
    BY <1>2, <2>1, <2>3, EmptyIsMap DEF RunDisconnect, VhciTypeOK, PortState
  <2>5. WorkOK'
    BY <1>2 DEF RunDisconnect, WorkOK
  <2> QED BY <2>4, <2>5
<1> QED BY <1>1, <1>2

-----------------------------------------------------------------------------
(* The borrower. *)
BorrowerInv == VhciTypeOK /\ WorkOK /\ BorrowTypeOK /\ HandlesKnown /\ StreamTypeOK

LEMMA SeqnumType ==
  ASSUME BorrowTypeOK, HandlesKnown, NEW h \in AnyHandle, NEW u \in {0} \cup Urb,
         nextSeqnum(h, u)
  PROVE  /\ curSeq \in Seqnum /\ curSeq' \in 0..SeqLimit
         /\ IsMap(seqnums', AnyHandle, Seqnum) /\ IsMap(handles', Seqnum, AnyHandle)
         /\ IsMap(urbOf', Seqnum, {0} \cup Urb)
         /\ HandlesKnown'
<1>1. curSeq \in Seqnum /\ curSeq' \in 0..SeqLimit
  BY BorrowAssumption DEF nextSeqnum, BorrowTypeOK, Seqnum
<1>2. /\ IsMap(seqnums', AnyHandle, Seqnum) /\ IsMap(handles', Seqnum, AnyHandle)
      /\ IsMap(urbOf', Seqnum, {0} \cup Urb)
  BY <1>1, InsertMap DEF nextSeqnum, BorrowTypeOK
<1>3. HandlesKnown'
  <2>1. DOMAIN handles' = DOMAIN handles \cup {curSeq}
    BY InsertValue DEF nextSeqnum
  <2>2. DOMAIN urbOf' = DOMAIN urbOf \cup {curSeq}
    BY InsertValue DEF nextSeqnum
  <2> QED BY <2>1, <2>2 DEF HandlesKnown
<1> QED BY <1>1, <1>2, <1>3

LEMMA TakeWorkType ==
  ASSUME BorrowerInv, NEW op, TakeWork(op)
  PROVE  /\ Head(work) \in Work /\ Head(work).op = op /\ work' \in Seq(Work)
         /\ op = "ProcessUrb" => /\ Head(work).h \in Handles /\ Head(work).u \in Urb
                                 /\ Head(work).u \in DOMAIN urbs
                                 /\ urbs[Head(work).u].kind = "setaddr" => Head(work).addr = 0
         /\ op = "CancelUrb" => Head(work).h \in Handles
         /\ op = "PortStat" => Head(work).stat \in SUBSET PortFlag
         /\ UNCHANGED urbs => WorkOK'
<1>1. Head(work) \in Work /\ work' \in Seq(Work) /\ Head(work).op = op /\ work # <<>>
  BY QueueTake DEF BorrowerInv, VhciTypeOK, TakeWork
<1>2. /\ op = "ProcessUrb" => Head(work).h \in Handles /\ Head(work).u \in Urb
      /\ op = "CancelUrb" => Head(work).h \in Handles
      /\ op = "PortStat" => Head(work).stat \in SUBSET PortFlag
  BY <1>1 DEF Work
<1>3. op = "ProcessUrb" => /\ Head(work).u \in DOMAIN urbs
                           /\ urbs[Head(work).u].kind = "setaddr" => Head(work).addr = 0
  <2>1. 1 \in DOMAIN work /\ Head(work) = work[1]
    BY <1>1 DEF BorrowerInv, VhciTypeOK
  <2> QED BY <1>1, <2>1 DEF BorrowerInv, WorkOK
<1>4. UNCHANGED urbs => WorkOK'
  BY <1>1, WorkTaken DEF BorrowerInv, VhciTypeOK, TakeWork
<1> QED BY <1>1, <1>2, <1>3, <1>4

LEMMA FrameType ==
  ASSUME NEW s \in Seqnum
  PROVE  /\ CmdFrame("CmdPort", s, "none") \in CmdFrames(Seqnum)
         /\ CmdFrame("CmdUnlink", s, "none") \in CmdFrames(Seqnum)
         /\ \A k \in RemoteKind : CmdFrame("CmdSubmit", s, k) \in CmdFrames(Seqnum)
BY DEF CmdFrame, CmdFrames

LEMMA AfterWorkType ==
  ASSUME BorrowTypeOK, NEW b
  PROVE  afterWork(b) \in {"Solicit", "Timer", "Flush", "closing", "done"}
BY DEF BorrowTypeOK, afterWork

LEMMA PortStatType == BorrowerInv /\ port_stat => BorrowerInv'
<1> SUFFICES ASSUME BorrowerInv, port_stat PROVE BorrowerInv'
  OBVIOUS
<1>1. Head(work).stat \in SUBSET PortFlag /\ work' \in Seq(Work) /\ WorkOK'
  BY TakeWorkType DEF port_stat
<1>2. VhciTypeOK' /\ StreamTypeOK'
  BY <1>1 DEF BorrowerInv, VhciTypeOK, IsMap, StreamTypeOK, streamVars, port_stat
<1>3. /\ curSeq' \in 0..SeqLimit
      /\ IsMap(seqnums', AnyHandle, Seqnum) /\ IsMap(handles', Seqnum, AnyHandle)
      /\ IsMap(urbOf', Seqnum, {0} \cup Urb)
      /\ HandlesKnown' /\ bBuf' \in Seq(CmdFrames(Seqnum))
  <2>1. CASE send_port_reset(Head(work).stat)
    <3>1. PICK h \in ResetHandles : nextSeqnum(h, 0)
      BY <2>1 DEF port_stat
    <3>2. h \in AnyHandle /\ 0 \in {0} \cup Urb
      BY DEF AnyHandle
    <3>3. bBuf' = Append(bBuf, CmdFrame("CmdPort", curSeq, "none"))
      BY <2>1 DEF port_stat
    <3> QED BY <3>1, <3>2, <3>3, SeqnumType, FrameType, QueuePut DEF BorrowerInv, BorrowTypeOK
  <2>2. CASE ~send_port_reset(Head(work).stat)
    BY <2>2 DEF port_stat, BorrowerInv, BorrowTypeOK, IsMap, HandlesKnown
  <2> QED BY <2>1, <2>2
<1>4. bAddr' \in {0, 1, NoAddress} /\ bPrev' \in SUBSET PortFlag
  BY <1>1 DEF port_stat, BorrowerInv, BorrowTypeOK
<1>5. bSend' \in {"Solicit", "Timer", "Flush", "closing", "done"}
  BY AfterWorkType DEF port_stat, BorrowerInv
<1>6. BorrowTypeOK'
  BY <1>3, <1>4, <1>5 DEF port_stat, BorrowerInv, BorrowTypeOK
<1> QED BY <1>1, <1>2, <1>3, <1>6 DEF BorrowerInv

LEMMA SetAddressType == BorrowerInv /\ set_address => BorrowerInv'
<1> SUFFICES ASSUME BorrowerInv, set_address PROVE BorrowerInv'
  OBVIOUS
<1>1. work' \in Seq(Work) /\ WorkOK' /\ Head(work).h \in Handles /\ Head(work).u \in Urb
  BY TakeWorkType DEF set_address
<1>2. Giveback(Head(work).h, Head(work).u, "Success") \in Task
  BY <1>1 DEF Task, Giveback, AnyHandle, Outcome
<1>3. tasks' \in Seq(Task)
  BY <1>2, QueuePut DEF set_address, BorrowerInv, VhciTypeOK
<1>4. VhciTypeOK'
  BY <1>1, <1>3 DEF BorrowerInv, VhciTypeOK, IsMap, set_address
<1>5. BorrowTypeOK' /\ HandlesKnown'
  BY DEF BorrowerInv, BorrowTypeOK, HandlesKnown, IsMap, set_address
<1>6. StreamTypeOK'
  BY StreamKept DEF BorrowerInv, set_address
<1> QED BY <1>1, <1>4, <1>5, <1>6 DEF BorrowerInv

LEMMA ProcessUrbType == BorrowerInv /\ process_urb => BorrowerInv'
<1> SUFFICES ASSUME BorrowerInv, process_urb PROVE BorrowerInv'
  OBVIOUS
<1> DEFINE w == Head(work)
<1>1. /\ work' \in Seq(Work) /\ WorkOK' /\ w.h \in Handles /\ w.u \in Urb
      /\ w.u \in DOMAIN urbs /\ (urbs[w.u].kind = "setaddr" => w.addr = 0)
  BY TakeWorkType DEF process_urb
<1>2. urbs[w.u].kind \in RemoteKind
  <2>1. urbs[w.u] \in [kind : UrbKind, fetch : BOOLEAN]
    BY <1>1, VhciAssumption DEF BorrowerInv, VhciTypeOK
  <2>2. urbs[w.u].kind # "setaddr"
    BY <1>1 DEF process_urb
  <2> QED BY <2>1, <2>2 DEF UrbKind
<1>3. nextSeqnum(w.h, w.u) /\ w.h \in AnyHandle /\ w.u \in {0} \cup Urb
  BY <1>1 DEF process_urb, AnyHandle
<1>4. /\ curSeq \in Seqnum /\ curSeq' \in 0..SeqLimit
      /\ IsMap(seqnums', AnyHandle, Seqnum) /\ IsMap(handles', Seqnum, AnyHandle)
      /\ IsMap(urbOf', Seqnum, {0} \cup Urb) /\ HandlesKnown'
  BY <1>3, SeqnumType DEF BorrowerInv
<1>5. CmdFrame("CmdSubmit", curSeq, urbs[w.u].kind) \in CmdFrames(Seqnum)
  BY <1>2, <1>4, FrameType
<1>6. /\ bBuf' \in Seq(CmdFrames(Seqnum)) /\ bFlush' \in Seq(CmdFrames(Seqnum))
      /\ bSend' \in {"Solicit", "Timer", "Flush", "closing", "done"}
      /\ toLFin' \in BOOLEAN
  <2>1. CASE /\ bBuf' = Append(bBuf, CmdFrame("CmdSubmit", curSeq, urbs[w.u].kind))
             /\ bSend' = afterWork(bBuf') /\ UNCHANGED <<bFlush, toLFin>>
    BY <1>5, <2>1, AfterWorkType, QueuePut DEF BorrowerInv, BorrowTypeOK, StreamTypeOK
  <2>2. CASE endSendLoop
    <3>1. toLFin' \in BOOLEAN
      BY <2>2, Zenon DEF endSendLoop
    <3> QED BY <2>2, <3>1, EmptyQueue DEF endSendLoop
  <2> QED BY <2>1, <2>2 DEF process_urb
<1>7. VhciTypeOK'
  BY <1>1 DEF BorrowerInv, VhciTypeOK, IsMap, process_urb
<1>8. BorrowTypeOK'
  BY <1>4, <1>6 DEF BorrowerInv, BorrowTypeOK, process_urb
<1>9. StreamTypeOK'
  BY <1>6 DEF BorrowerInv, StreamTypeOK, process_urb
<1> QED BY <1>1, <1>4, <1>7, <1>8, <1>9 DEF BorrowerInv

LEMMA CancelUrbType == BorrowerInv /\ cancel_urb => BorrowerInv'
<1> SUFFICES ASSUME BorrowerInv, cancel_urb PROVE BorrowerInv'
  OBVIOUS
<1> DEFINE h == Head(work).h
<1>1. work' \in Seq(Work) /\ WorkOK' /\ h \in Handles
  BY TakeWorkType DEF cancel_urb
<1>2. bBuf' \in Seq(CmdFrames(Seqnum))
  <2>1. CASE h \in DOMAIN seqnums
    <3>1. seqnums[h] \in Seqnum
      BY <2>1, MapValue DEF BorrowerInv, BorrowTypeOK
    <3> QED BY <2>1, <3>1, FrameType, QueuePut DEF cancel_urb, BorrowerInv, BorrowTypeOK
  <2>2. CASE h \notin DOMAIN seqnums
    BY <2>2 DEF cancel_urb, BorrowerInv, BorrowTypeOK
  <2> QED BY <2>1, <2>2
<1>3. VhciTypeOK'
  BY <1>1 DEF BorrowerInv, VhciTypeOK, IsMap, cancel_urb
<1>4. BorrowTypeOK' /\ HandlesKnown'
  BY <1>2, AfterWorkType DEF BorrowerInv, BorrowTypeOK, HandlesKnown, IsMap, cancel_urb
<1>5. StreamTypeOK'
  BY StreamKept DEF BorrowerInv, cancel_urb
<1> QED BY <1>1, <1>3, <1>4, <1>5 DEF BorrowerInv

(* The rest of the send loop moves frames from the buffer to the stream. *)
LEMMA FlushType ==
  BorrowerInv /\ (FlushBuf \/ WriteFrame \/ FlushComplete \/ EndSendLoop \/ StreamStopped)
    => BorrowerInv'
<1> SUFFICES ASSUME BorrowerInv,
                    FlushBuf \/ WriteFrame \/ FlushComplete \/ EndSendLoop \/ StreamStopped
             PROVE  BorrowerInv'
  OBVIOUS
<1> USE DEF sendUnchanged
<1>1. UNCHANGED vhciVars
  BY DEF FlushBuf, WriteFrame, FlushComplete, EndSendLoop, StreamStopped
<1>2. VhciTypeOK' /\ WorkOK'
  BY <1>1, VhciKept, WorkKept DEF BorrowerInv
<1>3. CASE FlushBuf
  BY <1>2, <1>3, StreamKept, EmptyQueue
     DEF BorrowerInv, BorrowTypeOK, HandlesKnown, IsMap, FlushBuf, flush_buf
<1>4. CASE WriteFrame
  <2>1. Head(bFlush) \in CmdFrames(Seqnum) /\ bFlush' \in Seq(CmdFrames(Seqnum))
    BY <1>4, QueueTake DEF WriteFrame, BorrowerInv, BorrowTypeOK
  <2>2. toL' \in Seq(CmdFrames(Seqnum))
    BY <1>4, <2>1, QueuePut DEF WriteFrame, BorrowerInv, StreamTypeOK
  <2>3. BorrowTypeOK' /\ HandlesKnown'
    BY <1>4, <2>1 DEF WriteFrame, BorrowerInv, BorrowTypeOK, HandlesKnown, IsMap
  <2>4. StreamTypeOK'
    BY <1>4, <2>2 DEF WriteFrame, BorrowerInv, StreamTypeOK, borrowDir
  <2> QED BY <1>2, <2>3, <2>4 DEF BorrowerInv
<1>5. CASE FlushComplete
  BY <1>2, <1>5, StreamKept
     DEF BorrowerInv, BorrowTypeOK, HandlesKnown, IsMap, FlushComplete, afterFlush
<1>6. CASE EndSendLoop
  <2>1. toLFin' \in BOOLEAN
    BY <1>6, Zenon DEF EndSendLoop, endSendLoop
  <2>2. BorrowTypeOK' /\ HandlesKnown'
    BY <1>6, EmptyQueue DEF EndSendLoop, endSendLoop, BorrowerInv, BorrowTypeOK, HandlesKnown, IsMap
  <2>3. StreamTypeOK'
    BY <1>6, <2>1 DEF EndSendLoop, BorrowerInv, StreamTypeOK, borrowDir
  <2> QED BY <1>2, <2>2, <2>3 DEF BorrowerInv
<1>7. CASE StreamStopped
  BY <1>2, <1>7, StreamKept
     DEF BorrowerInv, BorrowTypeOK, HandlesKnown, IsMap, StreamStopped
<1> QED BY <1>3, <1>4, <1>5, <1>6, <1>7

LEMMA ReplyType ==
  ASSUME BorrowerInv, toB # <<>>
  PROVE  Reply \in RetFrames(Seqnum) /\ Tail(toB) \in Seq(RetFrames(Seqnum))
BY QueueTake DEF BorrowerInv, StreamTypeOK, Reply

LEMMA ForgetType ==
  ASSUME BorrowerInv, NEW s, Expected(s), forget(s), UNCHANGED urbOf
  PROVE  /\ IsMap(handles', Seqnum, AnyHandle) /\ IsMap(seqnums', AnyHandle, Seqnum)
         /\ HandlesKnown'
         /\ handles[s] \in AnyHandle /\ urbOf[s] \in {0} \cup Urb
<1>1. IsMap(handles', Seqnum, AnyHandle) /\ IsMap(seqnums', AnyHandle, Seqnum)
  BY RemoveMap DEF forget, BorrowerInv, BorrowTypeOK
<1>2. HandlesKnown'
  <2>1. DOMAIN handles' = DOMAIN handles \ {s}
    BY RemoveValue DEF forget
  <2> QED BY <2>1 DEF HandlesKnown, BorrowerInv
<1>3. handles[s] \in AnyHandle /\ urbOf[s] \in {0} \cup Urb
  BY MapValue DEF Expected, BorrowerInv, BorrowTypeOK, HandlesKnown
<1> QED BY <1>1, <1>2, <1>3

LEMMA UrbReplyType == BorrowerInv /\ urb_reply => BorrowerInv'
<1> SUFFICES ASSUME BorrowerInv, urb_reply PROVE BorrowerInv'
  OBVIOUS
<1> USE DEF recvUnchanged
<1>1. Reply \in RetFrames(Seqnum) /\ Tail(toB) \in Seq(RetFrames(Seqnum))
  BY ReplyType DEF urb_reply, CanRead
<1>2. /\ IsMap(handles', Seqnum, AnyHandle) /\ IsMap(seqnums', AnyHandle, Seqnum)
      /\ HandlesKnown'
      /\ handles[Reply.seq] \in AnyHandle /\ urbOf[Reply.seq] \in {0} \cup Urb
  BY ForgetType DEF urb_reply
<1>3. Giveback(handles[Reply.seq], urbOf[Reply.seq], Reply.res) \in Task
  BY <1>1, <1>2 DEF Task, Giveback, RetFrames, Outcome
<1>4. tasks' \in Seq(Task)
  BY <1>3, QueuePut DEF urb_reply, BorrowerInv, VhciTypeOK
<1>5. VhciTypeOK' /\ WorkOK'
  BY <1>4 DEF urb_reply, BorrowerInv, VhciTypeOK, IsMap, WorkOK
<1>6. BorrowTypeOK'
  BY <1>2 DEF urb_reply, BorrowerInv, BorrowTypeOK, IsMap
<1>7. StreamTypeOK'
  BY <1>1 DEF urb_reply, BorrowerInv, StreamTypeOK, lendDir
<1> QED BY <1>2, <1>5, <1>6, <1>7 DEF BorrowerInv

LEMMA DeviceResetType == BorrowerInv /\ device_reset => BorrowerInv'
<1> SUFFICES ASSUME BorrowerInv, device_reset PROVE BorrowerInv'
  OBVIOUS
<1> USE DEF recvUnchanged
<1>1. Tail(toB) \in Seq(RetFrames(Seqnum))
  BY ReplyType DEF device_reset, CanRead
<1>2. /\ IsMap(handles', Seqnum, AnyHandle) /\ IsMap(seqnums', AnyHandle, Seqnum)
      /\ HandlesKnown'
  BY ForgetType DEF device_reset
<1>3. PortStat(ResetDone) \in Work /\ PortStat(ResetDone).op # "ProcessUrb"
  BY DEF Work, PortStat, ResetDone, PortFlag
<1>4. VhciTypeOK'
  BY <1>3, QueuePut DEF device_reset, PortResetDone, BorrowerInv, VhciTypeOK, IsMap, PortState
<1>5. WorkOK'
  BY <1>3, WorkAdded DEF device_reset, PortResetDone, BorrowerInv, VhciTypeOK
<1>6. BorrowTypeOK'
  BY <1>2 DEF device_reset, BorrowerInv, BorrowTypeOK, IsMap
<1>7. StreamTypeOK'
  BY <1>1 DEF device_reset, BorrowerInv, StreamTypeOK, lendDir
<1> QED BY <1>2, <1>4, <1>5, <1>6, <1>7 DEF BorrowerInv

(* The ways the receive loop ends. *)
LEMMA RecvEndType ==
  BorrowerInv /\ (RecvPanic \/ EndRecvLoop \/ DrainRead \/ DrainEnd) => BorrowerInv'
<1> SUFFICES ASSUME BorrowerInv, RecvPanic \/ EndRecvLoop \/ DrainRead \/ DrainEnd
             PROVE  BorrowerInv'
  OBVIOUS
<1> USE DEF recvUnchanged
<1>1. UNCHANGED vhciVars /\ UNCHANGED lendDir /\ UNCHANGED <<toBFin, lost>>
  BY DEF RecvPanic, EndRecvLoop, DrainRead, DrainEnd
<1>2. VhciTypeOK' /\ WorkOK'
  BY <1>1, VhciKept, WorkKept DEF BorrowerInv
<1>3. /\ bRecv' \in {"run", "drain", "done", "unwrapPanic", "unimplementedPanic"}
      /\ bRoom' \in 0..DrainRoom
  <2>1. CASE RecvPanic
    BY <2>1 DEF RecvPanic, BorrowerInv, BorrowTypeOK
  <2>2. CASE EndRecvLoop
    BY <2>2 DEF EndRecvLoop, BorrowerInv, BorrowTypeOK
  <2>3. CASE DrainRead
    BY <2>3 DEF DrainRead, BorrowerInv, BorrowTypeOK, DrainRoom, RetWords
  <2>4. CASE DrainEnd
    BY <2>4 DEF DrainEnd, BorrowerInv, BorrowTypeOK
  <2> QED BY <2>1, <2>2, <2>3, <2>4
<1>4. BorrowTypeOK' /\ HandlesKnown'
  BY <1>3 DEF BorrowerInv, BorrowTypeOK, HandlesKnown, IsMap,
              RecvPanic, EndRecvLoop, DrainRead, DrainEnd
<1>5. toB' \in Seq(RetFrames(Seqnum))
  <2>1. toB' = toB \/ toB' = <<>> \/ (toB # <<>> /\ toB' = Tail(toB))
    BY DEF RecvPanic, EndRecvLoop, DrainRead, DrainEnd, CanRead
  <2> QED BY <2>1, ReplyType, EmptyQueue DEF BorrowerInv, StreamTypeOK
<1>6. toBStop' \in BOOLEAN
  BY Zenon DEF BorrowerInv, StreamTypeOK, RecvPanic, EndRecvLoop, DrainRead, DrainEnd
<1>7. StreamTypeOK'
  BY <1>1, <1>5, <1>6 DEF BorrowerInv, StreamTypeOK, lendDir
<1> QED BY <1>2, <1>4, <1>7 DEF BorrowerInv

LEMMA BorrowMainType == BorrowerInv /\ (BorrowMain \/ CancelBorrow) => BorrowerInv'
<1> SUFFICES ASSUME BorrowerInv, BorrowMain \/ CancelBorrow PROVE BorrowerInv'
  OBVIOUS
<1> USE DEF mainUnchanged
<1>1. CASE RecvJoined \/ CancelBorrow
  <2>1. bCancel' \in BOOLEAN
    BY <1>1, Zenon DEF RecvJoined, CancelBorrow
  <2>2. BorrowTypeOK' /\ HandlesKnown'
    BY <1>1, <2>1 DEF RecvJoined, CancelBorrow, BorrowerInv, BorrowTypeOK, HandlesKnown, IsMap
  <2>3. VhciTypeOK' /\ WorkOK' /\ StreamTypeOK'
    BY <1>1, VhciKept, WorkKept, StreamKept DEF RecvJoined, CancelBorrow, BorrowerInv, vhciVars
  <2> QED BY <2>2, <2>3 DEF BorrowerInv
<1>2. CASE RecvJoinPanic
  <2>1. toLFin' \in BOOLEAN
    BY <1>2, Zenon DEF RecvJoinPanic
  <2>2. BorrowTypeOK' /\ HandlesKnown'
    BY <1>2, EmptyQueue DEF RecvJoinPanic, BorrowerInv, BorrowTypeOK, HandlesKnown, IsMap
  <2>3. VhciTypeOK' /\ WorkOK'
    BY <1>2, VhciKept, WorkKept DEF RecvJoinPanic, BorrowerInv, vhciVars
  <2>4. StreamTypeOK'
    BY <1>2, <2>1 DEF RecvJoinPanic, BorrowerInv, StreamTypeOK, borrowDir
  <2> QED BY <2>2, <2>3, <2>4 DEF BorrowerInv
<1>3. CASE SendJoined
  <2>1. tasks' \in Seq(Task)
    BY <1>3, QueuePut DEF SendJoined, BorrowerInv, VhciTypeOK, Task
  <2>2. BorrowTypeOK' /\ HandlesKnown'
    BY <1>3 DEF SendJoined, BorrowerInv, BorrowTypeOK, HandlesKnown, IsMap
  <2>3. VhciTypeOK' /\ WorkOK'
    BY <1>3, <2>1 DEF SendJoined, BorrowerInv, VhciTypeOK, IsMap, WorkOK
  <2>4. StreamTypeOK'
    BY <1>3, StreamKept DEF SendJoined, BorrowerInv
  <2> QED BY <2>2, <2>3, <2>4 DEF BorrowerInv
<1>4. CASE Disconnected
  <2>1. BorrowTypeOK' /\ HandlesKnown'
    BY <1>4 DEF Disconnected, BorrowerInv, BorrowTypeOK, HandlesKnown, IsMap
  <2>2. VhciTypeOK' /\ WorkOK' /\ StreamTypeOK'
    BY <1>4, VhciKept, WorkKept, StreamKept DEF Disconnected, BorrowerInv, vhciVars
  <2> QED BY <2>1, <2>2 DEF BorrowerInv
<1> QED BY <1>1, <1>2, <1>3, <1>4 DEF BorrowMain

LEMMA BorrowerType ==
  BorrowerInv /\ (\/ BorrowSend \/ StreamStopped \/ BorrowRecv \/ BorrowMain
                  \/ BlockingThread \/ CancelBorrow) => BorrowerInv'
<1>1. BorrowerInv /\ BlockingThread => BorrowerInv'
  BY ThreadType, BorrowKept, KnownKept, StreamKept DEF BlockingThread, BorrowerInv
<1> QED
  BY <1>1, PortStatType, SetAddressType, ProcessUrbType, CancelUrbType, FlushType,
     UrbReplyType, DeviceResetType, RecvEndType, BorrowMainType DEF BorrowSend, BorrowRecv

-----------------------------------------------------------------------------
(* The lender. *)
LenderInv == LendTypeOK /\ StreamTypeOK

LEMMA StartType ==
  ASSUME LendTypeOK, NEW s \in LendSeqnum, NEW kind \in RemoteKind \cup {"reset"},
         NEW st \in TransferState, NEW tok \in Token \cup {NoToken},
         NEW res \in TransferStatus \cup RusbError \cup {"none"},
         start(s, kind, st, tok, res)
  PROVE  IsMap(xfer', LendSeqnum, Transfer)
<1>1. [kind |-> kind, st |-> st, tok |-> tok, res |-> res] \in Transfer
  BY DEF Transfer
<1> QED BY <1>1, InsertMap DEF start, LendTypeOK

LEMMA TakeFrameType ==
  ASSUME LenderInv, NEW cmd, TakeFrame(cmd)
  PROVE  /\ Frame.seq \in LendSeqnum /\ Frame.kind \in RemoteKind \cup {"none"}
         /\ toL' \in Seq(CmdFrames(Seqnum))
<1>1. Frame \in CmdFrames(Seqnum) /\ toL' \in Seq(CmdFrames(Seqnum))
  BY QueueTake DEF LenderInv, StreamTypeOK, TakeFrame, Frame
<1> QED BY <1>1, SessionAssumption DEF CmdFrames

LEMMA NewTransferType == LenderInv /\ new_transfer => LenderInv'
<1> SUFFICES ASSUME LenderInv, new_transfer PROVE LenderInv'
  OBVIOUS
<1> USE DEF recvKeeps
<1>1. Frame.seq \in LendSeqnum /\ toL' \in Seq(CmdFrames(Seqnum))
  BY TakeFrameType DEF new_transfer
<1>2. recycled(Frame.seq) \in Token /\ cached' \in Seq(Token)
  <2>1. CASE cached = <<>>
    BY <1>1, <2>1, EmptyQueue DEF recycled, pop, Token, new_transfer, register_cancel_token
  <2>2. CASE cached # <<>>
    <3>1. cached \in Seq(Token) /\ Len(cached) \in Nat /\ Len(cached) > 0
      BY <2>2 DEF LenderInv, LendTypeOK
    <3>2. cached[Len(cached)] \in Token /\ SubSeq(cached, 1, Len(cached) - 1) \in Seq(Token)
      BY <3>1
    <3> QED BY <2>2, <3>2 DEF recycled, pop, new_transfer, register_cancel_token
  <2> QED BY <2>1, <2>2
<1>3. IsMap(active', LendSeqnum, Token)
  BY <1>1, <1>2, InsertMap DEF new_transfer, register_cancel_token, LenderInv, LendTypeOK
<1>4. IsMap(xfer', LendSeqnum, Transfer)
  BY <1>1, <1>2, StartType
     DEF new_transfer, register_cancel_token, LenderInv, RemoteKind, TransferState
<1>5. lTasks' \in Seq(LendSeqnum)
  BY <1>1, QueuePut DEF new_transfer, spawn_blocking, LenderInv, LendTypeOK
<1>6. LendTypeOK'
  BY <1>2, <1>3, <1>4, <1>5 DEF new_transfer, LenderInv, LendTypeOK
<1>7. StreamTypeOK'
  BY <1>1 DEF new_transfer, LenderInv, StreamTypeOK, borrowDir
<1> QED BY <1>6, <1>7 DEF LenderInv

LEMMA BlockingRequestType == LenderInv /\ (blocking_request \/ port_reset) => LenderInv'
<1> SUFFICES ASSUME LenderInv, blocking_request \/ port_reset PROVE LenderInv'
  OBVIOUS
<1> USE DEF recvKeeps
<1>1. Frame.seq \in LendSeqnum /\ toL' \in Seq(CmdFrames(Seqnum))
  BY TakeFrameType DEF blocking_request, port_reset
<1>2. IsMap(xfer', LendSeqnum, Transfer)
  <2>1. CASE blocking_request
    BY <1>1, <2>1, StartType DEF blocking_request, LenderInv, RemoteKind, TransferState
  <2>2. CASE port_reset
    BY <1>1, <2>2, StartType DEF port_reset, LenderInv, TransferState, TransferStatus
  <2> QED BY <2>1, <2>2
<1>3. LendTypeOK'
  BY <1>2 DEF blocking_request, port_reset, LenderInv, LendTypeOK, IsMap
<1>4. StreamTypeOK'
  BY <1>1 DEF blocking_request, port_reset, LenderInv, StreamTypeOK, borrowDir
<1> QED BY <1>3, <1>4 DEF LenderInv

LEMMA UnlinkType == LenderInv /\ unlink_urb => LenderInv'
<1> SUFFICES ASSUME LenderInv, unlink_urb PROVE LenderInv'
  OBVIOUS
<1> USE DEF recvKeeps
<1>1. toL' \in Seq(CmdFrames(Seqnum))
  BY TakeFrameType DEF unlink_urb
<1>2. IsMap(active', LendSeqnum, Token) /\ cancelled' \subseteq Token
  <2>1. CASE Frame.seq \in DOMAIN active
    BY <2>1, RemoveMap, MapValue DEF unlink_urb, cancel_transfer, LenderInv, LendTypeOK
  <2>2. CASE Frame.seq \notin DOMAIN active
    BY <2>2 DEF unlink_urb, cancel_transfer, LenderInv, LendTypeOK, IsMap
  <2> QED BY <2>1, <2>2
<1>3. LendTypeOK'
  BY <1>2 DEF unlink_urb, LenderInv, LendTypeOK, IsMap
<1>4. StreamTypeOK'
  BY <1>1 DEF unlink_urb, LenderInv, StreamTypeOK, borrowDir
<1> QED BY <1>3, <1>4 DEF LenderInv

(* A transfer keeps its type when it moves on. *)
LEMMA TransferMoves ==
  ASSUME LendTypeOK, NEW s \in DOMAIN xfer, NEW x \in TransferState,
         NEW r \in TransferStatus \cup RusbError \cup {"none"},
         \/ xfer' = [xfer EXCEPT ![s].st = x]
         \/ xfer' = [xfer EXCEPT ![s].st = x, ![s].res = r]
  PROVE  IsMap(xfer', LendSeqnum, Transfer)
<1>1. DOMAIN xfer \subseteq LendSeqnum /\ \A y \in DOMAIN xfer : xfer[y] \in Transfer
  BY DEF LendTypeOK, IsMap
<1>2. DOMAIN xfer' = DOMAIN xfer /\ xfer' = [y \in DOMAIN xfer' |-> xfer'[y]]
  OBVIOUS
<1>3. xfer'[s] \in Transfer
  <2>1. CASE xfer' = [xfer EXCEPT ![s].st = x]
    BY <1>1, <2>1 DEF Transfer
  <2>2. CASE xfer' = [xfer EXCEPT ![s].st = x, ![s].res = r]
    BY <1>1, <2>2 DEF Transfer
  <2> QED BY <2>1, <2>2
<1>4. \A y \in DOMAIN xfer : y # s => xfer'[y] = xfer[y]
  OBVIOUS
<1> QED BY <1>1, <1>2, <1>3, <1>4 DEF IsMap

LEMMA ChannelType ==
  ASSUME NEW k \in RemoteKind \cup {"reset"}
  PROVE  ChannelOf(k) \in Channel
BY DEF ChannelOf, Channel, RemoteKind, Asynchronous, Blocking

LEMMA ChannelPut ==
  ASSUME LendTypeOK, NEW c \in Channel, NEW e \in Completion,
         chan' = [chan EXCEPT ![c] = Append(@, e)]
  PROVE  chan' \in [Channel -> Seq(Completion)]
BY QueuePut DEF LendTypeOK

LEMMA CompletedType ==
  ASSUME LenderInv, NEW s \in DOMAIN xfer, completed(s)
  PROVE  LenderInv'
<1> USE DEF recvKeeps
<1> DEFINE t == xfer[s]
           c == ChannelOf(t.kind)
           done == [seq |-> s, res |-> resultOf(t)]
<1>1. s \in LendSeqnum /\ t \in Transfer
  BY MapValue DEF LenderInv, LendTypeOK
<1>2. c \in Channel
  BY <1>1, ChannelType DEF Transfer
<1>3. done \in Completion
  BY <1>1, ConvertType DEF Completion
<1>4. IsMap(xfer', LendSeqnum, Transfer)
  BY TransferMoves DEF completed, LenderInv, TransferState
<1>5. chan' \in [Channel -> Seq(Completion)] /\ hold' \in Seq(Completion)
  <2>1. CASE chan' = [chan EXCEPT ![c] = Append(@, done)] /\ UNCHANGED hold
    BY <1>2, <1>3, <2>1, ChannelPut DEF LenderInv, LendTypeOK
  <2>2. CASE hold' = <<done>> /\ UNCHANGED chan
    BY <1>3, <2>2 DEF LenderInv, LendTypeOK
  <2>3. CASE UNCHANGED <<chan, hold>>
    BY <2>3 DEF LenderInv, LendTypeOK
  <2> QED BY <2>1, <2>2, <2>3 DEF completed
<1>6. LendTypeOK'
  BY <1>4, <1>5 DEF completed, LenderInv, LendTypeOK, IsMap
<1>7. StreamTypeOK'
  BY DEF completed, LenderInv, StreamTypeOK, borrowDir
<1> QED BY <1>6, <1>7 DEF LenderInv

LEMMA ResumesType ==
  ASSUME LenderInv, sendResumes, hold[1].seq \in DOMAIN xfer
  PROVE  LenderInv'
<1> USE DEF recvKeeps
<1> DEFINE c == ChannelOf(xfer[hold[1].seq].kind)
<1>1. hold[1] \in Completion
  BY DEF sendResumes, LenderInv, LendTypeOK
<1>2. c \in Channel
  <2>1. xfer[hold[1].seq] \in Transfer
    BY MapValue DEF LenderInv, LendTypeOK
  <2> QED BY <2>1, ChannelType DEF Transfer
<1>3. chan' \in [Channel -> Seq(Completion)]
  <2>1. CASE chan' = [chan EXCEPT ![c] = Append(@, hold[1])]
    BY <1>1, <1>2, <2>1, ChannelPut DEF LenderInv
  <2>2. CASE UNCHANGED chan
    BY <2>2 DEF LenderInv, LendTypeOK
  <2> QED BY <2>1, <2>2 DEF sendResumes
<1>4. LendTypeOK'
  BY <1>3, EmptyQueue DEF sendResumes, LenderInv, LendTypeOK, IsMap
<1>5. StreamTypeOK'
  BY DEF sendResumes, LenderInv, StreamTypeOK, borrowDir
<1> QED BY <1>4, <1>5 DEF LenderInv

(* The ways the receive loop ends. *)
LEMMA DropType ==
  ASSUME LendTypeOK, dropHandler
  PROVE  IsMap(xfer', LendSeqnum, Transfer) /\ cancelled' \subseteq Token
<1>1. ASSUME NEW s \in DOMAIN xfer
      PROVE  [xfer[s] EXCEPT !.st = "gone"] \in Transfer
  <2>1. xfer[s] \in Transfer
    BY MapValue DEF LendTypeOK
  <2> QED BY <2>1 DEF Transfer, TransferState
<1>2. IsMap(xfer', LendSeqnum, Transfer)
  BY <1>1 DEF dropHandler, LendTypeOK, IsMap
<1>3. cancelled' \subseteq Token
  BY MapValue DEF dropHandler, LendTypeOK
<1> QED BY <1>2, <1>3

LEMMA LendRecvEndType ==
  ASSUME LenderInv,
         endRecvLoop \/ (\E s \in DOMAIN xfer : recvPanic(s)) \/ drainRead \/ drainEnd
  PROVE  LenderInv'
<1> USE DEF drainKeeps
<1>1. CASE endRecvLoop \/ \E s \in DOMAIN xfer : recvPanic(s)
  <2>1. dropHandler /\ lRecv' \in {"run", "drain", "done", "arcPanic", "todoPanic"}
    BY <1>1 DEF endRecvLoop, recvPanic
  <2>2. LendTypeOK'
    BY <2>1, DropType DEF dropHandler, LenderInv, LendTypeOK, IsMap
  <2>3. toL' \in Seq(CmdFrames(Seqnum))
    BY <1>1, EmptyQueue DEF endRecvLoop, recvPanic, LenderInv, StreamTypeOK
  <2>4. toLStop' \in BOOLEAN
    BY <1>1, Zenon DEF endRecvLoop, recvPanic, LenderInv, StreamTypeOK
  <2>5. StreamTypeOK'
    BY <2>1, <2>3, <2>4 DEF dropHandler, LenderInv, StreamTypeOK, borrowDir
  <2> QED BY <2>2, <2>5 DEF LenderInv
<1>2. CASE drainRead
  <2>1. toL' \in Seq(CmdFrames(Seqnum))
    BY <1>2, QueueTake DEF drainRead, LenderInv, StreamTypeOK
  <2>2. LendTypeOK'
    BY <1>2 DEF drainRead, LenderInv, LendTypeOK, IsMap, DrainRoom, CmdWords
  <2>3. StreamTypeOK'
    BY <1>2, <2>1 DEF drainRead, LenderInv, StreamTypeOK, borrowDir
  <2> QED BY <2>2, <2>3 DEF LenderInv
<1>3. CASE drainEnd
  <2>1. toLStop' \in BOOLEAN
    BY <1>3, Zenon DEF drainEnd
  <2>2. LendTypeOK'
    BY <1>3 DEF drainEnd, LenderInv, LendTypeOK, IsMap
  <2>3. StreamTypeOK'
    BY <1>3, <2>1, EmptyQueue DEF drainEnd, LenderInv, StreamTypeOK, borrowDir
  <2> QED BY <2>2, <2>3 DEF LenderInv
<1> QED BY <1>1, <1>2, <1>3

(* The send loop. *)
LEMMA DeregisterType ==
  ASSUME LendTypeOK, NEW s, deregister_token(s) \/ UNCHANGED <<active, cached>>
  PROVE  IsMap(active', LendSeqnum, Token) /\ cached' \in Seq(Token)
<1>1. CASE s \in DOMAIN active /\ deregister_token(s)
  <2>1. active[s] \in Token
    BY <1>1, MapValue DEF LendTypeOK
  <2>2. cached' \in Seq(Token)
    BY <1>1, <2>1, QueuePut DEF deregister_token, LendTypeOK
  <2>3. IsMap(active', LendSeqnum, Token)
    BY <1>1, RemoveMap DEF deregister_token, LendTypeOK
  <2> QED BY <2>2, <2>3
<1>2. CASE UNCHANGED <<active, cached>>
  BY <1>2 DEF LendTypeOK, IsMap
<1> QED BY <1>1, <1>2 DEF deregister_token

LEMMA TakeCompletion ==
  ASSUME LendTypeOK, NEW c \in Channel, chan[c] # <<>>
  PROVE  /\ Head(chan[c]).seq \in LendSeqnum /\ Head(chan[c]).res \in TransferResult
         /\ [chan EXCEPT ![c] = Tail(@)] \in [Channel -> Seq(Completion)]
<1>1. Head(chan[c]) \in Completion /\ Tail(chan[c]) \in Seq(Completion)
  BY QueueTake DEF LendTypeOK
<1>2. [chan EXCEPT ![c] = Tail(@)] \in [Channel -> Seq(Completion)]
  BY <1>1 DEF LendTypeOK
<1> QED BY <1>1, <1>2 DEF Completion

LEMMA RepliedType ==
  ASSUME LenderInv, NEW c \in Channel, transferReplied(c)
  PROVE  LenderInv'
<1> USE DEF sendKeeps
<1> DEFINE done == Head(chan[c])
<1>1. /\ done.seq \in LendSeqnum /\ done.res \in TransferResult
      /\ chan' \in [Channel -> Seq(Completion)]
  BY TakeCompletion DEF transferReplied, LenderInv
<1>2. reply(c, done) \in RetFrames(LendSeqnum)
  <2>1. done.res.err \in ReportableError \cup {"Success"}
    BY <1>1, ResultType DEF transferReplied
  <2> QED BY <1>1, <2>1 DEF reply, RetFrame, RetFrames, Status
<1>3. lBuf' \in Seq(RetFrames(LendSeqnum))
  BY <1>2, QueuePut DEF transferReplied, LenderInv, LendTypeOK
<1>4. IsMap(active', LendSeqnum, Token) /\ cached' \in Seq(Token)
  BY DeregisterType DEF transferReplied, LenderInv
<1>5. LendTypeOK'
  BY <1>1, <1>3, <1>4 DEF transferReplied, LenderInv, LendTypeOK, IsMap
<1>6. StreamTypeOK'
  BY DEF transferReplied, LenderInv, StreamTypeOK, borrowDir, lendDir
<1> QED BY <1>5, <1>6 DEF LenderInv

LEMMA OnWireType ==
  ASSUME LenderInv, NEW header \in RetFrames(Seqnum), NEW q \in onWire(header)
  PROVE  q \in Seq(RetFrames(Seqnum))
<1>1. toB \in Seq(RetFrames(Seqnum)) /\ lFlush \in Seq(RetFrames(Seqnum))
  BY SessionAssumption DEF LenderInv, LendTypeOK, StreamTypeOK
<1>2. CASE q = toB \/ q = Append(toB, header)
  BY <1>1, <1>2, QueuePut
<1>3. CASE /\ lFlush # <<>>
           /\ \/ q = Append(toB, [Head(lFlush) EXCEPT !.cmd = "Garbage"])
              \/ q = Append(toB, [Head(lFlush) EXCEPT !.whole = FALSE])
  <2>1. Head(lFlush) \in RetFrames(Seqnum)
    BY <1>1, <1>3, QueueTake
  <2>2. [Head(lFlush) EXCEPT !.cmd = "Garbage"] \in RetFrames(Seqnum)
    BY <2>1 DEF RetFrames
  <2>3. [Head(lFlush) EXCEPT !.whole = FALSE] \in RetFrames(Seqnum)
    BY <2>1 DEF RetFrames
  <2> QED BY <1>1, <1>3, <2>2, <2>3, QueuePut
<1> QED BY <1>2, <1>3 DEF onWire

LEMMA AbortsType ==
  ASSUME LenderInv, NEW c \in Channel, transferAborts(c)
  PROVE  LenderInv'
<1> USE DEF sendKeeps, endSending
<1> DEFINE done == Head(chan[c])
<1>1. done.seq \in Seqnum /\ done.res \in TransferResult
  BY TakeCompletion, SessionAssumption DEF transferAborts, LenderInv
<1>2. RetFrame("RetSubmit", done.seq, as_proto(done.res.err), "Success") \in RetFrames(Seqnum)
  <2>1. as_proto(done.res.err) \in Status
    BY <1>1, ResultType, StatusType DEF transferAborts
  <2> QED BY <1>1, <2>1 DEF RetFrame, RetFrames
<1>3. toB' \in Seq(RetFrames(Seqnum))
  BY <1>2, OnWireType DEF transferAborts
<1>4. IsMap(active', LendSeqnum, Token) /\ cached' \in Seq(Token)
  BY DeregisterType DEF transferAborts, LenderInv
<1>5. chan' \in [Channel -> Seq(Completion)]
  BY EmptyQueue DEF transferAborts, NoChannel
<1>6. LendTypeOK'
  BY <1>4, <1>5, EmptyQueue DEF transferAborts, LenderInv, LendTypeOK, IsMap
<1>7. toBFin' \in BOOLEAN
  BY Zenon DEF transferAborts
<1>8. StreamTypeOK'
  BY <1>3, <1>7 DEF transferAborts, LenderInv, StreamTypeOK, lendDir
<1> QED BY <1>6, <1>8 DEF LenderInv

LEMMA LendFlushType ==
  ASSUME LenderInv,
         \/ lendFlushBuf \/ lendWriteFrame \/ lendFlushComplete \/ lendEndSend
         \/ lendStopped
  PROVE  LenderInv'
<1> USE DEF sendKeeps
<1>1. CASE lendFlushBuf \/ lendFlushComplete \/ lendStopped
  <2>1. LendTypeOK'
    BY <1>1, EmptyQueue DEF LenderInv, LendTypeOK, IsMap, lendFlushBuf, lend_flush_buf,
                            lendFlushComplete, lendStopped
  <2>2. StreamTypeOK'
    BY <1>1 DEF LenderInv, StreamTypeOK, borrowDir, lendDir, lendFlushBuf,
                lendFlushComplete, lendStopped
  <2> QED BY <2>1, <2>2 DEF LenderInv
<1>2. CASE lendWriteFrame
  <2>1. Head(lFlush) \in RetFrames(Seqnum) /\ lFlush' \in Seq(RetFrames(LendSeqnum))
    BY <1>2, QueueTake, SessionAssumption DEF lendWriteFrame, LenderInv, LendTypeOK
  <2>2. toB' \in Seq(RetFrames(Seqnum))
    BY <1>2, <2>1, QueuePut DEF lendWriteFrame, LenderInv, StreamTypeOK
  <2>3. LendTypeOK'
    BY <1>2, <2>1 DEF lendWriteFrame, LenderInv, LendTypeOK, IsMap
  <2>4. StreamTypeOK'
    BY <1>2, <2>2 DEF lendWriteFrame, LenderInv, StreamTypeOK, lendDir
  <2> QED BY <2>3, <2>4 DEF LenderInv
<1>3. CASE lendEndSend
  <2>1. toBFin' \in BOOLEAN
    BY <1>3, Zenon DEF lendEndSend, endSending
  <2>2. chan' \in [Channel -> Seq(Completion)]
    BY <1>3, EmptyQueue DEF lendEndSend, endSending, NoChannel
  <2>3. LendTypeOK'
    BY <1>3, <2>2, EmptyQueue DEF lendEndSend, endSending, LenderInv, LendTypeOK, IsMap
  <2>4. StreamTypeOK'
    BY <1>3, <2>1 DEF lendEndSend, LenderInv, StreamTypeOK, lendDir
  <2> QED BY <2>3, <2>4 DEF LenderInv
<1> QED BY <1>1, <1>2, <1>3

(* The blocking thread, the device and the task that owns the loops. *)
LEMMA ThreadAndDeviceType ==
  ASSUME LenderInv, LendThread \/ Device
  PROVE  LenderInv'
<1> USE DEF deviceKeeps
<1>1. StreamTypeOK'
  BY StreamKept DEF LenderInv, LendThread, Device, deviceDone
<1>2. CASE LendThread
  <2>1. IsMap(xfer', LendSeqnum, Transfer) /\ lTasks' \in Seq(LendSeqnum)
    <3>1. CASE xfer[Head(lTasks)].st = "queued" /\ Head(lTasks) \in DOMAIN xfer
      <4>1. xfer' = [xfer EXCEPT ![Head(lTasks)].st = "inflight"] /\ UNCHANGED lTasks
        BY <1>2, <3>1 DEF LendThread
      <4> QED BY <3>1, <4>1, TransferMoves DEF LenderInv, LendTypeOK, TransferState
    <3>2. CASE xfer[Head(lTasks)].st = "queued" /\ Head(lTasks) \notin DOMAIN xfer
      BY <1>2, <3>2 DEF LendThread, LenderInv, LendTypeOK, IsMap
    <3>3. CASE xfer[Head(lTasks)].st # "queued"
      BY <1>2, <3>3, QueueTake DEF LendThread, LenderInv, LendTypeOK, IsMap
    <3> QED BY <3>1, <3>2, <3>3
  <2> QED BY <1>1, <1>2, <2>1 DEF LendThread, LenderInv, LendTypeOK, IsMap
<1>3. CASE Device
  <2>1. PICK s \in DOMAIN xfer, r \in TransferStatus \cup RusbError : deviceDone(s, r)
    BY <1>3 DEF Device
  <2>2. IsMap(xfer', LendSeqnum, Transfer)
    BY <2>1, TransferMoves DEF deviceDone, LenderInv, TransferState
  <2> QED BY <1>1, <2>1, <2>2 DEF deviceDone, LenderInv, LendTypeOK, IsMap
<1> QED BY <1>2, <1>3

LEMMA LendMainType ==
  ASSUME LenderInv, LendMain \/ CancelLend
  PROVE  LenderInv'
<1> USE DEF lendMainKeeps
<1>1. StreamTypeOK'
  BY StreamKept DEF LenderInv, LendMain, lendJoined, libusbJoined, CancelLend
<1>2. lCancel' \in BOOLEAN
  BY Zenon DEF LenderInv, LendTypeOK, LendMain, lendJoined, libusbJoined, CancelLend
<1>3. LendTypeOK'
  BY <1>2 DEF LenderInv, LendTypeOK, IsMap, LendMain, lendJoined, libusbJoined, CancelLend
<1> QED BY <1>1, <1>3 DEF LenderInv

(* The steps of the lender's two loops, with the kinds of transfer folded. *)
LEMMA LendRecvCases ==
  LendRecv => \/ new_transfer \/ blocking_request \/ port_reset \/ unlink_urb
              \/ \E s \in DOMAIN xfer : completed(s) \/ recvPanic(s)
              \/ sendResumes \/ endRecvLoop \/ drainRead \/ drainEnd
BY DEF LendRecv, new_ctrl, new_int, new_iso, new_bulk, set_config, set_interface,
       clear_stall

LEMMA LendSendCases ==
  LendSend => \/ \E c \in Channel : transferReplied(c) \/ transferAborts(c)
              \/ lendFlushBuf \/ lendWriteFrame \/ lendFlushComplete \/ lendEndSend
BY DEF LendSend, iso_completed, int_completed, ctrl_completed, bulk_completed,
       device_resetted, transferCompleted, Channel

LEMMA HoldStep ==
  ASSUME LenderInv, HoldKnown,
         \/ LendRecv \/ LendSend \/ lendStopped \/ LendThread \/ Device
         \/ LendMain \/ CancelLend
  PROVE  HoldKnown'
<1>1. CASE UNCHANGED <<xfer, hold>>
  BY <1>1 DEF HoldKnown
<1>2. CASE UNCHANGED hold /\ DOMAIN xfer \subseteq DOMAIN xfer'
  BY <1>2 DEF HoldKnown
<1>3. CASE \/ LendSend \/ lendStopped \/ LendMain \/ CancelLend \/ unlink_urb
           \/ drainRead \/ drainEnd
  BY <1>1, <1>3, LendSendCases DEF transferReplied, transferAborts, lendFlushBuf, lendWriteFrame,
     lendFlushComplete, lendEndSend, lendStopped, sendKeeps, LendMain, lendJoined,
     libusbJoined, CancelLend, lendMainKeeps, unlink_urb, recvKeeps, drainRead, drainEnd,
     drainKeeps
<1>4. CASE new_transfer \/ blocking_request \/ port_reset
  <2>1. UNCHANGED hold
    BY <1>4 DEF new_transfer, blocking_request, port_reset
  <2>2. \E v : xfer' = Insert(xfer, Frame.seq, v)
    <3>1. CASE new_transfer
      BY <3>1 DEF new_transfer, register_cancel_token, start
    <3>2. CASE blocking_request
      BY <3>2 DEF blocking_request, start
    <3>3. CASE port_reset
      BY <3>3 DEF port_reset, start
    <3> QED BY <1>4, <3>1, <3>2, <3>3
  <2>3. DOMAIN xfer' = DOMAIN xfer \cup {Frame.seq}
    BY <2>2 DEF Insert
  <2>4. DOMAIN xfer \subseteq DOMAIN xfer'
    BY <2>3
  <2> QED BY <1>2, <2>1, <2>4
<1>5. ASSUME NEW s \in DOMAIN xfer, completed(s)
      PROVE  HoldKnown'
  <2>1. DOMAIN xfer' = DOMAIN xfer
    BY <1>5 DEF completed
  <2>2. UNCHANGED hold \/ (hold' # <<>> /\ hold'[1].seq = s)
    BY <1>5 DEF completed
  <2> QED BY <2>1, <2>2 DEF HoldKnown
<1>6. ASSUME NEW s \in DOMAIN xfer, recvPanic(s)
      PROVE  HoldKnown'
  BY <1>2, <1>6 DEF recvPanic, dropHandler
<1>7. CASE endRecvLoop
  BY <1>2, <1>7 DEF endRecvLoop, dropHandler
<1>8. CASE sendResumes
  BY <1>8 DEF sendResumes, HoldKnown
<1>9. CASE LendThread \/ Device
  <2>1. UNCHANGED hold /\ DOMAIN xfer' = DOMAIN xfer
    BY <1>9 DEF LendThread, Device, deviceDone, deviceKeeps
  <2> QED BY <1>2, <2>1
<1> QED BY <1>3, <1>4, <1>5, <1>6, <1>7, <1>8, <1>9, LendRecvCases

LEMMA LenderType ==
  ASSUME LenderInv, HoldKnown,
         \/ LendRecv \/ LendSend \/ lendStopped \/ LendThread \/ Device
         \/ LendMain \/ CancelLend
  PROVE  LenderInv'
<1>1. CASE LendRecv
  <2>1. CASE sendResumes
    <3>1. hold[1].seq \in DOMAIN xfer
      BY <2>1 DEF sendResumes, HoldKnown
    <3> QED BY <2>1, <3>1, ResumesType
  <2> QED
    BY <1>1, <2>1, NewTransferType, BlockingRequestType, UnlinkType, CompletedType,
       LendRecvEndType, LendRecvCases
<1>2. CASE LendSend \/ lendStopped
  BY <1>2, RepliedType, AbortsType, LendFlushType, LendSendCases
<1> QED BY <1>1, <1>2, ThreadAndDeviceType, LendMainType

LEMMA NextType == TypeInv /\ [Next]_vars => TypeInv'
<1> SUFFICES ASSUME TypeInv, [Next]_vars PROVE TypeInv'
  OBVIOUS
<1> USE DEF TypeInv, TypeOK, BorrowerInv, LenderInv
<1>1. CASE Guest /\ UNCHANGED <<borrowVars, streamVars, lendVars>>
  BY <1>1, GuestType, BorrowKept, KnownKept, StreamKept, LendKept DEF HoldKnown, lendVars
<1>2. CASE ConnectionLost /\ UNCHANGED <<vhciVars, borrowVars, lendVars>>
  <2>1. lost' \in BOOLEAN
    BY <1>2, Zenon DEF ConnectionLost
  <2>2. StreamTypeOK'
    BY <1>2, <2>1, EmptyQueue DEF ConnectionLost, StreamTypeOK
  <2> QED BY <1>2, <2>2, VhciKept, WorkKept, BorrowKept, KnownKept, LendKept DEF HoldKnown, lendVars
<1>3. CASE /\ \/ BorrowSend \/ StreamStopped \/ BorrowRecv \/ BorrowMain
              \/ BlockingThread \/ CancelBorrow
           /\ UNCHANGED lendVars
  BY <1>3, BorrowerType, LendKept DEF HoldKnown, lendVars
<1>4. CASE /\ \/ LendRecv \/ LendSend \/ lendStopped \/ LendThread \/ Device
              \/ LendMain \/ CancelLend
           /\ UNCHANGED <<vhciVars, borrowVars>>
  BY <1>4, LenderType, HoldStep, VhciKept, WorkKept, BorrowKept, KnownKept
<1>5. CASE UNCHANGED vars
  BY <1>5, VhciKept, WorkKept, BorrowKept, KnownKept, LendKept, StreamKept
     DEF vars, HoldKnown, lendVars
<1> QED BY <1>1, <1>2, <1>3, <1>4, <1>5 DEF Next, Borrower, Lender

(* Every step of the guest, the loops, the threads and the device leaves each
   variable of both hosts with its type, for any number of handles, URBs,
   resets and sequence numbers. *)
THEOREM TypeCorrect == Spec => []TypeOK
<1>1. Init => TypeInv
  BY InitType
<1>2. TypeInv /\ [Next]_vars => TypeInv'
  BY NextType
<1>3. TypeInv => TypeOK
  BY DEF TypeInv
<1> QED BY <1>1, <1>2, <1>3, PTL DEF Spec

-----------------------------------------------------------------------------
(* A loop that waits for work has nothing to write, and a write is going on
   only in state Flush. *)
BuffersInv ==
  /\ bSend = "Solicit" => bBuf = <<>>
  /\ bSend \in {"Solicit", "Timer"} => bFlush = <<>>
  /\ lSend = "Solicit" => lBuf = <<>>
  /\ lSend \in {"Solicit", "Timer"} => lFlush = <<>>

(* The disconnect of the port is queued when both loops are done. *)
Unplugging == bMain \in {"disconnect", "done"}
OrderInv ==
  /\ bMain \in {"send", "disconnect", "done"} => bRecv = "done"
  /\ Unplugging => bSend = "done"
  /\ \A i \in DOMAIN tasks : tasks[i].op = "disconnect" => i = Len(tasks) /\ Unplugging
  /\ port = "gone" => Unplugging

(* A URB's handle is in one place at a time: with the work item that brings
   it, in the maps, or with the giveback that returns it; and it is the
   controller's until then. *)
Asks(i) == i \in DOMAIN work /\ work[i].op = "ProcessUrb"
Returns(j) == j \in DOMAIN tasks /\ tasks[j].op = "giveback" /\ tasks[j].h \in Handles
WorkDistinct == \A i, j : Asks(i) /\ Asks(j) /\ work[i].h = work[j].h => i = j
ReturnsDistinct == \A i, j : Returns(i) /\ Returns(j) /\ tasks[i].h = tasks[j].h => i = j
WorkNotSent == \A i : Asks(i) => work[i].h \notin DOMAIN seqnums
WorkNotReturned == \A i, j : Asks(i) /\ Returns(j) => work[i].h # tasks[j].h
SentNotReturned == \A j : Returns(j) => tasks[j].h \notin DOMAIN seqnums
AllCurrent ==
  port # "gone" =>
    /\ \A i : Asks(i) => work[i].h \in DOMAIN cur
    /\ \A h \in Handles : h \in DOMAIN seqnums => h \in DOMAIN cur
    /\ \A j : Returns(j) => tasks[j].h \in DOMAIN cur
SeqnumsUsed == \A s \in DOMAIN handles : s < curSeq
HandleInv ==
  /\ WorkDistinct /\ ReturnsDistinct /\ WorkNotSent /\ WorkNotReturned
  /\ SentNotReturned /\ AllCurrent /\ SeqnumsUsed /\ MapsInverse

-----------------------------------------------------------------------------
(* The send buffers. *)
LEMMA BorrowBuffers ==
  ASSUME BuffersInv, UNCHANGED lendVars,
         BorrowSend \/ StreamStopped \/ BorrowRecv \/ BorrowMain \/ BlockingThread
           \/ CancelBorrow
  PROVE  BuffersInv'
<1> USE DEF BuffersInv, lendVars
<1>1. CASE port_stat
  BY <1>1 DEF port_stat, afterWork
<1>2. CASE set_address
  BY <1>2 DEF set_address
<1>3. CASE process_urb
  BY <1>3 DEF process_urb, afterWork, endSendLoop
<1>4. CASE cancel_urb
  BY <1>4 DEF cancel_urb, afterWork
<1>5. CASE FlushBuf \/ WriteFrame \/ FlushComplete \/ EndSendLoop \/ StreamStopped
  BY <1>5 DEF FlushBuf, flush_buf, WriteFrame, FlushComplete, afterFlush, EndSendLoop,
     endSendLoop, StreamStopped
<1>6. CASE BorrowRecv
  BY <1>6 DEF BorrowRecv, urb_reply, device_reset, RecvPanic, EndRecvLoop, DrainRead,
     DrainEnd, recvUnchanged
<1>7. CASE BorrowMain \/ CancelBorrow
  BY <1>7 DEF BorrowMain, RecvJoined, RecvJoinPanic, SendJoined, Disconnected, CancelBorrow
<1>8. CASE BlockingThread
  BY <1>8 DEF BlockingThread, borrowVars
<1> QED BY <1>1, <1>2, <1>3, <1>4, <1>5, <1>6, <1>7, <1>8 DEF BorrowSend

LEMMA LendBuffers ==
  ASSUME BuffersInv, UNCHANGED borrowVars,
         \/ LendRecv \/ LendSend \/ lendStopped \/ LendThread \/ Device
         \/ LendMain \/ CancelLend
  PROVE  BuffersInv'
<1> USE DEF BuffersInv, borrowVars
<1>1. CASE LendRecv
  <2>1. UNCHANGED <<lBuf, lFlush, lSend>>
    BY <1>1, LendRecvCases DEF new_transfer, blocking_request, port_reset, unlink_urb,
       completed, recvPanic, sendResumes, endRecvLoop, drainRead, drainEnd, recvKeeps,
       dropHandler, drainKeeps
  <2> QED BY <2>1
<1>2. CASE \E c \in Channel : transferReplied(c) \/ transferAborts(c)
  BY <1>2 DEF transferReplied, transferAborts, endSending
<1>3. CASE lendFlushBuf \/ lendWriteFrame \/ lendFlushComplete \/ lendEndSend \/ lendStopped
  BY <1>3 DEF lendFlushBuf, lend_flush_buf, lendWriteFrame, lendFlushComplete, lendEndSend,
     endSending, lendStopped
<1>4. CASE LendThread \/ Device \/ LendMain \/ CancelLend
  BY <1>4 DEF LendThread, Device, deviceDone, deviceKeeps, LendMain, lendJoined,
     libusbJoined, CancelLend, lendMainKeeps
<1> QED BY <1>1, <1>2, <1>3, <1>4, LendSendCases

LEMMA BuffersStep == BuffersInv /\ [Next]_vars => BuffersInv'
<1> SUFFICES ASSUME BuffersInv, [Next]_vars PROVE BuffersInv'
  OBVIOUS
<1>1. CASE UNCHANGED <<borrowVars, lendVars>>
  BY <1>1 DEF BuffersInv, borrowVars, lendVars
<1> QED BY <1>1, BorrowBuffers, LendBuffers DEF Next, Borrower, Lender, vars

LEMMA InitBuffers == Init => BuffersInv
BY DEF Init, BorrowInit, LendInit, BuffersInv

(* No frame is ever left in a send buffer without a timer or a write that
   flushes it, in either direction. *)
THEOREM FramesAreFlushed == Spec => []NoStrandedFrame
<1>1. Init => BuffersInv
  BY InitBuffers
<1>2. BuffersInv /\ [Next]_vars => BuffersInv'
  BY BuffersStep
<1>3. BuffersInv => NoStrandedFrame
  BY DEF BuffersInv, NoStrandedFrame
<1> QED BY <1>1, <1>2, <1>3, PTL DEF Spec

-----------------------------------------------------------------------------
(* The end of the session.  Elements of a queue that was added to or taken
   from, at their old place. *)
LEMMA Added ==
  ASSUME NEW S, NEW q \in Seq(S), NEW e
  PROVE  /\ Len(Append(q, e)) = Len(q) + 1
         /\ \A i \in DOMAIN Append(q, e) :
              \/ i \in DOMAIN q /\ Append(q, e)[i] = q[i]
              \/ i = Len(q) + 1 /\ Append(q, e)[i] = e
OBVIOUS

LEMMA Taken ==
  ASSUME NEW S, NEW q \in Seq(S), q # <<>>
  PROVE  /\ Len(Tail(q)) = Len(q) - 1 /\ Head(q) = q[1] /\ 1 \in DOMAIN q
         /\ \A i \in DOMAIN Tail(q) :
              i \in Nat /\ i + 1 \in DOMAIN q /\ i + 1 # 1 /\ Tail(q)[i] = q[i + 1]
OBVIOUS

(* A giveback may be queued while no disconnect is. *)
LEMMA GivebackQueued ==
  ASSUME OrderInv, ~Unplugging, UNCHANGED <<bMain, bRecv, bSend, port>>,
         tasks \in Seq(Task), NEW t, tasks' = Append(tasks, t), t.op = "giveback"
  PROVE  OrderInv'
BY Added DEF OrderInv, Unplugging

LEMMA OrderBorrowSend ==
  ASSUME OrderInv, tasks \in Seq(Task), BorrowSend \/ StreamStopped
  PROVE  OrderInv'
<1>1. bSend # "done"
  BY DEF BorrowSend, StreamStopped, port_stat, set_address, process_urb, cancel_urb,
     TakeWork, Sending, FlushBuf, WriteFrame, FlushComplete, EndSendLoop
<1>2. ~Unplugging
  BY <1>1 DEF OrderInv
<1>3. CASE set_address
  <2>1. PICK t : tasks' = Append(tasks, t) /\ t.op = "giveback"
    BY <1>3 DEF set_address, Giveback
  <2> QED BY <1>2, <1>3, <2>1, GivebackQueued DEF set_address
<1>4. CASE UNCHANGED <<bMain, bRecv, tasks, port>>
  BY <1>2, <1>4 DEF OrderInv, Unplugging
<1> QED
  BY <1>3, <1>4 DEF BorrowSend, StreamStopped, port_stat, process_urb, cancel_urb, FlushBuf,
     WriteFrame, FlushComplete, EndSendLoop, sendUnchanged, vhciVars

LEMMA OrderBorrowRecv ==
  ASSUME OrderInv, tasks \in Seq(Task), BorrowRecv
  PROVE  OrderInv'
<1>1. bRecv # "done"
  BY DEF BorrowRecv, urb_reply, device_reset, RecvPanic, EndRecvLoop, CanRead, DrainRead,
     DrainEnd
<1>2. ~Unplugging /\ bMain # "send" /\ port # "gone"
  BY <1>1 DEF OrderInv, Unplugging
<1>3. CASE urb_reply
  <2>1. PICK t : tasks' = Append(tasks, t) /\ t.op = "giveback"
    BY <1>3 DEF urb_reply, Giveback
  <2> QED BY <1>2, <1>3, <2>1, GivebackQueued DEF urb_reply, recvUnchanged
<1>4. CASE device_reset
  BY <1>2, <1>4 DEF device_reset, recvUnchanged, PortResetDone, OrderInv, Unplugging
<1>5. CASE UNCHANGED <<bMain, bSend, tasks, port>>
  BY <1>2, <1>5 DEF OrderInv, Unplugging
<1> QED
  BY <1>3, <1>4, <1>5 DEF BorrowRecv, RecvPanic, EndRecvLoop, DrainRead, DrainEnd,
     recvUnchanged, vhciVars

LEMMA OrderBorrowMain ==
  ASSUME OrderInv, tasks \in Seq(Task), BorrowMain \/ CancelBorrow
  PROVE  OrderInv'
<1>1. CASE SendJoined
  <2>1. PICK t : tasks' = Append(tasks, t)
    BY <1>1 DEF SendJoined
  <2>2. \A i \in DOMAIN tasks : tasks[i].op # "disconnect"
    BY <1>1 DEF SendJoined, OrderInv, Unplugging
  <2>3. \A i \in DOMAIN tasks' : tasks'[i].op = "disconnect" => i = Len(tasks')
    BY <2>1, <2>2, Added
  <2> QED BY <1>1, <2>3 DEF SendJoined, mainUnchanged, OrderInv, Unplugging
<1> QED
  BY <1>1 DEF BorrowMain, RecvJoined, RecvJoinPanic, Disconnected, CancelBorrow,
     mainUnchanged, OrderInv, Unplugging

LEMMA OrderThread ==
  ASSUME OrderInv, tasks \in Seq(Task), BlockingThread
  PROVE  OrderInv'
<1>1. UNCHANGED <<bMain, bRecv, bSend>> /\ tasks # <<>> /\ tasks' = Tail(tasks)
  BY DEF BlockingThread, borrowVars, RunGiveback, RunDisconnect
<1>2. \A i \in DOMAIN tasks' : tasks'[i].op = "disconnect" => i = Len(tasks') /\ Unplugging
  <2> SUFFICES ASSUME NEW i \in DOMAIN tasks', tasks'[i].op = "disconnect"
               PROVE  i = Len(tasks') /\ Unplugging
    OBVIOUS
  <2>1. i \in Nat /\ i + 1 \in DOMAIN tasks /\ tasks[i + 1].op = "disconnect"
    BY <1>1, Taken
  <2>2. i + 1 = Len(tasks) /\ Unplugging
    BY <2>1 DEF OrderInv
  <2>3. Len(tasks') = Len(tasks) - 1
    BY <1>1, Taken
  <2> QED BY <2>1, <2>2, <2>3
<1>3. port' = "gone" => Unplugging
  <2>1. CASE RunDisconnect
    <3>1. 1 \in DOMAIN tasks /\ tasks[1].op = "disconnect"
      BY <2>1, Taken DEF RunDisconnect
    <3> QED BY <3>1 DEF OrderInv
  <2>2. CASE RunGiveback
    BY <2>2 DEF RunGiveback, OrderInv
  <2> QED BY <2>1, <2>2 DEF BlockingThread
<1> QED BY <1>1, <1>2, <1>3 DEF OrderInv, Unplugging

LEMMA OrderStep == TypeInv /\ OrderInv /\ [Next]_vars => OrderInv'
<1> SUFFICES ASSUME TypeInv, OrderInv, [Next]_vars PROVE OrderInv'
  OBVIOUS
<1>1. tasks \in Seq(Task)
  BY DEF TypeInv, TypeOK, VhciTypeOK
<1>2. CASE Guest /\ UNCHANGED borrowVars
  <2>1. UNCHANGED tasks /\ (port' = "gone" => port = "gone")
    BY <1>2 DEF Guest, Submit, Unlink, ResetPort
  <2> QED BY <1>2, <2>1 DEF borrowVars, OrderInv, Unplugging
<1>3. CASE UNCHANGED <<vhciVars, borrowVars>>
  BY <1>3 DEF vhciVars, borrowVars, OrderInv, Unplugging
<1> QED
  BY <1>1, <1>2, <1>3, OrderBorrowSend, OrderBorrowRecv, OrderBorrowMain, OrderThread
     DEF Next, Borrower, Lender, vars

LEMMA InitOrder == Init => OrderInv
BY DEF Init, BorrowInit, VhciInit, OrderInv, Unplugging

(* The disconnect ioctl is the last closure a session queues: nothing is given
   back on a port that was unplugged. *)
THEOREM DisconnectIsLast == Spec => []DisconnectLast
<1>1. Init => TypeInv /\ OrderInv
  BY InitType, InitOrder
<1>2. TypeInv /\ OrderInv /\ [Next]_vars => (TypeInv /\ OrderInv)'
  BY NextType, OrderStep
<1>3. OrderInv => DisconnectLast
  BY DEF OrderInv, DisconnectLast
<1> QED BY <1>1, <1>2, <1>3, PTL DEF Spec

-----------------------------------------------------------------------------
(* The handles.  What is in the two queues after they were added to or taken
   from. *)
LEMMA AsksTaken ==
  ASSUME work \in Seq(Work), work # <<>>, work' = Tail(work)
  PROVE  \A i : Asks(i)' => /\ i \in Nat /\ i + 1 # 1
                            /\ Asks(i + 1) /\ work'[i].h = work[i + 1].h
BY Taken DEF Asks

LEMMA AsksAdded ==
  ASSUME work \in Seq(Work), NEW w, work' = Append(work, w)
  PROVE  \A i : Asks(i)' => \/ Asks(i) /\ work'[i].h = work[i].h
                            \/ /\ w.op = "ProcessUrb" /\ work'[i] = w
                               /\ i = Len(work) + 1
BY Added DEF Asks

LEMMA ReturnsTaken ==
  ASSUME tasks \in Seq(Task), tasks # <<>>, tasks' = Tail(tasks)
  PROVE  \A j : Returns(j)' => /\ j \in Nat /\ j + 1 # 1
                               /\ Returns(j + 1) /\ tasks'[j].h = tasks[j + 1].h
BY Taken DEF Returns

LEMMA ReturnsAdded ==
  ASSUME tasks \in Seq(Task), NEW t, tasks' = Append(tasks, t)
  PROVE  \A j : Returns(j)' => \/ Returns(j) /\ tasks'[j].h = tasks[j].h
                               \/ /\ t.op = "giveback" /\ t.h \in Handles
                                  /\ tasks'[j] = t /\ j = Len(tasks) + 1
BY Added DEF Returns

(* What the proofs use of the types. *)
QueuesOK == work \in Seq(Work) /\ tasks \in Seq(Task) /\ curSeq \in Nat
            /\ DOMAIN cur \subseteq Handles /\ DOMAIN handles \subseteq Nat

LEMMA HandlesKept ==
  ASSUME HandleInv, UNCHANGED <<work, tasks, seqnums, handles, curSeq, cur, port>>
  PROVE  HandleInv'
BY DEF HandleInv, WorkDistinct, ReturnsDistinct, WorkNotSent, WorkNotReturned,
       SentNotReturned, AllCurrent, SeqnumsUsed, MapsInverse, Asks, Returns

(* A handle leaves or enters one of the places; the rest stays. *)
LEMMA HandleSubmitted ==
  ASSUME HandleInv, QueuesOK, NEW h \in Handles, NEW shape, Submit(h, shape),
         UNCHANGED <<seqnums, handles, curSeq>>
  PROVE  HandleInv'
<1> USE DEF Asks, Returns
<1> DEFINE w == ProcessUrb(h, Len(urbs) + 1, kaddr)
<1>1. /\ h \notin DOMAIN cur /\ DOMAIN cur' = DOMAIN cur \cup {h}
      /\ port # "gone" /\ UNCHANGED <<tasks, port>> /\ work' = Append(work, w)
  BY InsertValue DEF Submit
<1>2. \A i : Asks(i)' => \/ Asks(i) /\ work'[i].h = work[i].h
                         \/ work'[i].h = h /\ i = Len(work) + 1
  BY <1>1, AsksAdded DEF QueuesOK, ProcessUrb
<1>3. /\ \A i : Asks(i) => work[i].h # h
      /\ h \notin DOMAIN seqnums
      /\ \A j : Returns(j) => tasks[j].h # h
  BY <1>1 DEF HandleInv, AllCurrent
<1>4. \A j : Returns(j)' <=> Returns(j)
  BY <1>1 DEF Returns
<1>5. WorkDistinct'
  BY <1>2, <1>3 DEF HandleInv, WorkDistinct
<1>6. WorkNotSent' /\ WorkNotReturned'
  BY <1>1, <1>2, <1>3, <1>4 DEF HandleInv, WorkNotSent, WorkNotReturned
<1>7. AllCurrent'
  BY <1>1, <1>2, <1>4 DEF HandleInv, AllCurrent
<1>8. ReturnsDistinct' /\ SentNotReturned' /\ SeqnumsUsed' /\ MapsInverse'
  BY <1>1, <1>4 DEF HandleInv, ReturnsDistinct, SentNotReturned, SeqnumsUsed, MapsInverse
<1> QED BY <1>5, <1>6, <1>7, <1>8 DEF HandleInv

LEMMA NoticeAdded ==
  ASSUME HandleInv, QueuesOK, NEW w, work' = Append(work, w), w.op # "ProcessUrb",
         UNCHANGED <<tasks, seqnums, handles, curSeq, cur>>, port = "gone" => port' = "gone"
  PROVE  HandleInv'
<1> USE DEF Asks, Returns
<1>1. \A i : Asks(i)' => Asks(i) /\ work'[i].h = work[i].h
  BY AsksAdded DEF QueuesOK
<1>2. \A j : Returns(j)' <=> Returns(j)
  BY DEF Returns
<1>3. WorkDistinct' /\ WorkNotSent' /\ WorkNotReturned' /\ AllCurrent'
  BY <1>1, <1>2 DEF HandleInv, WorkDistinct, WorkNotSent, WorkNotReturned, AllCurrent
<1>4. ReturnsDistinct' /\ SentNotReturned' /\ SeqnumsUsed' /\ MapsInverse'
  BY <1>2 DEF HandleInv, ReturnsDistinct, SentNotReturned, SeqnumsUsed, MapsInverse
<1> QED BY <1>3, <1>4 DEF HandleInv

LEMMA WorkDropped ==
  ASSUME HandleInv, QueuesOK, work # <<>>, work' = Tail(work),
         UNCHANGED <<tasks, seqnums, handles, curSeq, cur, port>>
  PROVE  HandleInv'
<1> USE DEF Asks, Returns
<1>1. \A i : Asks(i)' => i \in Nat /\ Asks(i + 1) /\ work'[i].h = work[i + 1].h
  BY AsksTaken DEF QueuesOK
<1>2. \A j : Returns(j)' <=> Returns(j)
  BY DEF Returns
<1>3. WorkDistinct'
  BY <1>1 DEF HandleInv, WorkDistinct
<1>4. WorkNotSent' /\ WorkNotReturned' /\ AllCurrent'
  BY <1>1, <1>2 DEF HandleInv, WorkNotSent, WorkNotReturned, AllCurrent
<1>5. ReturnsDistinct' /\ SentNotReturned' /\ SeqnumsUsed' /\ MapsInverse'
  BY <1>2 DEF HandleInv, ReturnsDistinct, SentNotReturned, SeqnumsUsed, MapsInverse
<1> QED BY <1>3, <1>4, <1>5 DEF HandleInv

(* A sequence number is given to a handle that has none: the work item at the
   head of the queue, or one made up for a reset. *)
LEMMA HandleSent ==
  ASSUME HandleInv, QueuesOK, work # <<>>, work' = Tail(work),
         NEW h, NEW u, nextSeqnum(h, u), UNCHANGED <<tasks, cur, port>>,
         \/ Asks(1) /\ work[1].h = h
         \/ h \notin Handles /\ h \notin DOMAIN seqnums
  PROVE  HandleInv'
<1> USE DEF Asks, Returns
<1>1. \A i : Asks(i)' => /\ i \in Nat /\ i + 1 # 1
                         /\ Asks(i + 1) /\ work'[i].h = work[i + 1].h
  BY AsksTaken DEF QueuesOK
<1>2. \A j : Returns(j)' <=> Returns(j)
  BY DEF Returns
<1>3. \A i : Asks(i) => work[i].h \in Handles
  BY DEF QueuesOK, Work, Asks
<1>4. /\ h \notin DOMAIN seqnums
      /\ \A i : Asks(i)' => work'[i].h # h
      /\ \A j : Returns(j) => tasks[j].h # h
      /\ h \in Handles /\ port # "gone" => h \in DOMAIN cur
  BY <1>1, <1>3 DEF HandleInv, WorkDistinct, WorkNotSent, WorkNotReturned, AllCurrent, Returns
<1>5. /\ curSeq' = curSeq + 1
      /\ DOMAIN seqnums' = DOMAIN seqnums \cup {h} /\ seqnums'[h] = curSeq
      /\ \A x \in DOMAIN seqnums : x # h => seqnums'[x] = seqnums[x]
      /\ DOMAIN handles' = DOMAIN handles \cup {curSeq} /\ handles'[curSeq] = h
      /\ \A s \in DOMAIN handles : s # curSeq => handles'[s] = handles[s]
  <2>1. /\ curSeq' = curSeq + 1 /\ seqnums' = Insert(seqnums, h, curSeq)
        /\ handles' = Insert(handles, curSeq, h)
    BY DEF nextSeqnum
  <2>2. /\ DOMAIN seqnums' = DOMAIN seqnums \cup {h} /\ seqnums'[h] = curSeq
        /\ \A x \in DOMAIN seqnums : x # h => seqnums'[x] = seqnums[x]
    BY <2>1 DEF Insert
  <2>3. /\ DOMAIN handles' = DOMAIN handles \cup {curSeq} /\ handles'[curSeq] = h
        /\ \A s \in DOMAIN handles : s # curSeq => handles'[s] = handles[s]
    BY <2>1 DEF Insert
  <2> QED BY <2>1, <2>2, <2>3
<1>6. curSeq \notin DOMAIN handles
  BY DEF HandleInv, SeqnumsUsed, QueuesOK
<1>7. WorkDistinct'
  BY <1>1 DEF HandleInv, WorkDistinct
<1>8. WorkNotSent' /\ SentNotReturned'
  BY <1>1, <1>2, <1>4, <1>5 DEF HandleInv, WorkNotSent, SentNotReturned
<1>9. WorkNotReturned' /\ ReturnsDistinct'
  BY <1>1, <1>2 DEF HandleInv, WorkNotReturned, ReturnsDistinct
<1>10. AllCurrent'
  BY <1>1, <1>2, <1>4, <1>5 DEF HandleInv, AllCurrent
<1>11. SeqnumsUsed'
  BY <1>5 DEF HandleInv, SeqnumsUsed, QueuesOK
<1>12. MapsInverse'
  BY <1>4, <1>5, <1>6 DEF HandleInv, MapsInverse
<1> QED BY <1>7, <1>8, <1>9, <1>10, <1>11, <1>12 DEF HandleInv

(* set_address returns the handle of the work item without sending anything. *)
LEMMA HandleAnswered ==
  ASSUME HandleInv, QueuesOK, work # <<>>, work' = Tail(work), NEW t,
         tasks' = Append(tasks, t), Asks(1), t.h = work[1].h,
         UNCHANGED <<seqnums, handles, curSeq, cur, port>>
  PROVE  HandleInv'
<1> USE DEF Asks, Returns
<1>1. \A i : Asks(i)' => /\ i \in Nat /\ i + 1 # 1
                         /\ Asks(i + 1) /\ work'[i].h = work[i + 1].h
  BY AsksTaken DEF QueuesOK
<1>2. \A j : Returns(j)' => \/ Returns(j) /\ tasks'[j].h = tasks[j].h
                            \/ tasks'[j].h = t.h /\ j = Len(tasks) + 1
  BY ReturnsAdded DEF QueuesOK
<1>3. /\ t.h \notin DOMAIN seqnums
      /\ \A i : Asks(i)' => work'[i].h # t.h
      /\ \A j : Returns(j) => tasks[j].h # t.h
      /\ port # "gone" => t.h \in DOMAIN cur
  BY <1>1 DEF HandleInv, WorkDistinct, WorkNotSent, WorkNotReturned, AllCurrent
<1>4. WorkDistinct' /\ WorkNotSent'
  BY <1>1 DEF HandleInv, WorkDistinct, WorkNotSent
<1>5. ReturnsDistinct' /\ SentNotReturned'
  BY <1>2, <1>3 DEF HandleInv, ReturnsDistinct, SentNotReturned
<1>6. WorkNotReturned'
  BY <1>1, <1>2, <1>3 DEF HandleInv, WorkNotReturned
<1>7. AllCurrent'
  BY <1>1, <1>2, <1>3 DEF HandleInv, AllCurrent
<1>8. SeqnumsUsed' /\ MapsInverse'
  BY DEF HandleInv, SeqnumsUsed, MapsInverse
<1> QED BY <1>4, <1>5, <1>6, <1>7, <1>8 DEF HandleInv

(* A reply takes its sequence number and handle out of both maps. *)
LEMMA HandleForgotten ==
  ASSUME HandleInv, NEW s, Expected(s), forget(s), UNCHANGED curSeq
  PROVE  /\ DOMAIN seqnums' = DOMAIN seqnums \ {handles[s]}
         /\ handles[s] \in DOMAIN seqnums
         /\ SeqnumsUsed' /\ MapsInverse'
<1>1. /\ DOMAIN seqnums' = DOMAIN seqnums \ {handles[s]}
      /\ \A h \in DOMAIN seqnums' : seqnums'[h] = seqnums[h]
      /\ DOMAIN handles' = DOMAIN handles \ {s}
      /\ \A r \in DOMAIN handles' : handles'[r] = handles[r]
  BY DEF forget, Remove
<1>2. SeqnumsUsed'
  BY <1>1 DEF HandleInv, SeqnumsUsed
<1>3. s \in DOMAIN handles /\ handles[s] \in DOMAIN seqnums /\ seqnums[handles[s]] = s
  BY DEF Expected, HandleInv, MapsInverse
<1>4. MapsInverse'
  BY <1>1, <1>3 DEF HandleInv, MapsInverse
<1> QED BY <1>1, <1>2, <1>3, <1>4

LEMMA HandleReplied ==
  ASSUME HandleInv, QueuesOK, NEW s, Expected(s), forget(s), NEW t,
         tasks' = Append(tasks, t), t.h = handles[s],
         UNCHANGED <<work, curSeq, cur, port>>
  PROVE  HandleInv'
<1> USE DEF Asks, Returns
<1>1. /\ DOMAIN seqnums' = DOMAIN seqnums \ {t.h} /\ t.h \in DOMAIN seqnums
      /\ SeqnumsUsed' /\ MapsInverse'
  BY HandleForgotten
<1>2. \A j : Returns(j)' => \/ Returns(j) /\ tasks'[j].h = tasks[j].h
                            \/ /\ tasks'[j].h = t.h /\ t.h \in Handles
                               /\ j = Len(tasks) + 1
  BY ReturnsAdded DEF QueuesOK
<1>3. /\ \A i : Asks(i) => work[i].h # t.h
      /\ \A j : Returns(j) => tasks[j].h # t.h
      /\ port # "gone" /\ t.h \in Handles => t.h \in DOMAIN cur
  BY <1>1 DEF HandleInv, WorkNotSent, SentNotReturned, AllCurrent
<1>4. WorkDistinct' /\ WorkNotSent'
  BY <1>1 DEF HandleInv, WorkDistinct, WorkNotSent
<1>5. ReturnsDistinct' /\ SentNotReturned'
  BY <1>1, <1>2, <1>3 DEF HandleInv, ReturnsDistinct, SentNotReturned
<1>6. WorkNotReturned'
  BY <1>2, <1>3 DEF HandleInv, WorkNotReturned
<1>7. AllCurrent'
  BY <1>1, <1>2, <1>3 DEF HandleInv, AllCurrent
<1> QED BY <1>1, <1>4, <1>5, <1>6, <1>7 DEF HandleInv

LEMMA ResetReplied ==
  ASSUME HandleInv, QueuesOK, NEW s, Expected(s), forget(s), NEW w,
         work' = Append(work, w), w.op # "ProcessUrb", port # "gone",
         UNCHANGED <<tasks, curSeq, cur>>
  PROVE  HandleInv'
<1> USE DEF Asks, Returns
<1>1. /\ DOMAIN seqnums' = DOMAIN seqnums \ {handles[s]}
      /\ SeqnumsUsed' /\ MapsInverse'
  BY HandleForgotten
<1>2. \A i : Asks(i)' => Asks(i) /\ work'[i].h = work[i].h
  BY AsksAdded DEF QueuesOK
<1>3. WorkDistinct' /\ WorkNotSent' /\ WorkNotReturned' /\ AllCurrent'
  BY <1>1, <1>2 DEF HandleInv, WorkDistinct, WorkNotSent, WorkNotReturned, AllCurrent
<1>4. ReturnsDistinct' /\ SentNotReturned'
  BY <1>1 DEF HandleInv, ReturnsDistinct, SentNotReturned
<1> QED BY <1>1, <1>3, <1>4 DEF HandleInv

(* The blocking thread runs a giveback, or the disconnect. *)
LEMMA HandleReturned ==
  ASSUME HandleInv, QueuesOK, RunGiveback \/ RunDisconnect,
         UNCHANGED <<seqnums, handles, curSeq>>
  PROVE  HandleInv'
<1> USE DEF Asks, Returns
<1>1. tasks # <<>> /\ tasks' = Tail(tasks) /\ UNCHANGED work
  BY DEF RunGiveback, RunDisconnect
<1>2. \A j : Returns(j)' => /\ j \in Nat /\ j + 1 # 1
                            /\ Returns(j + 1) /\ tasks'[j].h = tasks[j + 1].h
  BY <1>1, ReturnsTaken DEF QueuesOK
<1>3. WorkDistinct' /\ WorkNotSent' /\ SeqnumsUsed' /\ MapsInverse'
  BY <1>1 DEF HandleInv, WorkDistinct, WorkNotSent, SeqnumsUsed, MapsInverse
<1>4. ReturnsDistinct' /\ SentNotReturned' /\ WorkNotReturned'
  BY <1>1, <1>2 DEF HandleInv, ReturnsDistinct, SentNotReturned, WorkNotReturned
<1>5. AllCurrent'
  <2>1. CASE RunDisconnect
    BY <2>1 DEF RunDisconnect, AllCurrent
  <2>2. CASE RunGiveback /\ Head(tasks).h \notin DOMAIN cur
    BY <1>1, <1>2, <2>2 DEF RunGiveback, HandleInv, AllCurrent
  <2>3. CASE RunGiveback /\ Head(tasks).h \in DOMAIN cur
    <3> DEFINE g == Head(tasks).h
    <3>1. Returns(1) /\ tasks[1].h = g
      BY <1>1, <2>3, Taken DEF RunGiveback, QueuesOK
    <3>2. DOMAIN cur' = DOMAIN cur \ {g} /\ UNCHANGED port
      BY <2>3 DEF RunGiveback, Remove
    <3>3. /\ \A i : Asks(i) => work[i].h # g
          /\ g \notin DOMAIN seqnums
          /\ \A j : Returns(j)' => tasks'[j].h # g
      BY <1>2, <3>1 DEF HandleInv, WorkNotReturned, SentNotReturned, ReturnsDistinct
    <3> QED BY <1>1, <1>2, <3>2, <3>3 DEF HandleInv, AllCurrent
  <2> QED BY <2>1, <2>2, <2>3
<1> QED BY <1>3, <1>4, <1>5 DEF HandleInv

LEMMA DisconnectQueued ==
  ASSUME HandleInv, QueuesOK, tasks' = Append(tasks, Disconnect),
         UNCHANGED <<work, seqnums, handles, curSeq, cur, port>>
  PROVE  HandleInv'
<1> USE DEF Asks, Returns
<1>1. \A j : Returns(j)' => Returns(j) /\ tasks'[j].h = tasks[j].h
  BY ReturnsAdded DEF QueuesOK, Disconnect
<1>2. WorkDistinct' /\ WorkNotSent' /\ SeqnumsUsed' /\ MapsInverse'
  BY DEF HandleInv, WorkDistinct, WorkNotSent, SeqnumsUsed, MapsInverse
<1>3. ReturnsDistinct' /\ SentNotReturned' /\ WorkNotReturned' /\ AllCurrent'
  BY <1>1 DEF HandleInv, ReturnsDistinct, SentNotReturned, WorkNotReturned, AllCurrent
<1> QED BY <1>2, <1>3 DEF HandleInv

LEMMA HandlesBorrowSend ==
  ASSUME HandleInv, QueuesOK, BorrowSend \/ StreamStopped
  PROVE  HandleInv'
<1>1. CASE port_stat
  <2>1. work # <<>> /\ work' = Tail(work) /\ UNCHANGED <<tasks, cur, port>>
    BY <1>1 DEF port_stat, TakeWork
  <2>2. CASE UNCHANGED <<seqnums, handles, curSeq>>
    BY <2>1, <2>2, WorkDropped
  <2>3. CASE \E h \in ResetHandles \ DOMAIN seqnums : nextSeqnum(h, 0)
    <3>1. PICK h \in ResetHandles \ DOMAIN seqnums : nextSeqnum(h, 0)
      BY <2>3
    <3>2. h \notin Handles
      BY VhciAssumption
    <3> QED BY <2>1, <3>1, <3>2, HandleSent
  <2> QED BY <1>1, <2>2, <2>3 DEF port_stat
<1>2. CASE set_address
  <2> DEFINE g == Giveback(Head(work).h, Head(work).u, "Success")
  <2>1. /\ work # <<>> /\ work' = Tail(work) /\ tasks' = Append(tasks, g)
        /\ Head(work).op = "ProcessUrb" /\ UNCHANGED <<seqnums, handles, curSeq, cur, port>>
    BY <1>2 DEF set_address, TakeWork
  <2>2. Asks(1) /\ g.h = work[1].h
    BY <2>1, Taken DEF Asks, QueuesOK, Giveback
  <2> QED BY <2>1, <2>2, HandleAnswered
<1>3. CASE process_urb
  <2> DEFINE w == Head(work)
  <2>1. /\ work # <<>> /\ work' = Tail(work) /\ w.op = "ProcessUrb"
        /\ nextSeqnum(w.h, w.u) /\ UNCHANGED <<tasks, cur, port>>
    BY <1>3 DEF process_urb, TakeWork
  <2>2. Asks(1) /\ work[1].h = w.h
    BY <2>1, Taken DEF Asks, QueuesOK
  <2> QED BY <2>1, <2>2, HandleSent
<1>4. CASE cancel_urb
  BY <1>4, WorkDropped DEF cancel_urb, TakeWork
<1> QED
  BY <1>1, <1>2, <1>3, <1>4, HandlesKept DEF BorrowSend, StreamStopped, FlushBuf, WriteFrame,
     FlushComplete, EndSendLoop, sendUnchanged, vhciVars

LEMMA HandlesBorrowRecv ==
  ASSUME HandleInv, QueuesOK, OrderInv, BorrowRecv
  PROVE  HandleInv'
<1>1. CASE urb_reply
  <2> DEFINE g == Giveback(handles[Reply.seq], urbOf[Reply.seq], Reply.res)
  <2>1. /\ Expected(Reply.seq) /\ forget(Reply.seq) /\ tasks' = Append(tasks, g)
        /\ UNCHANGED <<work, curSeq, cur, port>>
    BY <1>1 DEF urb_reply, recvUnchanged
  <2>2. g.h = handles[Reply.seq]
    BY DEF Giveback
  <2> QED BY <2>1, <2>2, HandleReplied
<1>2. CASE device_reset
  <2>1. /\ Expected(Reply.seq) /\ forget(Reply.seq)
        /\ work' = Append(work, PortStat(ResetDone))
        /\ UNCHANGED <<tasks, curSeq, cur>>
    BY <1>2 DEF device_reset, recvUnchanged, PortResetDone
  <2>2. PortStat(ResetDone).op # "ProcessUrb"
    BY DEF PortStat
  <2>3. port # "gone"
    BY <1>2 DEF device_reset, CanRead, OrderInv, Unplugging
  <2> QED BY <2>1, <2>2, <2>3, ResetReplied
<1> QED
  BY <1>1, <1>2, HandlesKept DEF BorrowRecv, RecvPanic, EndRecvLoop, DrainRead, DrainEnd,
     recvUnchanged, vhciVars

LEMMA HandlesStep == TypeInv /\ OrderInv /\ HandleInv /\ [Next]_vars => HandleInv'
<1> SUFFICES ASSUME TypeInv, OrderInv, HandleInv, [Next]_vars PROVE HandleInv'
  OBVIOUS
<1>1. QueuesOK
  BY BorrowAssumption DEF TypeInv, TypeOK, VhciTypeOK, BorrowTypeOK, IsMap, Seqnum, QueuesOK
<1>2. CASE Guest /\ UNCHANGED borrowVars
  <2>0. UNCHANGED <<seqnums, handles, curSeq>>
    BY <1>2 DEF borrowVars
  <2>1. ASSUME NEW h \in Handles, NEW shape \in Shapes, Submit(h, shape) PROVE HandleInv'
    BY <1>1, <2>0, <2>1, HandleSubmitted
  <2>2. ASSUME NEW h \in Handles, Unlink(h) PROVE HandleInv'
    <3>1. work' = Append(work, CancelUrb(h)) /\ UNCHANGED <<tasks, cur, port>>
      BY <2>2 DEF Unlink
    <3> QED BY <1>1, <2>0, <3>1, NoticeAdded DEF CancelUrb
  <2>3. CASE ResetPort
    <3>1. /\ work' = Append(work, PortStat(Resetting)) /\ UNCHANGED <<tasks, cur>>
          /\ port # "gone"
      BY <2>3 DEF ResetPort
    <3> QED BY <1>1, <2>0, <3>1, NoticeAdded DEF PortStat
  <2> QED BY <1>2, <2>1, <2>2, <2>3 DEF Guest
<1>3. CASE BorrowMain \/ CancelBorrow
  <2>1. CASE SendJoined
    BY <1>1, <2>1, DisconnectQueued DEF SendJoined, mainUnchanged
  <2> QED
    BY <1>3, <2>1, HandlesKept DEF BorrowMain, RecvJoined, RecvJoinPanic, Disconnected,
       CancelBorrow, mainUnchanged
<1>4. CASE BlockingThread
  BY <1>1, <1>4, HandleReturned DEF BlockingThread, borrowVars
<1>5. CASE UNCHANGED <<vhciVars, borrowVars>>
  BY <1>5, HandlesKept DEF vhciVars, borrowVars
<1> QED
  BY <1>1, <1>2, <1>3, <1>4, <1>5, HandlesBorrowSend, HandlesBorrowRecv
     DEF Next, Borrower, Lender, vars

LEMMA InitHandles == Init => HandleInv
BY EmptyIsMap DEF Init, VhciInit, BorrowInit, PortStat, HandleInv, WorkDistinct,
   ReturnsDistinct, WorkNotSent, WorkNotReturned, SentNotReturned, AllCurrent,
   SeqnumsUsed, MapsInverse, Asks, Returns

(* HandleSeqnumLinker's two maps stay inverse, for any number of URBs in
   flight and any reuse of their handles. *)
THEOREM MapsStayInverse == Spec => []MapsInverse
<1>1. Init => TypeInv /\ OrderInv /\ HandleInv
  BY InitType, InitOrder, InitHandles
<1>2. TypeInv /\ OrderInv /\ HandleInv /\ [Next]_vars
        => (TypeInv /\ OrderInv /\ HandleInv)'
  BY NextType, OrderStep, HandlesStep
<1>3. HandleInv => MapsInverse
  BY DEF HandleInv
<1> QED BY <1>1, <1>2, <1>3, PTL DEF Spec
=============================================================================
