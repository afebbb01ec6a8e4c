--------------------------------- MODULE Wire ---------------------------------
(***************************************************************************)
(* A session's two byte streams between the peers: frames are written one  *)
(* after the other, the network hands over any number of bytes at a time,  *)
(* and recv_frame cuts the frames out of a Ring again.  The handshake      *)
(* message that opens each direction is read through the same Ring.        *)
(*                                                                         *)
(* "cmd" runs from the borrower to the lender, "ret" the other way.        *)
(* Either side may be the one that asks (the client).                      *)
(***************************************************************************)
EXTENDS Frames, Sequences

CONSTANTS Urbs,        \* the URBs a guest may submit
          Moves,       \* how many bytes a device may move, if the URB has room
          Chunks,      \* how few bytes a read may return ...
          MaxShort,    \* bound: ... this often
          MaxUrb,      \* bound: URBs
          MaxBare,     \* bound: frames that are a bare header
          Cuts         \* how many bytes of the last frame a dying writer may keep back

ASSUME WireAssumption ==
  /\ Urbs \subseteq Urb /\ Moves \subseteq Nat
  /\ Chunks \subseteq Nat \ {0} /\ Cuts \subseteq Nat
  /\ MaxShort \in Nat /\ MaxUrb \in Nat /\ MaxBare \in Nat

Dirs == {"cmd", "ret"}
Back(d) == IF d = "cmd" THEN "ret" ELSE "cmd"

VARIABLES
  asker,          \* the direction the client writes to
  wrote, fin,     \* bytes written, writer closed
  queue,          \* the frames of which the reader still has bytes to take
  pos, len, cap,  \* the Ring: offset of its first byte, its length and capacity
  need,           \* min_len of recv_frame
  rx,             \* where the reader is
  shorts, bares,
  asked,          \* the URBs, by seqnum
  lent,           \* seqnum -> what the lender made of the request
  moved,          \* seqnum -> the bytes the device moved, once it completed
  back            \* seqnum -> what the borrower made of the reply

ringVars == <<pos, len, cap, need, rx, shorts>>
urbVars == <<asked, lent, moved, back>>
wireVars == <<asker, wrote, fin, queue, ringVars, bares, urbVars>>

(* A frame lies at an offset of the stream; total is its total_frame_len. *)
Frame(what, seq, at, bytes, header) ==
  [what |-> what, seq |-> seq, at |-> at, bytes |-> bytes,
   total |-> compress_frame_len(bytes), header |-> header]
NoHeader == [kind |-> "none"]

Extra == 16384          \* what fill_until reserves
(* accept_stream starts with 32 bytes, req_borrow and req_lend with 1024. *)
with_capacity(d, a) == IF d = a THEN 32 ELSE 1024

WireInit ==
  /\ asker \in Dirs
  /\ wrote = [d \in Dirs |-> IF d = asker THEN HeaderLen ELSE 0]
  /\ queue = [d \in Dirs |-> IF d = asker THEN <<Frame("hello", 0, 0, HeaderLen, NoHeader)>>
                                          ELSE <<>>]
  /\ fin = [d \in Dirs |-> FALSE]
  /\ pos = [d \in Dirs |-> 0] /\ len = [d \in Dirs |-> 0]
  /\ cap = [d \in Dirs |-> with_capacity(d, asker)]
  /\ need = [d \in Dirs |-> HeaderLen]
  /\ rx = [d \in Dirs |-> "hello"]
  /\ shorts = 0 /\ bares = 0
  /\ asked = <<>> /\ lent = <<>> /\ moved = <<>> /\ back = <<>>

Note(f, s, v) == [t \in DOMAIN f \cup {s} |-> IF t = s THEN v ELSE f[t]]
Max(m, n) == IF m < n THEN n ELSE m
Put(d, what, seq, bytes, header) ==
  /\ queue' = [queue EXCEPT ![d] = Append(@, Frame(what, seq, wrote[d], bytes, header))]
  /\ wrote' = [wrote EXCEPT ![d] = @ + bytes]

-----------------------------------------------------------------------------
(* The writers.  A side is in session once it has read its handshake message. *)
Open(d) == rx[d] \notin {"hello", "helloPanic"}

SendUrb(u) ==
  /\ Open("ret") /\ ~fin["cmd"] /\ Len(asked) < MaxUrb
  /\ asked' = Append(asked, u)
  /\ Put("cmd", "urb", Len(asked) + 1, request_bytes(u), request_header(u))
  /\ UNCHANGED <<asker, fin, ringVars, bares, lent, moved, back>>

(* CmdUnlink, CmdPort and RetPort frames. *)
SendBare(d) ==
  /\ Open(Back(d)) /\ ~fin[d] /\ bares < MaxBare
  /\ bares' = bares + 1
  /\ Put(d, "bare", 0, HeaderLen, NoHeader)
  /\ UNCHANGED <<asker, fin, ringVars, urbVars>>

Completed(s, n) ==
  /\ s \in DOMAIN lent \ DOMAIN moved /\ lent[s].ok /\ n <= lent[s].len /\ ~fin["ret"]
  /\ moved' = Note(moved, s, n)
  /\ LET h == request_header(asked[s])
     IN Put("ret", "urb", s, reply_bytes(h, n), reply_header(h, n))
  /\ UNCHANGED <<asker, fin, ringVars, bares, asked, lent, back>>

(* The writer goes away; its last write may not have been completed. *)
Close(d, k) ==
  /\ ~fin[d]
  /\ fin' = [fin EXCEPT ![d] = TRUE]
  /\ LET last == queue[d][Len(queue[d])]
     IN k # 0 => /\ queue[d] # <<>> /\ k < last.bytes
                 /\ pos[d] + len[d] <= wrote[d] - k
  /\ wrote' = [wrote EXCEPT ![d] = @ - k]
  /\ UNCHANGED <<asker, queue, ringVars, bares, urbVars>>

-----------------------------------------------------------------------------
(* Ring::fill_until: reads until there are enough bytes.  A read gets what is
   there, or a part of it, and no more than the Ring has room for; it returns
   0 at the end of the stream, and would do so without room. *)
Reading(d) == rx[d] \in {"hello", "run"} /\ need[d] > len[d]
roomFor_Fixed(d) == cap[d]
roomFor(d) ==
  IF cap[d] < len[d] + need[d] THEN Max(cap[d], len[d] + Extra) ELSE cap[d]
available(d) == wrote[d] - pos[d] - len[d]
readable(d) == shorter(available(d), roomFor(d) - len[d])

Read(d, k) ==
  /\ Reading(d) /\ readable(d) > 0
  /\ k = readable(d) \/ (k < readable(d) /\ shorts < MaxShort)
  /\ len' = [len EXCEPT ![d] = @ + k]
  /\ cap' = [cap EXCEPT ![d] = roomFor(d)]
  /\ shorts' = IF k = readable(d) THEN shorts ELSE shorts + 1
  /\ UNCHANGED <<asker, wrote, fin, queue, pos, need, rx, bares, urbVars>>

(* The handshake takes the end of the stream for impossible; recv_frame takes
   it for a proper end, whatever is left in the Ring. *)
ReadEnd(d) ==
  /\ Reading(d)
  /\ (available(d) = 0 /\ fin[d]) \/ roomFor(d) = len[d]
  /\ rx' = [rx EXCEPT ![d] = IF @ = "hello" THEN "helloPanic" ELSE "eof"]
  /\ cap' = [cap EXCEPT ![d] = roomFor(d)]
  /\ UNCHANGED <<asker, wrote, fin, queue, pos, len, need, shorts, bares, urbVars>>

(* The bytes are taken out of the Ring, at the front. *)
Take(d, n) ==
  /\ pos' = [pos EXCEPT ![d] = @ + n]
  /\ len' = [len EXCEPT ![d] = @ - n]
  /\ queue' = [queue EXCEPT ![d] = Tail(@)]

(* The handshake message is read; the Ring goes on to the session with what it
   holds beyond it.  The server answers; a borrower reserves more room. *)
handOver_NewRing(d) == 32
handOver(d) == IF d = "ret" THEN Max(cap[d] - HeaderLen, len[d] - HeaderLen + 8192)
                            ELSE cap[d] - HeaderLen
ReadHello(d) ==
  /\ rx[d] = "hello" /\ need[d] <= len[d]
  /\ pos' = [pos EXCEPT ![d] = @ + HeaderLen]
  /\ len' = [len EXCEPT ![d] = @ - HeaderLen]
  /\ cap' = [cap EXCEPT ![d] = handOver(d)]
  /\ need' = [need EXCEPT ![d] = HeaderLen]
  /\ rx' = [rx EXCEPT ![d] = "run"]
  /\ IF d = asker /\ ~fin[Back(d)]
     THEN /\ queue' = [queue EXCEPT ![d] = Tail(@), ![Back(d)] = Append(@,
                         Frame("hello", 0, wrote[Back(d)], HeaderLen, NoHeader))]
          /\ wrote' = [wrote EXCEPT ![Back(d)] = @ + HeaderLen]
     ELSE queue' = [queue EXCEPT ![d] = Tail(@)] /\ UNCHANGED wrote
  /\ UNCHANGED <<asker, fin, shorts, bares, urbVars>>

(* recv_frame and Ring::claim_dst: a frame that is not all there yet says how
   many bytes are missing; of a whole one, its handler gets the bytes the
   header announced.  When that is not where the frame ends, the bytes that
   follow are no header, and nothing is known of what comes next. *)
Ready(d) == rx[d] = "run" /\ need[d] <= len[d]
announced(d) == get_slice_len(Head(queue[d]).total)

min_len_Missing(d) == announced(d) - len[d]
min_len(d) == len[d] + (announced(d) - len[d])
ClaimShort(d) ==
  /\ Ready(d) /\ announced(d) > len[d]
  /\ need' = [need EXCEPT ![d] = min_len(d)]
  /\ UNCHANGED <<asker, wrote, fin, queue, pos, len, cap, rx, shorts, bares, urbVars>>

ClaimFrame(d) ==
  /\ Ready(d) /\ announced(d) <= len[d] /\ announced(d) = Head(queue[d]).bytes
  /\ Take(d, announced(d))
  /\ cap' = [cap EXCEPT ![d] = @ - announced(d)]
  /\ need' = [need EXCEPT ![d] = HeaderLen]
  /\ LET f == Head(queue[d])
         urb == f.what = "urb"
         view == IF d = "cmd" THEN lend_view(f.header, f.bytes)
                              ELSE urb_reply(f.header, f.bytes)
     IN /\ lent' = IF urb /\ d = "cmd" THEN Note(lent, f.seq, view) ELSE lent
        /\ back' = IF urb /\ d = "ret" THEN Note(back, f.seq, view) ELSE back
        /\ rx' = [rx EXCEPT ![d] = IF urb /\ ~view.ok THEN "panic" ELSE @]
  /\ UNCHANGED <<asker, wrote, fin, shorts, bares, asked, moved>>

ClaimWrong(d) ==
  /\ Ready(d) /\ announced(d) <= len[d] /\ announced(d) # Head(queue[d]).bytes
  /\ rx' = [rx EXCEPT ![d] = "garbage"]
  /\ UNCHANGED <<asker, wrote, fin, queue, pos, len, cap, need, shorts, bares, urbVars>>

-----------------------------------------------------------------------------
Receiver(d) == \/ \E k \in Chunks \cup {readable(d)} : Read(d, k)
               \/ ReadEnd(d) \/ ReadHello(d)
               \/ ClaimShort(d) \/ ClaimFrame(d) \/ ClaimWrong(d)
Writers == \/ \E u \in Urbs : SendUrb(u)
           \/ \E s \in DOMAIN lent, n \in Moves : Completed(s, n)
           \/ \E d \in Dirs : SendBare(d)
           \/ \E d \in Dirs, k \in {0} \cup Cuts : Close(d, k)

WireNext == Writers \/ \E d \in Dirs : Receiver(d)

(* Both runtimes keep polling their receive loops. *)
WireSpec == /\ WireInit /\ [][WireNext]_wireVars
            /\ \A d \in Dirs : WF_wireVars(Receiver(d))

-----------------------------------------------------------------------------
(* Every variable keeps its type, and no Ring holds more than its capacity. *)
WireTypeOK ==
  /\ asker \in Dirs
  /\ wrote \in [Dirs -> Nat] /\ fin \in [Dirs -> BOOLEAN]
  /\ \A d \in Dirs : \A i \in DOMAIN queue[d] :
       /\ queue[d][i].what \in {"hello", "urb", "bare"} /\ queue[d][i].seq \in 0..MaxUrb
       /\ queue[d][i].at \in Nat /\ queue[d][i].bytes \in Nat
       /\ queue[d][i].what = "urb" => queue[d][i].header \in UrbHeader
  /\ pos \in [Dirs -> Nat] /\ len \in [Dirs -> Nat] /\ cap \in [Dirs -> Nat]
  /\ need \in [Dirs -> Nat] /\ \A d \in Dirs : len[d] <= cap[d]
  /\ rx \in [Dirs -> {"hello", "run", "helloPanic", "eof", "garbage", "panic"}]
  /\ asked \in Seq(Urbs) /\ Len(asked) <= MaxUrb
  /\ DOMAIN moved \subseteq DOMAIN lent /\ DOMAIN back \subseteq DOMAIN moved

(* A frame is cut out of the stream exactly where it was put in, however the
   network cut the stream and whatever the handshake read ahead, unless it is
   one whose length does not survive 16 bits. *)
CutWhole ==
  \A d \in Dirs : /\ rx[d] = "garbage" => Head(queue[d]).bytes >= 65536
                  /\ queue[d] # <<>> => Head(queue[d]).at = pos[d]

(* recv_frame reports the end of the stream only when the writer is gone and
   every frame it finished has been handed on. *)
EofIsReal ==
  \A d \in Dirs : rx[d] = "eof" =>
    /\ fin[d] /\ pos[d] + len[d] = wrote[d]
    /\ queue[d] # <<>> => queue[d][1].at + queue[d][1].bytes > wrote[d]

(* Whoever reads a URB's header alone knows how long the frame is. *)
LengthFromHeader ==
  \A d \in Dirs : \A i \in DOMAIN queue[d] :
    LET f == queue[d][i]
    IN f.what = "urb" /\ f.bytes < 65536 => f.bytes = Headers + required_byte_len(f.header)

(* The transfer that is submitted has the length and the packets of the
   guest's URB, and what the guest gets back has the length the device moved
   (rounded up for isochronous transfers) and a status for every packet. *)
RoundTrip ==
  /\ \A s \in DOMAIN lent : lent[s].ok =>
       lent[s].len = asked[s].len /\ lent[s].iso = asked[s].pkts * PktLen
  /\ \A s \in DOMAIN back :
       /\ back[s].ok /\ back[s].iso = asked[s].pkts * PktLen
       /\ back[s].len = result_len(request_header(asked[s]), moved[s])

(* Frames that are written to their end do not stay unread: each reaches its
   handler unless the receiver has stopped, however the bytes arrive. *)
Unread(d) == queue[d] # <<>> /\ Head(queue[d]).at + Head(queue[d]).bytes <= wrote[d]
Delivered ==
  \A d \in Dirs : Unread(d) ~> (~Unread(d) \/ rx[d] \in {"garbage", "panic", "helloPanic"})
=============================================================================
