------------------------------ MODULE WireProofs ------------------------------
(***************************************************************************)
(* The byte streams of a session for every set of URBs, every way the      *)
(* network cuts them and every size of the Rings: where frames are cut,    *)
(* when the end is reported, and that the lengths survive the round trip.  *)
(***************************************************************************)
EXTENDS Wire, TLAPS

(* Frames. *)

(* compress_frame_len and QusbFrame::get_slice_len are inverse to each other
   as long as the length fits in 16 bits, and never announce too much. *)
LEMMA Announced ==
  ASSUME NEW n \in Nat, n % 8 = 0
  PROVE  /\ get_slice_len(compress_frame_len(n)) \in Nat
         /\ get_slice_len(compress_frame_len(n)) <= n
         /\ n < 65536 => get_slice_len(compress_frame_len(n)) = n
         /\ get_slice_len(compress_frame_len(n)) = n => n < 65536
BY DEF get_slice_len, compress_frame_len, u16

LEMMA Cut16 ==
  \A n \in Nat : /\ u16(n) \in Nat /\ u16(n) < 65536
                 /\ n < 65536 => u16(n) = n
BY DEF u16

LEMMA Aligned ==
  \A n \in Nat : /\ align(n) \in Nat /\ align(n) % 8 = 0
                 /\ n <= align(n) /\ align(n) < n + 8
                 /\ padding(n) \in Nat /\ n + padding(n) = align(n)
BY DEF align, padding

LEMMA PaddedTransfer ==
  \A n \in Nat : n + padding(u16(n)) \in Nat /\ (n + padding(u16(n))) % 8 = 0
BY DEF align, padding, u16

(* What process_urb writes is a whole number of words, and the header says how
   many. *)
LEMMA RequestLength ==
  ASSUME NEW u \in Urb
  PROVE  /\ request_header(u) \in UrbHeader
         /\ request_bytes(u) \in Nat /\ request_bytes(u) % 8 = 0
         /\ request_bytes(u) >= Headers
         /\ request_bytes(u) = Headers + required_byte_len(request_header(u))
<1>1. u.len \in Nat /\ u.pkts \in Nat /\ u.out \in BOOLEAN /\ u.kind \in Kinds
  BY DEF Urb
<1>2. u16(u.len) \in Nat /\ u16(u.pkts) \in Nat
  BY <1>1, Cut16
<1>3. request_header(u) \in UrbHeader
  BY <1>1, <1>2 DEF request_header, UrbHeader
<1>4. align(u16(u.len)) \in Nat /\ align(u16(u.len)) % 8 = 0
  BY <1>2, Aligned
<1>5. /\ request_bytes(u) = Headers + (IF u.out THEN align(u16(u.len)) ELSE 0) + u16(u.pkts) * 8
      /\ required_byte_len(request_header(u)) = (IF u.out THEN align(u16(u.len)) ELSE 0) + u16(u.pkts) * 8
  BY <1>1, <1>2, <1>4 DEF request_bytes, request_header, required_byte_len, has_transfer,
              padded_transfer_len, iso_byte_len, PktLen
<1>6. /\ request_bytes(u) \in Nat /\ request_bytes(u) % 8 = 0 /\ request_bytes(u) >= Headers
      /\ request_bytes(u) = Headers + required_byte_len(request_header(u))
  BY <1>1, <1>2, <1>4, <1>5 DEF Headers, HeaderLen, UrbHeaderLen
<1> QED BY <1>3, <1>6

(* The same for the four handlers that write a reply; the header is right as
   long as the frame's length fits in 16 bits. *)
LEMMA ReplyLength ==
  ASSUME NEW h \in UrbHeader, NEW n \in Nat
  PROVE  /\ reply_header(h, n) \in UrbHeader
         /\ reply_bytes(h, n) \in Nat /\ reply_bytes(h, n) % 8 = 0
         /\ reply_bytes(h, n) >= Headers
         /\ reply_bytes(h, n) < 65536 =>
              reply_bytes(h, n) = Headers + required_byte_len(reply_header(h, n))
<1> DEFINE r == result_len(h, n)
           k == IF h.kind = "iso" THEN h.pkts ELSE 0
<1>1. h.alen \in Nat /\ h.pkts \in Nat /\ h.out \in BOOLEAN /\ h.kind \in Kinds
  BY DEF UrbHeader
<1>2. r \in Nat
  BY <1>1, Aligned DEF result_len, padded_transfer_len
<1>3. k \in Nat /\ k * 8 \in Nat /\ (k * 8) % 8 = 0
  BY <1>1
<1>4. reply_header(h, n) = [kind |-> h.kind, out |-> h.out, reply |-> TRUE,
                            alen |-> u16(r), pkts |-> k]
  BY DEF reply_header
<1>5. reply_header(h, n) \in UrbHeader
  BY <1>1, <1>2, <1>3, <1>4, Cut16 DEF UrbHeader
<1>6. reply_bytes(h, n) = Headers + (IF h.out THEN 0 ELSE r + padding(u16(r))) + k * 8
  BY <1>1, <1>2, PaddedTransfer DEF reply_bytes, iso_byte_len, PktLen, Headers, HeaderLen, UrbHeaderLen
<1>7. /\ r + padding(u16(r)) \in Nat /\ (r + padding(u16(r))) % 8 = 0
      /\ r < 65536 => r + padding(u16(r)) = align(u16(r))
  <2> HIDE DEF r
  <2>1. u16(r) \in Nat /\ (r < 65536 => u16(r) = r)
    BY <1>2, Cut16
  <2>2. r + padding(u16(r)) \in Nat /\ (r + padding(u16(r))) % 8 = 0
    BY <1>2, PaddedTransfer
  <2>3. u16(r) + padding(u16(r)) = align(u16(r))
    BY <2>1, Aligned
  <2> QED BY <2>1, <2>2, <2>3
<1>8. reply_bytes(h, n) \in Nat /\ reply_bytes(h, n) % 8 = 0 /\ reply_bytes(h, n) >= Headers
  <2> HIDE DEF r, k
  <2> QED BY <1>1, <1>3, <1>6, <1>7 DEF Headers, HeaderLen, UrbHeaderLen
<1>9. required_byte_len(reply_header(h, n)) = (IF h.out THEN 0 ELSE align(u16(r))) + k * 8
  <2> HIDE DEF r, k
  <2> QED BY <1>1, <1>4 DEF required_byte_len, has_transfer, padded_transfer_len, iso_byte_len, PktLen
<1>10. ASSUME reply_bytes(h, n) < 65536
       PROVE  reply_bytes(h, n) = Headers + required_byte_len(reply_header(h, n))
  <2> HIDE DEF r, k
  <2>1. CASE h.out
    BY <1>3, <1>6, <1>9, <2>1 DEF Headers, HeaderLen, UrbHeaderLen
  <2>2. CASE ~h.out
    <3>1. padding(u16(r)) \in Nat
      BY <1>2, Cut16, Aligned
    <3>2. r < 65536
      BY <1>2, <1>3, <1>6, <1>10, <2>2, <3>1 DEF Headers, HeaderLen, UrbHeaderLen
    <3> QED BY <1>2, <1>3, <1>6, <1>7, <1>9, <2>2, <3>1, <3>2
            DEF Headers, HeaderLen, UrbHeaderLen
  <2> QED BY <2>1, <2>2
<1> QED BY <1>5, <1>8, <1>10

-----------------------------------------------------------------------------
(* One direction: q are the frames, w the bytes written, f whether the writer
   is gone, p and l the offset and length of the Ring, n the bytes asked for
   and r where the reader is. *)
RxStates == {"hello", "run", "helloPanic", "eof", "garbage", "panic"}
AnyFrame == [what : {"hello", "urb", "bare"}, seq : Nat, at : Nat, bytes : Nat,
             total : Nat, header : UrbHeader \cup {NoHeader}]
FrameOK(g) ==
  /\ g.bytes % 8 = 0 /\ g.bytes >= 8 /\ g.seq <= MaxUrb
  /\ g.total = compress_frame_len(g.bytes)
  /\ g.what = "urb" => /\ g.header \in UrbHeader
                       /\ g.bytes < 65536 => g.bytes = Headers + required_byte_len(g.header)
End(q, p) == IF q = <<>> THEN p ELSE q[Len(q)].at + q[Len(q)].bytes

DirTypes(q, w, f, p, l, n, r) ==
  /\ q \in Seq(AnyFrame) /\ w \in Nat /\ f \in BOOLEAN
  /\ p \in Nat /\ l \in Nat /\ n \in Nat /\ r \in RxStates
QueueOK(q, p) ==
  /\ \A i \in 1..Len(q) : FrameOK(q[i])
  /\ \A i \in 1..Len(q) : i + 1 <= Len(q) => q[i + 1].at = q[i].at + q[i].bytes
  /\ q # <<>> => q[1].at = p
RingOK(q, w, f, p, l, n) ==
  /\ p + l <= w /\ w <= End(q, p)
  /\ ~f => w = End(q, p)
  /\ n >= 8 /\ n <= IF q = <<>> THEN 8 ELSE q[1].bytes
ReaderOK(q, w, f, p, l, r) ==
  /\ r = "garbage" => q # <<>> /\ q[1].bytes >= 65536
  /\ r = "eof" => /\ f /\ p + l = w
                  /\ q # <<>> => q[1].at + q[1].bytes > w
  /\ r = "hello" /\ q # <<>> => q[1].bytes = 8
DirOK(q, w, f, p, l, n, r) ==
  /\ DirTypes(q, w, f, p, l, n, r) /\ QueueOK(q, p)
  /\ RingOK(q, w, f, p, l, n) /\ ReaderOK(q, w, f, p, l, r)

LEMMA FrameFields == \A g \in AnyFrame : g.at \in Nat /\ g.bytes \in Nat /\ g.seq \in Nat
BY DEF AnyFrame

(* Frame makes a frame that is in order. *)
LEMMA FrameMade ==
  ASSUME NEW what \in {"hello", "urb", "bare"}, NEW s \in 0..MaxUrb, NEW w \in Nat,
         NEW b \in Nat, b % 8 = 0, b >= 8,
         NEW h \in UrbHeader \cup {NoHeader},
         what = "urb" => h \in UrbHeader /\ (b < 65536 => b = Headers + required_byte_len(h))
  PROVE  /\ Frame(what, s, w, b, h) \in AnyFrame /\ FrameOK(Frame(what, s, w, b, h))
         /\ Frame(what, s, w, b, h).at = w /\ Frame(what, s, w, b, h).bytes = b
<1>1. compress_frame_len(b) \in Nat
  BY DEF compress_frame_len, u16
<1>2. s \in Nat /\ s <= MaxUrb
  BY WireAssumption
<1> QED BY <1>1, <1>2 DEF Frame, AnyFrame, FrameOK

(* A frame is put at the end. *)
LEMMA DirAppend ==
  ASSUME NEW q, NEW w, NEW f, NEW p, NEW l, NEW n, NEW r,
         DirOK(q, w, f, p, l, n, r), ~f,
         NEW g \in AnyFrame, FrameOK(g), g.at = w,
         r = "hello" /\ q = <<>> => g.bytes = 8
  PROVE  DirOK(Append(q, g), w + g.bytes, f, p, l, n, r)
<1> USE DEF DirOK
<1> DEFINE q2 == Append(q, g)
<1>1. q \in Seq(AnyFrame) /\ w \in Nat /\ p \in Nat /\ l \in Nat /\ n \in Nat /\ g.bytes \in Nat
      /\ g.at \in Nat /\ Len(q) \in Nat
  BY DEF DirTypes, AnyFrame
<1>2. /\ q2 \in Seq(AnyFrame) /\ Len(q2) = Len(q) + 1 /\ q2 # <<>>
      /\ q2[Len(q) + 1] = g /\ \A i \in 1..Len(q) : q2[i] = q[i]
  BY <1>1
<1>3. IF q = <<>> THEN q2[1] = g /\ Len(q) = 0 ELSE q2[1] = q[1] /\ Len(q) >= 1
  BY <1>1, <1>2
<1>4. \A i \in 1..Len(q) : q[i] \in AnyFrame /\ q[i].at \in Nat /\ q[i].bytes \in Nat
  BY <1>1, FrameFields
<1> HIDE DEF q2
<1>5. DirTypes(q2, w + g.bytes, f, p, l, n, r)
  BY <1>1, <1>2 DEF DirTypes
<1>6. w = End(q, p)
  BY DEF RingOK
<1>7. QueueOK(q2, p)
  <2>1. \A i \in 1..Len(q2) : FrameOK(q2[i])
    BY <1>1, <1>2 DEF QueueOK
  <2>2. ASSUME NEW i \in 1..Len(q2), i + 1 <= Len(q2)
        PROVE  q2[i + 1].at = q2[i].at + q2[i].bytes
    <3>1. CASE i + 1 <= Len(q)
      BY <1>1, <1>2, <2>2, <3>1 DEF QueueOK
    <3>2. CASE i = Len(q)
      BY <1>1, <1>2, <1>3, <1>6, <2>2, <3>2 DEF End
    <3> QED BY <1>1, <1>2, <2>2, <3>1, <3>2
  <2>3. q2[1].at = p
    BY <1>1, <1>2, <1>3, <1>6 DEF QueueOK, End
  <2> QED BY <2>1, <2>2, <2>3 DEF QueueOK
<1>8. RingOK(q2, w + g.bytes, f, p, l, n)
  <2>1. End(q2, p) = w + g.bytes
    BY <1>1, <1>2 DEF End
  <2>2. n <= q2[1].bytes
    BY <1>1, <1>3, <1>4 DEF RingOK, FrameOK
  <2> QED BY <1>1, <1>2, <2>1, <2>2 DEF RingOK
<1>9. ReaderOK(q2, w + g.bytes, f, p, l, r)
  BY <1>1, <1>2, <1>3, <1>4 DEF ReaderOK
<1> QED BY <1>5, <1>7, <1>8, <1>9 DEF q2

(* A whole frame is taken from the front. *)
LEMMA DirTake ==
  ASSUME NEW q, NEW w, NEW f, NEW p, NEW l, NEW n, NEW r,
         DirOK(q, w, f, p, l, n, r), q # <<>>, q[1].bytes <= l,
         NEW r2 \in {"run", "panic"}
  PROVE  DirOK(Tail(q), w, f, p + q[1].bytes, l - q[1].bytes, 8, r2)
<1> USE DEF DirOK
<1> DEFINE q2 == Tail(q)
<1>1. q \in Seq(AnyFrame) /\ w \in Nat /\ f \in BOOLEAN /\ p \in Nat /\ l \in Nat
  BY DEF DirTypes
<1>2. /\ Len(q) \in Nat /\ Len(q) >= 1 /\ q2 \in Seq(AnyFrame)
      /\ Len(q2) = Len(q) - 1 /\ \A i \in 1..Len(q2) : q2[i] = q[i + 1]
      /\ q2 = <<>> <=> Len(q) = 1
  <2>1. Len(q) \in Nat /\ Len(q) >= 1
    BY <1>1
  <2>2. q2 \in Seq(AnyFrame) /\ Len(q2) = Len(q) - 1
    BY <1>1, <2>1
  <2>3. \A i \in 1..Len(q2) : q2[i] = q[i + 1]
    BY <1>1, <2>1, <2>2
  <2> HIDE DEF q2
  <2>4. q2 = <<>> <=> Len(q2) = 0
    BY <2>2
  <2> QED BY <2>1, <2>2, <2>3, <2>4
<1>3. \A i \in 1..Len(q) : q[i] \in AnyFrame /\ q[i].at \in Nat /\ q[i].bytes \in Nat
  BY <1>1, <1>2, FrameFields
<1> HIDE DEF q2
<1> DEFINE b == q[1].bytes
<1>4. b \in Nat /\ q[1].at = p
  BY <1>2, <1>3 DEF QueueOK
<1>5. QueueOK(q2, p + b)
  <2>1. \A i \in 1..Len(q2) : FrameOK(q2[i])
    BY <1>2 DEF QueueOK
  <2>2. ASSUME NEW i \in 1..Len(q2), i + 1 <= Len(q2)
        PROVE  q2[i + 1].at = q2[i].at + q2[i].bytes
    <3>1. i + 1 \in 1..Len(q) /\ i + 1 + 1 <= Len(q) /\ i + 1 \in 1..Len(q2)
      BY <1>2, <2>2
    <3> QED BY <1>2, <3>1, <2>2 DEF QueueOK
  <2>3. q2 # <<>> => q2[1].at = p + b
    BY <1>2, <1>4 DEF QueueOK
  <2> QED BY <2>1, <2>2, <2>3 DEF QueueOK
<1>6. q2 # <<>> => q2[1].bytes >= 8 /\ q2[Len(q2)] = q[Len(q)] /\ q2[1] = q[2]
  <2>1. ASSUME q2 # <<>> PROVE 1 \in 1..Len(q2) /\ Len(q2) \in 1..Len(q2) /\ Len(q2) + 1 = Len(q)
    BY <1>2, <2>1
  <2> QED BY <1>2, <1>5, <2>1 DEF QueueOK, FrameOK
<1>7. End(q2, p + b) = End(q, p)
  BY <1>2, <1>4, <1>6 DEF End
<1>8. RingOK(q2, w, f, p + b, l - b, 8)
  <2>1. p + l <= w /\ w <= End(q, p) /\ (~f => w = End(q, p))
    BY DEF RingOK
  <2>2. q2 # <<>> => q2[1].bytes \in Nat /\ q2[1].bytes >= 8
    BY <1>2, <1>3, <1>6
  <2> QED BY <1>1, <1>4, <1>7, <2>1, <2>2 DEF RingOK
<1>9. DirTypes(q2, w, f, p + b, l - b, 8, r2)
  BY <1>1, <1>2, <1>4 DEF DirTypes, RxStates
<1>10. ReaderOK(q2, w, f, p + b, l - b, r2)
  BY DEF ReaderOK
<1> QED BY <1>5, <1>8, <1>9, <1>10 DEF q2

-----------------------------------------------------------------------------
(* The state: both directions are in order, the answer to the handshake comes
   before any frame, and what is on the wire is what was asked and moved. *)
WireTypes ==
  /\ asker \in Dirs
  /\ wrote \in [Dirs -> Nat] /\ fin \in [Dirs -> BOOLEAN]
  /\ queue \in [Dirs -> Seq(AnyFrame)]
  /\ pos \in [Dirs -> Nat] /\ len \in [Dirs -> Nat]
  /\ need \in [Dirs -> Nat] /\ rx \in [Dirs -> RxStates]
  /\ cap \in [Dirs -> Nat] /\ \A d \in Dirs : len[d] <= cap[d]
Dir(d) == DirOK(queue[d], wrote[d], fin[d], pos[d], len[d], need[d], rx[d])
StreamsInv == WireTypes /\ \A d \in Dirs : Dir(d)

HandshakeInv ==
  /\ ~Open(asker) => ~Open(Back(asker)) /\ queue[Back(asker)] = <<>>
  /\ Open(asker) /\ rx[Back(asker)] = "hello" /\ queue[Back(asker)] = <<>> => fin[Back(asker)]
  /\ DOMAIN lent # {} => Open("cmd")

Request(s) == request_header(asked[s])
CmdFrame(g) ==
  /\ g.seq \in 1..Len(asked) /\ g.header = Request(g.seq)
  /\ g.bytes = request_bytes(asked[g.seq])
CmdInv ==
  /\ asked \in Seq(Urbs) /\ Len(asked) <= MaxUrb
  /\ \A i \in 1..Len(queue["cmd"]) : queue["cmd"][i].what = "urb" => CmdFrame(queue["cmd"][i])
  /\ DOMAIN lent \subseteq 1..Len(asked)
  /\ \A s \in DOMAIN lent : lent[s] = lend_view(Request(s), request_bytes(asked[s]))
RetFrame(g) ==
  /\ g.seq \in DOMAIN moved /\ g.header = reply_header(Request(g.seq), moved[g.seq])
  /\ g.bytes = reply_bytes(Request(g.seq), moved[g.seq])
Reply(s) == urb_reply(reply_header(Request(s), moved[s]), reply_bytes(Request(s), moved[s]))
RetInv ==
  /\ DOMAIN moved \subseteq DOMAIN lent
  /\ \A s \in DOMAIN moved : moved[s] \in Nat /\ lent[s].ok /\ moved[s] <= lent[s].len
  /\ \A i \in 1..Len(queue["ret"]) : queue["ret"][i].what = "urb" => RetFrame(queue["ret"][i])
  /\ DOMAIN back \subseteq DOMAIN moved
  /\ \A s \in DOMAIN back : back[s] = Reply(s)

LEMMA TwoDirs ==
  /\ Dirs = {"cmd", "ret"}
  /\ \A d \in Dirs : Back(d) \in Dirs /\ Back(d) # d /\ \A e \in Dirs : e = d \/ e = Back(d)
BY DEF Dirs, Back

LEMMA InitStreams == WireInit => StreamsInv /\ HandshakeInv
<1> SUFFICES ASSUME WireInit PROVE StreamsInv /\ HandshakeInv
  OBVIOUS
<1> USE DEF WireInit
<1> DEFINE hello == Frame("hello", 0, 0, HeaderLen, NoHeader)
<1>1. hello \in AnyFrame /\ FrameOK(hello) /\ hello.at = 0 /\ hello.bytes = 8
  <2>1. HeaderLen \in Nat /\ HeaderLen = 8 /\ HeaderLen % 8 = 0 /\ 0 \in 0..MaxUrb
    BY WireAssumption DEF HeaderLen
  <2> QED BY <2>1, FrameMade
<1> HIDE DEF hello
<1>2. WireTypes
  <2>1. \A d \in Dirs : with_capacity(d, asker) \in Nat
    BY DEF with_capacity
  <2> QED BY <1>1, <2>1 DEF WireTypes, RxStates, HeaderLen, hello
<1>3. ASSUME NEW d \in Dirs PROVE Dir(d)
  <2>1. DirOK(<<>>, 0, FALSE, 0, 0, 8, "hello")
    BY DEF DirOK, DirTypes, QueueOK, RingOK, ReaderOK, End, RxStates
  <2>2. DirOK(Append(<<>>, hello), 0 + 8, FALSE, 0, 0, 8, "hello")
    <3>1. DirOK(Append(<<>>, hello), 0 + hello.bytes, FALSE, 0, 0, 8, "hello")
      BY <1>1, <2>1, DirAppend, Zenon
    <3> QED BY <1>1, <3>1, Zenon
  <2>3. Append(<<>>, hello) = <<hello>>
    OBVIOUS
  <2>4. DirOK(<<hello>>, 8, FALSE, 0, 0, 8, "hello")
    <3>1. 0 + 8 = 8
      OBVIOUS
    <3> QED BY <2>2, <2>3, <3>1, Zenon
  <2> QED BY <2>1, <2>4 DEF Dir, HeaderLen, hello
<1>4. HandshakeInv
  BY TwoDirs DEF HandshakeInv, Open
<1> QED BY <1>2, <1>3, <1>4 DEF StreamsInv

LEMMA PutTypes ==
  ASSUME WireTypes, NEW c \in Dirs, NEW g \in AnyFrame, NEW b \in Nat,
         queue' = [queue EXCEPT ![c] = Append(@, g)],
         wrote' = [wrote EXCEPT ![c] = @ + b],
         UNCHANGED <<asker, fin, pos, len, cap, need, rx>>
  PROVE  WireTypes'
<1>1. queue[c] \in Seq(AnyFrame) /\ wrote[c] \in Nat
  BY DEF WireTypes
<1>2. Append(queue[c], g) \in Seq(AnyFrame) /\ wrote[c] + b \in Nat
  BY <1>1
<1>3. queue' \in [Dirs -> Seq(AnyFrame)] /\ wrote' \in [Dirs -> Nat]
  BY <1>2 DEF WireTypes
<1> QED BY <1>3 DEF WireTypes

(* Put appends a frame that is in order. *)
LEMMA PutStreams ==
  ASSUME StreamsInv, NEW d \in Dirs, ~fin[d],
         NEW b \in Nat, NEW g \in AnyFrame, FrameOK(g), g.at = wrote[d], g.bytes = b,
         rx[d] = "hello" /\ queue[d] = <<>> => b = 8,
         queue' = [queue EXCEPT ![d] = Append(@, g)],
         wrote' = [wrote EXCEPT ![d] = @ + b],
         UNCHANGED <<asker, fin, pos, len, cap, need, rx>>
  PROVE  StreamsInv'
<1>0. WireTypes /\ \A e \in Dirs : Dir(e)
  BY DEF StreamsInv
<1>1. wrote[d] \in Nat /\ fin[d] = FALSE
  BY <1>0 DEF WireTypes
<1>4. WireTypes'
  BY <1>0, PutTypes
<1>5. DirOK(Append(queue[d], g), wrote[d] + b, fin[d], pos[d], len[d], need[d], rx[d])
  <2>1. DirOK(queue[d], wrote[d], fin[d], pos[d], len[d], need[d], rx[d])
    BY <1>0 DEF Dir
  <2>2. DirOK(Append(queue[d], g), wrote[d] + g.bytes, fin[d], pos[d], len[d], need[d], rx[d])
    <3>1. rx[d] = "hello" /\ queue[d] = <<>> => g.bytes = 8
      OBVIOUS
    <3> QED BY <2>1, <3>1, DirAppend
  <2> QED BY <2>2
<1>6. ASSUME NEW e \in Dirs PROVE Dir(e)'
  <2>1. /\ queue'[e] = IF e = d THEN Append(queue[d], g) ELSE queue[e]
        /\ wrote'[e] = IF e = d THEN wrote[d] + b ELSE wrote[e]
        /\ fin'[e] = fin[e] /\ pos'[e] = pos[e] /\ len'[e] = len[e]
        /\ need'[e] = need[e] /\ rx'[e] = rx[e]
    BY <1>0 DEF WireTypes
  <2>2. CASE e = d
    BY <1>5, <2>1, <2>2 DEF Dir
  <2>3. CASE e # d
    BY <1>0, <2>1, <2>3 DEF Dir
  <2> QED BY <2>2, <2>3
<1> QED BY <1>4, <1>6 DEF StreamsInv

(* A step that changes one direction only. *)
LEMMA OneDir ==
  ASSUME StreamsInv, NEW d \in Dirs, WireTypes',
         DirOK(queue'[d], wrote'[d], fin'[d], pos'[d], len'[d], need'[d], rx'[d]),
         \A e \in Dirs : e # d =>
           /\ queue'[e] = queue[e] /\ wrote'[e] = wrote[e] /\ fin'[e] = fin[e]
           /\ pos'[e] = pos[e] /\ len'[e] = len[e]
           /\ need'[e] = need[e] /\ rx'[e] = rx[e]
  PROVE  StreamsInv'
<1>1. ASSUME NEW e \in Dirs PROVE Dir(e)'
  <2>1. CASE e = d
    BY <2>1 DEF Dir
  <2>2. CASE e # d
    <3>1. Dir(e)
      BY DEF StreamsInv
    <3> QED BY <2>2, <3>1 DEF Dir
  <2> QED BY <2>1, <2>2
<1> QED BY <1>1 DEF StreamsInv

LEMMA CloseStreams ==
  ASSUME StreamsInv, NEW d \in Dirs, NEW k \in Nat, Close(d, k)
  PROVE  StreamsInv'
<1> USE DEF Close, ringVars
<1>1. DirOK(queue[d], wrote[d], fin[d], pos[d], len[d], need[d], rx[d]) /\ WireTypes
  BY DEF StreamsInv, Dir
<1>2. /\ wrote[d] \in Nat /\ pos[d] \in Nat /\ len[d] \in Nat /\ fin[d] = FALSE
      /\ rx[d] \in RxStates
  BY <1>1 DEF WireTypes
<1>3. pos[d] + len[d] <= wrote[d] - k /\ wrote[d] - k <= wrote[d]
  <2>1. pos[d] + len[d] <= wrote[d]
    BY <1>1 DEF DirOK, RingOK
  <2> QED BY <1>2, <2>1
<1>4. wrote[d] = End(queue[d], pos[d])
  BY <1>1, <1>2 DEF DirOK, RingOK
<1>5. wrote' = [wrote EXCEPT ![d] = wrote[d] - k] /\ wrote[d] - k \in Nat
  BY <1>2, <1>3
<1>6. WireTypes'
  BY <1>1, <1>5 DEF WireTypes
<1>7. DirOK(queue[d], wrote[d] - k, TRUE, pos[d], len[d], need[d], rx[d])
  <2>1. DirTypes(queue[d], wrote[d] - k, TRUE, pos[d], len[d], need[d], rx[d])
    BY <1>1, <1>5 DEF DirOK, DirTypes
  <2>2. RingOK(queue[d], wrote[d] - k, TRUE, pos[d], len[d], need[d])
    BY <1>1, <1>2, <1>3, <1>4 DEF DirOK, RingOK
  <2>3. ReaderOK(queue[d], wrote[d] - k, TRUE, pos[d], len[d], rx[d])
    BY <1>1, <1>2 DEF DirOK, ReaderOK
  <2> QED BY <1>1, <2>1, <2>2, <2>3 DEF DirOK
<1>8. DirOK(queue'[d], wrote'[d], fin'[d], pos'[d], len'[d], need'[d], rx'[d])
  <2>1. /\ wrote'[d] = wrote[d] - k /\ fin'[d] = TRUE
        /\ queue' = queue /\ pos' = pos /\ len' = len /\ need' = need /\ rx' = rx
    BY <1>1, <1>5 DEF WireTypes
  <2> QED BY <1>7, <2>1, Zenon
<1>9. \A e \in Dirs : e # d => wrote'[e] = wrote[e] /\ fin'[e] = fin[e]
  BY <1>1 DEF WireTypes
<1> QED BY <1>6, <1>8, <1>9, OneDir

(* fill_until always has room for another byte. *)
LEMMA RoomForMore ==
  ASSUME WireTypes, NEW d \in Dirs, Reading(d)
  PROVE  /\ roomFor(d) \in Nat /\ roomFor(d) > len[d] /\ roomFor(d) >= cap[d]
BY DEF WireTypes, Reading, roomFor, Max, Extra

LEMMA ReadStreams ==
  ASSUME StreamsInv, NEW d \in Dirs, NEW k \in Nat, Read(d, k)
  PROVE  StreamsInv'
<1> USE DEF Read
<1>1. DirOK(queue[d], wrote[d], fin[d], pos[d], len[d], need[d], rx[d]) /\ WireTypes
  BY DEF StreamsInv, Dir
<1>2. /\ wrote[d] \in Nat /\ pos[d] \in Nat /\ len[d] \in Nat
      /\ roomFor(d) \in Nat /\ roomFor(d) > len[d]
  BY <1>1, RoomForMore DEF WireTypes
<1>3. pos[d] + len[d] <= wrote[d]
  BY <1>1 DEF DirOK, RingOK
<1>4. pos[d] + len[d] + k <= wrote[d] /\ len[d] + k <= roomFor(d)
  BY <1>2, <1>3 DEF readable, available, shorter
<1>5. len' = [len EXCEPT ![d] = len[d] + k] /\ len[d] + k \in Nat
  BY <1>2
<1>6. WireTypes'
  BY <1>1, <1>2, <1>4, <1>5 DEF WireTypes
<1>7. DirOK(queue[d], wrote[d], fin[d], pos[d], len[d] + k, need[d], rx[d])
  <2>1. rx[d] \in {"hello", "run"}
    BY DEF Reading
  <2>2. DirTypes(queue[d], wrote[d], fin[d], pos[d], len[d] + k, need[d], rx[d])
    BY <1>1, <1>5 DEF DirOK, DirTypes
  <2>3. RingOK(queue[d], wrote[d], fin[d], pos[d], len[d] + k, need[d])
    BY <1>1, <1>2, <1>4 DEF DirOK, RingOK
  <2>4. ReaderOK(queue[d], wrote[d], fin[d], pos[d], len[d] + k, rx[d])
    BY <1>1, <2>1 DEF DirOK, ReaderOK
  <2> QED BY <1>1, <2>2, <2>3, <2>4 DEF DirOK
<1>8. DirOK(queue'[d], wrote'[d], fin'[d], pos'[d], len'[d], need'[d], rx'[d])
  <2>1. len'[d] = len[d] + k
    BY <1>1, <1>5 DEF WireTypes
  <2> QED BY <1>7, <2>1
<1>9. \A e \in Dirs : e # d => len'[e] = len[e]
  BY <1>1 DEF WireTypes
<1> QED BY <1>6, <1>8, <1>9, OneDir

LEMMA ReadEndStreams ==
  ASSUME StreamsInv, NEW d \in Dirs, ReadEnd(d)
  PROVE  StreamsInv'
<1> USE DEF ReadEnd
<1> DEFINE r == IF rx[d] = "hello" THEN "helloPanic" ELSE "eof"
<1>1. DirOK(queue[d], wrote[d], fin[d], pos[d], len[d], need[d], rx[d]) /\ WireTypes
  BY DEF StreamsInv, Dir
<1>2. /\ wrote[d] \in Nat /\ pos[d] \in Nat /\ len[d] \in Nat /\ need[d] \in Nat
      /\ roomFor(d) \in Nat /\ roomFor(d) > len[d] /\ roomFor(d) >= cap[d] /\ cap[d] \in Nat
  BY <1>1, RoomForMore DEF WireTypes
<1>3. fin[d] /\ pos[d] + len[d] = wrote[d] /\ need[d] > len[d]
  BY <1>2 DEF available, Reading
<1>4. queue[d] # <<>> => queue[d][1].at + queue[d][1].bytes > wrote[d]
  <2>1. ASSUME queue[d] # <<>>
        PROVE  /\ queue[d][1].at = pos[d] /\ need[d] <= queue[d][1].bytes
               /\ queue[d][1].bytes \in Nat
    <3>1. queue[d][1] \in AnyFrame
      BY <1>1, <2>1 DEF WireTypes
    <3> QED BY <1>1, <2>1, <3>1, FrameFields DEF DirOK, QueueOK, RingOK
  <2> QED BY <1>2, <1>3, <2>1
<1>5. rx' = [rx EXCEPT ![d] = r] /\ r \in RxStates /\ r \in {"helloPanic", "eof"}
  BY DEF RxStates
<1> HIDE DEF r
<1>6. WireTypes'
  BY <1>1, <1>2, <1>5 DEF WireTypes
<1>7. DirOK(queue[d], wrote[d], fin[d], pos[d], len[d], need[d], r)
  <2>1. ReaderOK(queue[d], wrote[d], fin[d], pos[d], len[d], r)
    BY <1>3, <1>4, <1>5 DEF ReaderOK
  <2> QED BY <1>1, <1>5, <2>1 DEF DirOK, DirTypes
<1>8. DirOK(queue'[d], wrote'[d], fin'[d], pos'[d], len'[d], need'[d], rx'[d])
  <2>1. rx'[d] = r
    BY <1>1, <1>5 DEF WireTypes
  <2> QED BY <1>7, <2>1
<1>9. \A e \in Dirs : e # d => rx'[e] = rx[e]
  BY <1>1, <1>5 DEF WireTypes
<1> QED BY <1>6, <1>8, <1>9, OneDir

(* A reader that has enough bytes has a frame in front of it. *)
LEMMA HasFrame ==
  ASSUME StreamsInv, NEW d \in Dirs, need[d] <= len[d]
  PROVE  /\ queue[d] # <<>> /\ Head(queue[d]) = queue[d][1] /\ queue[d][1] \in AnyFrame
         /\ FrameOK(queue[d][1]) /\ queue[d][1].bytes \in Nat /\ len[d] >= 8
         /\ announced(d) \in Nat /\ announced(d) <= queue[d][1].bytes
         /\ announced(d) = queue[d][1].bytes <=> queue[d][1].bytes < 65536
<1>1. DirOK(queue[d], wrote[d], fin[d], pos[d], len[d], need[d], rx[d]) /\ WireTypes
  BY DEF StreamsInv, Dir
<1>2. /\ wrote[d] \in Nat /\ pos[d] \in Nat /\ len[d] \in Nat /\ need[d] \in Nat
      /\ queue[d] \in Seq(AnyFrame)
  BY <1>1 DEF WireTypes
<1>3. need[d] >= 8 /\ pos[d] + len[d] <= wrote[d] /\ wrote[d] <= End(queue[d], pos[d])
  BY <1>1 DEF DirOK, RingOK
<1>4. queue[d] # <<>>
  BY <1>2, <1>3 DEF End
<1>5. Head(queue[d]) = queue[d][1] /\ queue[d][1] \in AnyFrame /\ 1 \in 1..Len(queue[d])
  BY <1>2, <1>4
<1>6. FrameOK(queue[d][1])
  BY <1>1, <1>5 DEF DirOK, QueueOK
<1>7. queue[d][1].bytes \in Nat
  BY <1>5, FrameFields
<1>8. announced(d) = get_slice_len(compress_frame_len(queue[d][1].bytes))
  BY <1>5, <1>6 DEF announced, FrameOK
<1>9. queue[d][1].bytes % 8 = 0
  BY <1>6 DEF FrameOK
<1> QED BY <1>2, <1>3, <1>4, <1>5, <1>6, <1>7, <1>8, <1>9, Announced

LEMMA ClaimShortStreams ==
  ASSUME StreamsInv, NEW d \in Dirs, ClaimShort(d)
  PROVE  StreamsInv'
<1> USE DEF ClaimShort
<1>1. DirOK(queue[d], wrote[d], fin[d], pos[d], len[d], need[d], rx[d]) /\ WireTypes
  BY DEF StreamsInv, Dir
<1>2. need[d] <= len[d] /\ rx[d] = "run"
  BY DEF Ready
<1>3. /\ queue[d] # <<>> /\ announced(d) \in Nat /\ announced(d) <= queue[d][1].bytes
      /\ len[d] >= 8 /\ len[d] \in Nat
  BY <1>1, <1>2, HasFrame DEF WireTypes
<1>4. min_len(d) = announced(d)
  BY <1>3 DEF min_len
<1>5. need' = [need EXCEPT ![d] = announced(d)]
  BY <1>4
<1>6. WireTypes'
  BY <1>1, <1>3, <1>5 DEF WireTypes
<1>7. DirOK(queue[d], wrote[d], fin[d], pos[d], len[d], announced(d), rx[d])
  <2>1. RingOK(queue[d], wrote[d], fin[d], pos[d], len[d], announced(d))
    BY <1>1, <1>3 DEF DirOK, RingOK
  <2> QED BY <1>1, <1>3, <2>1 DEF DirOK, DirTypes
<1>8. DirOK(queue'[d], wrote'[d], fin'[d], pos'[d], len'[d], need'[d], rx'[d])
  <2>1. need'[d] = announced(d)
    BY <1>1, <1>5 DEF WireTypes
  <2> QED BY <1>7, <2>1
<1>9. \A e \in Dirs : e # d => need'[e] = need[e]
  BY <1>1, <1>5 DEF WireTypes
<1> QED BY <1>6, <1>8, <1>9, OneDir

LEMMA ClaimWrongStreams ==
  ASSUME StreamsInv, NEW d \in Dirs, ClaimWrong(d)
  PROVE  StreamsInv'
<1> USE DEF ClaimWrong
<1>1. DirOK(queue[d], wrote[d], fin[d], pos[d], len[d], need[d], rx[d]) /\ WireTypes
  BY DEF StreamsInv, Dir
<1>2. queue[d] # <<>> /\ queue[d][1].bytes >= 65536
  BY HasFrame DEF Ready
<1>3. rx' = [rx EXCEPT ![d] = "garbage"]
  OBVIOUS
<1>4. WireTypes'
  BY <1>1, <1>3 DEF WireTypes, RxStates
<1>5. DirOK(queue[d], wrote[d], fin[d], pos[d], len[d], need[d], "garbage")
  BY <1>1, <1>2 DEF DirOK, DirTypes, ReaderOK, RxStates
<1>6. DirOK(queue'[d], wrote'[d], fin'[d], pos'[d], len'[d], need'[d], rx'[d])
  <2>1. rx'[d] = "garbage"
    BY <1>1, <1>3 DEF WireTypes
  <2> QED BY <1>5, <2>1
<1>7. \A e \in Dirs : e # d => rx'[e] = rx[e]
  BY <1>1, <1>3 DEF WireTypes
<1> QED BY <1>4, <1>6, <1>7, OneDir

(* What ClaimFrame does to the stream. *)
LEMMA ClaimFrameStreams ==
  ASSUME StreamsInv, NEW d \in Dirs, ClaimFrame(d)
  PROVE  StreamsInv'
<1>1. DirOK(queue[d], wrote[d], fin[d], pos[d], len[d], need[d], rx[d]) /\ WireTypes
  BY DEF StreamsInv, Dir
<1> DEFINE b == queue[d][1].bytes
           r == rx'[d]
<1>2. /\ rx[d] = "run" /\ need[d] <= len[d] /\ announced(d) <= len[d]
      /\ announced(d) = Head(queue[d]).bytes
  BY DEF ClaimFrame, Ready
<1>3. /\ queue[d] # <<>> /\ announced(d) = b /\ b <= len[d] /\ b \in Nat
  BY <1>2, HasFrame
<1>4. /\ pos' = [pos EXCEPT ![d] = pos[d] + b] /\ len' = [len EXCEPT ![d] = len[d] - b]
      /\ queue' = [queue EXCEPT ![d] = Tail(queue[d])]
      /\ cap' = [cap EXCEPT ![d] = cap[d] - b] /\ need' = [need EXCEPT ![d] = 8]
      /\ UNCHANGED <<asker, wrote, fin>>
  BY <1>3 DEF ClaimFrame, Take, HeaderLen
<1>5. \E s \in {"run", "panic"} : rx' = [rx EXCEPT ![d] = s]
  BY <1>2 DEF ClaimFrame
<1>6. rx' \in [Dirs -> RxStates] /\ r \in {"run", "panic"} /\ \A e \in Dirs : e # d => rx'[e] = rx[e]
  BY <1>1, <1>5 DEF WireTypes, RxStates
<1> HIDE DEF b, r
<1>7. /\ len[d] \in Nat /\ pos[d] \in Nat /\ cap[d] \in Nat /\ len[d] <= cap[d]
      /\ Tail(queue[d]) \in Seq(AnyFrame)
  BY <1>1, <1>3 DEF WireTypes
<1>8. WireTypes'
  <2>1. pos[d] + b \in Nat /\ len[d] - b \in Nat /\ cap[d] - b \in Nat /\ len[d] - b <= cap[d] - b
    BY <1>3, <1>7
  <2>2. /\ pos' \in [Dirs -> Nat] /\ len' \in [Dirs -> Nat] /\ cap' \in [Dirs -> Nat]
        /\ need' \in [Dirs -> Nat] /\ queue' \in [Dirs -> Seq(AnyFrame)]
    BY <1>1, <1>4, <1>7, <2>1 DEF WireTypes
  <2>3. \A e \in Dirs : len'[e] <= cap'[e]
    BY <1>1, <1>4, <2>1 DEF WireTypes
  <2>4. asker' \in Dirs /\ wrote' \in [Dirs -> Nat] /\ fin' \in [Dirs -> BOOLEAN]
    BY <1>1, <1>4 DEF WireTypes
  <2> QED BY <1>6, <2>2, <2>3, <2>4, Zenon DEF WireTypes
<1>9. DirOK(Tail(queue[d]), wrote[d], fin[d], pos[d] + b, len[d] - b, 8, r)
  BY <1>1, <1>3, <1>6, DirTake DEF b
<1>10. DirOK(queue'[d], wrote'[d], fin'[d], pos'[d], len'[d], need'[d], rx'[d])
  <2>1. /\ queue'[d] = Tail(queue[d]) /\ pos'[d] = pos[d] + b /\ len'[d] = len[d] - b
        /\ need'[d] = 8 /\ wrote' = wrote /\ fin' = fin
    BY <1>1, <1>4 DEF WireTypes
  <2> QED BY <1>9, <2>1 DEF r
<1>11. \A e \in Dirs : e # d => /\ queue'[e] = queue[e] /\ pos'[e] = pos[e]
                                /\ len'[e] = len[e] /\ need'[e] = need[e]
                                /\ wrote'[e] = wrote[e] /\ fin'[e] = fin[e]
  BY <1>1, <1>4 DEF WireTypes
<1> QED BY <1>6, <1>8, <1>10, <1>11, OneDir

LEMMA ReadHelloStreams ==
  ASSUME StreamsInv, NEW d \in Dirs, ReadHello(d)
  PROVE  StreamsInv'
<1>0. WireTypes /\ \A e \in Dirs : Dir(e)
  BY DEF StreamsInv
<1>1. rx[d] = "hello" /\ need[d] <= len[d] /\ UNCHANGED <<asker, fin>>
  BY DEF ReadHello
<1>2. /\ queue[d] # <<>> /\ queue[d][1].bytes = 8 /\ len[d] >= 8
      /\ DirOK(queue[d], wrote[d], fin[d], pos[d], len[d], need[d], rx[d])
  <2>1. DirOK(queue[d], wrote[d], fin[d], pos[d], len[d], need[d], rx[d])
    BY <1>0 DEF Dir
  <2>2. queue[d] # <<>> /\ len[d] >= 8
    BY <1>1, HasFrame
  <2> QED BY <1>1, <2>1, <2>2 DEF DirOK, ReaderOK
<1>3. /\ len[d] \in Nat /\ pos[d] \in Nat /\ cap[d] \in Nat /\ len[d] <= cap[d]
      /\ Tail(queue[d]) \in Seq(AnyFrame) /\ wrote \in [Dirs -> Nat]
  BY <1>0, <1>2 DEF WireTypes
<1>4. handOver(d) \in Nat /\ handOver(d) >= len[d] - 8
  BY <1>2, <1>3 DEF handOver, Max, HeaderLen
<1>5. /\ pos' = [pos EXCEPT ![d] = pos[d] + 8] /\ len' = [len EXCEPT ![d] = len[d] - 8]
      /\ cap' = [cap EXCEPT ![d] = handOver(d)] /\ need' = [need EXCEPT ![d] = 8]
      /\ rx' = [rx EXCEPT ![d] = "run"]
  BY DEF ReadHello, HeaderLen
<1>6. DirOK(Tail(queue[d]), wrote[d], fin[d], pos[d] + 8, len[d] - 8, 8, "run")
  BY <1>2, DirTake
<1> DEFINE e == Back(d)
           replies == d = asker /\ ~fin[Back(d)]
<1>7. e \in Dirs /\ e # d /\ \A c \in Dirs : c = d \/ c = e
  BY TwoDirs
<1>8. PICK g \in AnyFrame : /\ g = Frame("hello", 0, wrote[e], HeaderLen, NoHeader)
                            /\ FrameOK(g) /\ g.at = wrote[e] /\ g.bytes = 8
  <2>1. HeaderLen \in Nat /\ HeaderLen = 8 /\ HeaderLen % 8 = 0 /\ wrote[e] \in Nat
        /\ 0 \in 0..MaxUrb
    BY <1>3, <1>7, WireAssumption DEF HeaderLen
  <2> QED BY <2>1, FrameMade
<1>9. IF replies THEN /\ queue' = [queue EXCEPT ![d] = Tail(@), ![e] = Append(@, g)]
                      /\ wrote' = [wrote EXCEPT ![e] = @ + 8]
                 ELSE queue' = [queue EXCEPT ![d] = Tail(@)] /\ wrote' = wrote
  BY <1>8 DEF ReadHello, HeaderLen
<1> HIDE DEF e
<1>10. /\ queue'[d] = Tail(queue[d]) /\ wrote'[d] = wrote[d]
       /\ queue'[e] = IF replies THEN Append(queue[e], g) ELSE queue[e]
       /\ wrote'[e] = IF replies THEN wrote[e] + 8 ELSE wrote[e]
  BY <1>0, <1>7, <1>9 DEF WireTypes
<1>11. WireTypes'
  <2>1. pos[d] + 8 \in Nat /\ len[d] - 8 \in Nat
    BY <1>2, <1>3
  <2>2. /\ pos' \in [Dirs -> Nat] /\ len' \in [Dirs -> Nat] /\ cap' \in [Dirs -> Nat]
        /\ need' \in [Dirs -> Nat] /\ rx' \in [Dirs -> RxStates]
    BY <1>0, <1>4, <1>5, <2>1 DEF WireTypes, RxStates
  <2>3. \A c \in Dirs : len'[c] <= cap'[c]
    BY <1>0, <1>4, <1>5, <2>1 DEF WireTypes
  <2>4. Append(queue[e], g) \in Seq(AnyFrame) /\ wrote[e] + 8 \in Nat
    <3>1. queue[e] \in Seq(AnyFrame) /\ wrote[e] \in Nat
      BY <1>0, <1>7 DEF WireTypes
    <3> HIDE DEF replies
    <3> QED BY <3>1
  <2>5. queue' \in [Dirs -> Seq(AnyFrame)] /\ wrote' \in [Dirs -> Nat]
    <3>1. CASE replies
      BY <1>0, <1>3, <1>7, <1>9, <2>4, <3>1 DEF WireTypes
    <3>2. CASE ~replies
      BY <1>0, <1>3, <1>7, <1>9, <3>2 DEF WireTypes
    <3> QED BY <3>1, <3>2
  <2>6. asker' \in Dirs /\ fin' \in [Dirs -> BOOLEAN]
    BY <1>0, <1>1 DEF WireTypes
  <2> QED BY <2>2, <2>3, <2>5, <2>6, Zenon DEF WireTypes
<1>12. Dir(d)'
  <2>1. pos'[d] = pos[d] + 8 /\ len'[d] = len[d] - 8 /\ need'[d] = 8 /\ rx'[d] = "run"
    BY <1>0, <1>5 DEF WireTypes
  <2> QED BY <1>1, <1>6, <1>10, <2>1 DEF Dir
<1>13. Dir(e)'
  <2>1. DirOK(queue[e], wrote[e], fin[e], pos[e], len[e], need[e], rx[e])
    BY <1>0, <1>7 DEF Dir
  <2>2. pos'[e] = pos[e] /\ len'[e] = len[e] /\ need'[e] = need[e] /\ rx'[e] = rx[e] /\ fin'[e] = fin[e]
    BY <1>0, <1>1, <1>5, <1>7 DEF WireTypes
  <2>3. CASE replies
    <3>1. ~fin[e]
      BY <2>3 DEF e
    <3>2. DirOK(Append(queue[e], g), wrote[e] + g.bytes, fin[e], pos[e], len[e], need[e], rx[e])
      BY <1>8, <2>1, <3>1, DirAppend
    <3>3. DirOK(Append(queue[e], g), wrote[e] + 8, fin[e], pos[e], len[e], need[e], rx[e])
      BY <1>8, <3>2
    <3> QED BY <1>10, <2>2, <2>3, <3>3 DEF Dir
  <2>4. CASE ~replies
    BY <1>10, <2>1, <2>2, <2>4 DEF Dir
  <2> QED BY <2>3, <2>4
<1> QED BY <1>7, <1>11, <1>12, <1>13 DEF StreamsInv

-----------------------------------------------------------------------------
(* Nothing is written to a direction before its handshake message. *)
LEMMA SafeToPut ==
  ASSUME StreamsInv, HandshakeInv, NEW d \in Dirs, Open(Back(d)), ~fin[d]
  PROVE  ~(rx[d] = "hello" /\ queue[d] = <<>>)
<1>1. asker \in Dirs
  BY DEF StreamsInv, WireTypes
<1>2. CASE d = asker
  BY <1>2 DEF HandshakeInv, Open
<1>3. CASE d = Back(asker)
  <2>1. Back(d) = asker
    BY <1>1, <1>3 DEF Back, Dirs
  <2> QED BY <1>3, <2>1 DEF HandshakeInv
<1> QED BY <1>1, <1>2, <1>3, TwoDirs

(* What was asked is a URB. *)
LEMMA AskedUrb ==
  ASSUME CmdInv, NEW s \in 1..Len(asked)
  PROVE  asked[s] \in Urb /\ Request(s) \in UrbHeader
<1>1. asked[s] \in Urb
  BY WireAssumption DEF CmdInv
<1> QED BY <1>1, RequestLength DEF Request

(* The frames the writers put. *)
LEMMA FrameParts ==
  ASSUME NEW what, NEW s, NEW w, NEW b, NEW h
  PROVE  /\ Frame(what, s, w, b, h).what = what /\ Frame(what, s, w, b, h).seq = s
         /\ Frame(what, s, w, b, h).at = w /\ Frame(what, s, w, b, h).bytes = b
         /\ Frame(what, s, w, b, h).header = h
BY DEF Frame

LEMMA UrbFrame ==
  ASSUME StreamsInv, CmdInv, NEW u \in Urbs, SendUrb(u)
  PROVE  \E g \in AnyFrame :
           /\ FrameOK(g) /\ g.at = wrote["cmd"]
           /\ g.seq = Len(asked) + 1 /\ g.header = request_header(u) /\ g.bytes = request_bytes(u)
           /\ queue' = [queue EXCEPT !["cmd"] = Append(@, g)]
           /\ wrote' = [wrote EXCEPT !["cmd"] = @ + request_bytes(u)]
<1> DEFINE s == Len(asked) + 1
<1>1. "cmd" \in Dirs /\ s \in 0..MaxUrb
  BY WireAssumption DEF SendUrb, Dirs, CmdInv
<1>2. /\ request_header(u) \in UrbHeader /\ request_bytes(u) \in Nat
      /\ request_bytes(u) % 8 = 0 /\ request_bytes(u) >= 8
      /\ request_bytes(u) = Headers + required_byte_len(request_header(u))
  BY RequestLength, WireAssumption DEF Headers, HeaderLen, UrbHeaderLen
<1>3. wrote["cmd"] \in Nat
  BY <1>1 DEF StreamsInv, WireTypes
<1> DEFINE g == Frame("urb", s, wrote["cmd"], request_bytes(u), request_header(u))
<1>4. /\ g \in AnyFrame /\ FrameOK(g) /\ g.at = wrote["cmd"]
  <2> HIDE DEF s
  <2> QED BY <1>1, <1>2, <1>3, FrameMade
<1>5. g.seq = s /\ g.header = request_header(u) /\ g.bytes = request_bytes(u)
  BY FrameParts
<1>6. /\ queue' = [queue EXCEPT !["cmd"] = Append(@, g)]
      /\ wrote' = [wrote EXCEPT !["cmd"] = @ + request_bytes(u)]
  BY DEF SendUrb, Put
<1> HIDE DEF g
<1> QED BY <1>4, <1>5, <1>6

LEMMA BareFrame ==
  ASSUME StreamsInv, NEW d \in Dirs, NEW what \in {"hello", "bare"}
  PROVE  LET g == Frame(what, 0, wrote[d], HeaderLen, NoHeader)
         IN g \in AnyFrame /\ FrameOK(g) /\ g.at = wrote[d] /\ g.bytes = 8 /\ g.what # "urb"
<1>1. HeaderLen \in Nat /\ HeaderLen = 8 /\ HeaderLen % 8 = 0 /\ wrote[d] \in Nat /\ 0 \in 0..MaxUrb
  BY WireAssumption DEF HeaderLen, StreamsInv, WireTypes
<1> QED BY <1>1, FrameMade, FrameParts

LEMMA ReplyFrame ==
  ASSUME StreamsInv, CmdInv, NEW s \in DOMAIN lent, NEW n \in Nat, Completed(s, n)
  PROVE  \E g \in AnyFrame :
           /\ FrameOK(g) /\ g.at = wrote["ret"] /\ reply_bytes(Request(s), n) \in Nat
           /\ g.seq = s /\ g.header = reply_header(Request(s), n)
           /\ g.bytes = reply_bytes(Request(s), n)
           /\ queue' = [queue EXCEPT !["ret"] = Append(@, g)]
           /\ wrote' = [wrote EXCEPT !["ret"] = @ + reply_bytes(Request(s), n)]
<1> DEFINE b == reply_bytes(Request(s), n)
           h == reply_header(Request(s), n)
           g == Frame("urb", s, wrote["ret"], b, h)
<1>1. s \in 1..Len(asked) /\ s \in 0..MaxUrb /\ "ret" \in Dirs
  <2>1. s \in 1..Len(asked) /\ Len(asked) \in Nat /\ Len(asked) <= MaxUrb
    BY DEF CmdInv
  <2> QED BY <2>1, WireAssumption DEF Dirs
<1>2. /\ h \in UrbHeader /\ b \in Nat /\ b % 8 = 0 /\ b >= 8
      /\ b < 65536 => b = Headers + required_byte_len(h)
  BY <1>1, AskedUrb, ReplyLength DEF Headers, HeaderLen, UrbHeaderLen
<1>3. wrote["ret"] \in Nat
  BY <1>1 DEF StreamsInv, WireTypes
<1>4. Put("ret", "urb", s, b, h)
  BY DEF Completed, Request
<1> HIDE DEF b, h
<1>5. /\ g \in AnyFrame /\ FrameOK(g) /\ g.at = wrote["ret"]
  BY <1>1, <1>2, <1>3, FrameMade
<1>6. g.seq = s /\ g.header = h /\ g.bytes = b
  BY FrameParts
<1>7. /\ queue' = [queue EXCEPT !["ret"] = Append(@, g)]
      /\ wrote' = [wrote EXCEPT !["ret"] = @ + b]
  BY <1>4 DEF Put
<1>8. b \in Nat
  BY <1>2
<1> HIDE DEF g
<1> QED BY <1>5, <1>6, <1>7, <1>8 DEF b, h

LEMMA SendUrbStreams ==
  ASSUME StreamsInv, HandshakeInv, CmdInv, NEW u \in Urbs, SendUrb(u)
  PROVE  StreamsInv'
<1>1. /\ "cmd" \in Dirs /\ ~fin["cmd"] /\ Open(Back("cmd"))
      /\ UNCHANGED <<asker, fin, pos, len, cap, need, rx>>
  BY DEF SendUrb, Back, Dirs, ringVars
<1>2. ~(rx["cmd"] = "hello" /\ queue["cmd"] = <<>>)
  BY <1>1, SafeToPut
<1>3. request_bytes(u) \in Nat
  BY RequestLength, WireAssumption
<1> QED BY <1>1, <1>2, <1>3, UrbFrame, PutStreams

LEMMA SendBareStreams ==
  ASSUME StreamsInv, HandshakeInv, NEW d \in Dirs, SendBare(d)
  PROVE  StreamsInv'
<1>1. ~fin[d] /\ UNCHANGED <<asker, fin, pos, len, cap, need, rx>>
  BY DEF SendBare, ringVars
<1>2. PICK g \in AnyFrame : /\ g = Frame("bare", 0, wrote[d], HeaderLen, NoHeader)
                            /\ FrameOK(g) /\ g.at = wrote[d] /\ g.bytes = 8
  BY BareFrame
<1>3. /\ queue' = [queue EXCEPT ![d] = Append(@, g)]
      /\ wrote' = [wrote EXCEPT ![d] = @ + 8]
  BY <1>2 DEF SendBare, Put, HeaderLen
<1> QED BY <1>1, <1>2, <1>3, PutStreams

LEMMA CompletedStreams ==
  ASSUME StreamsInv, HandshakeInv, CmdInv, NEW s \in DOMAIN lent, NEW n \in Nat, Completed(s, n)
  PROVE  StreamsInv'
<1>1. /\ "ret" \in Dirs /\ ~fin["ret"] /\ Open(Back("ret"))
      /\ UNCHANGED <<asker, fin, pos, len, cap, need, rx>>
  <2>1. Open("cmd")
    BY DEF HandshakeInv
  <2> QED BY <2>1 DEF Completed, Back, Dirs, ringVars
<1>2. ~(rx["ret"] = "hello" /\ queue["ret"] = <<>>)
  BY <1>1, SafeToPut
<1> QED BY <1>1, <1>2, ReplyFrame, PutStreams

LEMMA StreamsStep ==
  ASSUME StreamsInv, HandshakeInv, CmdInv, [WireNext]_wireVars
  PROVE  StreamsInv'
<1>1. ASSUME NEW u \in Urbs, SendUrb(u) PROVE StreamsInv'
  BY <1>1, SendUrbStreams
<1>2. ASSUME NEW s \in DOMAIN lent, NEW n \in Moves, Completed(s, n) PROVE StreamsInv'
  <2>1. n \in Nat
    BY WireAssumption
  <2> QED BY <1>2, <2>1, CompletedStreams
<1>3. ASSUME NEW d \in Dirs, SendBare(d) PROVE StreamsInv'
  BY <1>3, SendBareStreams
<1>4. ASSUME NEW d \in Dirs, NEW k \in {0} \cup Cuts, Close(d, k) PROVE StreamsInv'
  <2>1. k \in Nat
    BY WireAssumption
  <2> QED BY <1>4, <2>1, CloseStreams
<1>5. ASSUME NEW d \in Dirs, NEW k \in Chunks \cup {readable(d)}, Read(d, k) PROVE StreamsInv'
  <2>1. k \in Nat
    <3>1. CASE k \in Chunks
      BY <3>1, WireAssumption
    <3>2. CASE k = readable(d)
      <4>1. WireTypes /\ pos[d] + len[d] <= wrote[d]
        BY DEF StreamsInv, Dir, DirOK, RingOK
      <4>2. roomFor(d) \in Nat /\ roomFor(d) > len[d]
        BY <1>5, <4>1, RoomForMore DEF Read
      <4>3. wrote[d] \in Nat /\ pos[d] \in Nat /\ len[d] \in Nat
        BY <4>1 DEF WireTypes
      <4> QED BY <3>2, <4>1, <4>2, <4>3 DEF readable, available, shorter
    <3> QED BY <1>5, <3>1, <3>2
  <2> QED BY <1>5, <2>1, ReadStreams
<1>6. ASSUME NEW d \in Dirs, ReadEnd(d) PROVE StreamsInv'
  BY <1>6, ReadEndStreams
<1>7. ASSUME NEW d \in Dirs, ReadHello(d) PROVE StreamsInv'
  BY <1>7, ReadHelloStreams
<1>8. ASSUME NEW d \in Dirs, ClaimShort(d) \/ ClaimFrame(d) \/ ClaimWrong(d) PROVE StreamsInv'
  BY <1>8, ClaimShortStreams, ClaimFrameStreams, ClaimWrongStreams
<1>9. CASE UNCHANGED wireVars
  BY <1>9 DEF wireVars, ringVars, StreamsInv, WireTypes, Dir
<1> QED BY <1>1, <1>2, <1>3, <1>4, <1>5, <1>6, <1>7, <1>8, <1>9 DEF WireNext, Writers, Receiver

-----------------------------------------------------------------------------
(* The handshake: a step that changes no more than this keeps its order. *)
LEMMA HandshakeKept ==
  ASSUME asker \in Dirs, HandshakeInv, asker' = asker,
         \A e \in Dirs : /\ Open(e)' <=> Open(e)
                         /\ rx'[e] = "hello" => rx[e] = "hello"
                         /\ fin[e] => fin'[e]
                         /\ rx'[e] = "hello" /\ queue'[e] = <<>> => queue[e] = <<>>,
         ~Open(asker) => queue'[Back(asker)] = <<>>,
         DOMAIN lent' # {} => Open("cmd")
  PROVE  HandshakeInv'
<1>1. Back(asker) \in Dirs /\ "cmd" \in Dirs /\ Back(asker)' = Back(asker)
  BY TwoDirs DEF Back
<1>2. Open(asker)' <=> Open(asker)
  BY DEF Open
<1>3. Open(Back(asker))' <=> Open(Back(asker))
  BY <1>1 DEF Open
<1>4. Open("cmd")' <=> Open("cmd")
  BY <1>1
<1> QED BY <1>1, <1>2, <1>3, <1>4 DEF HandshakeInv

LEMMA PutHandshake ==
  ASSUME StreamsInv, HandshakeInv, NEW d \in Dirs, Open(Back(d)),
         NEW g \in AnyFrame, queue' = [queue EXCEPT ![d] = Append(@, g)],
         UNCHANGED <<asker, fin, rx, lent>>
  PROVE  HandshakeInv'
<1>1. asker \in Dirs /\ queue \in [Dirs -> Seq(AnyFrame)]
  BY DEF StreamsInv, WireTypes
<1>2. Append(queue[d], g) # <<>>
  BY <1>1
<1>3. \A e \in Dirs : queue'[e] = IF e = d THEN Append(queue[d], g) ELSE queue[e]
  BY <1>1
<1>4. \A e \in Dirs : queue'[e] = <<>> => queue[e] = <<>>
  BY <1>2, <1>3
<1>5. ASSUME ~Open(asker) PROVE queue'[Back(asker)] = <<>>
  <2>1. d = asker
    BY <1>1, <1>5 DEF Back, Dirs
  <2>2. Back(asker) \in Dirs /\ Back(asker) # d
    BY <1>1, <2>1, TwoDirs
  <2> QED BY <1>3, <1>5, <2>2 DEF HandshakeInv
<1>6. DOMAIN lent' # {} => Open("cmd")
  BY DEF HandshakeInv
<1>7. \A e \in Dirs : Open(e)' <=> Open(e)
  BY DEF Open
<1> QED BY <1>1, <1>4, <1>5, <1>6, <1>7, HandshakeKept

(* A step that leaves the queues and the requests alone, and ends no handshake
   but by a panic. *)
LEMMA QuietHandshake ==
  ASSUME StreamsInv, HandshakeInv, UNCHANGED <<asker, queue, lent>>,
         \A e \in Dirs : /\ Open(e)' <=> Open(e)
                         /\ rx'[e] = "hello" => rx[e] = "hello"
                         /\ fin[e] => fin'[e]
  PROVE  HandshakeInv'
<1>1. asker \in Dirs
  BY DEF StreamsInv, WireTypes
<1>2. ~Open(asker) => queue'[Back(asker)] = <<>>
  BY DEF HandshakeInv
<1>3. DOMAIN lent' # {} => Open("cmd")
  BY DEF HandshakeInv
<1>4. \A e \in Dirs : queue'[e] = <<>> => queue[e] = <<>>
  OBVIOUS
<1> QED BY <1>1, <1>2, <1>3, <1>4, HandshakeKept

LEMMA ClaimFrameHandshake ==
  ASSUME StreamsInv, HandshakeInv, NEW d \in Dirs, ClaimFrame(d)
  PROVE  HandshakeInv'
<1>1. asker \in Dirs /\ WireTypes
  BY DEF StreamsInv, WireTypes
<1>2. rx[d] = "run" /\ asker' = asker /\ fin' = fin
  BY DEF ClaimFrame, Ready
<1>3. \E s \in {"run", "panic"} : rx' = [rx EXCEPT ![d] = s]
  BY <1>2 DEF ClaimFrame
<1>4. \A e \in Dirs : (Open(e)' <=> Open(e)) /\ (rx'[e] = "hello" => e # d /\ rx[e] = "hello")
  BY <1>1, <1>2, <1>3 DEF WireTypes, Open
<1>5. \A e \in Dirs : e # d => queue'[e] = queue[e]
  BY <1>1 DEF WireTypes, ClaimFrame, Take
<1>6. ASSUME ~Open(asker) PROVE queue'[Back(asker)] = <<>>
  <2>1. ~Open(Back(asker)) /\ queue[Back(asker)] = <<>>
    BY <1>6 DEF HandshakeInv
  <2>2. Back(asker) \in Dirs /\ Back(asker) # d
    BY <1>1, <1>2, <2>1, TwoDirs DEF Open
  <2> QED BY <1>5, <2>1, <2>2
<1>7. ASSUME DOMAIN lent' # {} PROVE Open("cmd")
  <2>1. CASE d = "cmd"
    BY <1>2, <2>1 DEF Open
  <2>2. CASE d # "cmd"
    <3>1. lent' = lent
      BY <2>2 DEF ClaimFrame
    <3> QED BY <1>7, <3>1 DEF HandshakeInv
  <2> QED BY <2>1, <2>2
<1> QED BY <1>1, <1>2, <1>4, <1>5, <1>6, <1>7, HandshakeKept

LEMMA ReadHelloHandshake ==
  ASSUME StreamsInv, HandshakeInv, NEW d \in Dirs, ReadHello(d)
  PROVE  HandshakeInv'
<1>1. asker \in Dirs /\ rx \in [Dirs -> RxStates] /\ queue \in [Dirs -> Seq(AnyFrame)]
  BY DEF StreamsInv, WireTypes
<1>2. /\ rx[d] = "hello" /\ rx' = [rx EXCEPT ![d] = "run"] /\ need[d] <= len[d]
      /\ UNCHANGED <<asker, fin, lent>>
  BY DEF ReadHello, urbVars
<1>3. queue[d] # <<>>
  BY <1>2, HasFrame
<1>4. \A e \in Dirs : Open(e)' <=> (e = d \/ Open(e))
  BY <1>1, <1>2 DEF Open
<1>5. Back(asker) \in Dirs /\ Back(asker)' = Back(asker) /\ "cmd" \in Dirs /\ Back(asker) # asker
  BY <1>1, <1>2, TwoDirs DEF Back
<1>6. Open("cmd") => Open("cmd")'
  BY <1>4, <1>5
<1>7. CASE d = asker
  <2>1. Open(asker)'
    BY <1>1, <1>2, <1>7 DEF Open
  <2>2. rx'[Back(asker)] = rx[Back(asker)]
    BY <1>1, <1>2, <1>5, <1>7
  <2>3. ASSUME queue'[Back(asker)] = <<>> PROVE fin[Back(asker)]
    <3>1. SUFFICES ASSUME ~fin[Back(asker)] PROVE FALSE
      OBVIOUS
    <3>2. PICK g \in AnyFrame : queue' = [queue EXCEPT ![d] = Tail(@), ![Back(d)] = Append(@, g)]
      <4>1. Frame("hello", 0, wrote[Back(d)], HeaderLen, NoHeader) \in AnyFrame
        BY <1>5, <1>7, BareFrame
      <4> QED BY <1>7, <3>1, <4>1 DEF ReadHello
    <3>3. queue'[Back(asker)] = Append(queue[Back(asker)], g)
      BY <1>1, <1>5, <1>7, <3>2
    <3>4. Append(queue[Back(asker)], g) # <<>>
      <4>1. queue[Back(asker)] \in Seq(AnyFrame)
        BY <1>1, <1>5
      <4> QED BY <4>1
    <3> QED BY <2>3, <3>3, <3>4
  <2> QED BY <1>2, <1>5, <1>6, <2>1, <2>3 DEF HandshakeInv
<1>8. CASE d # asker
  <2>1. d = Back(asker)
    BY <1>1, <1>8, TwoDirs
  <2>2. Open(asker)
    BY <1>3, <2>1 DEF HandshakeInv
  <2>3. Open(asker)'
    BY <1>1, <1>2, <1>4, <2>2 DEF Open
  <2>4. rx'[Back(asker)] = "run"
    BY <1>1, <1>2, <2>1
  <2> QED BY <1>2, <1>5, <1>6, <2>3, <2>4 DEF HandshakeInv
<1> QED BY <1>7, <1>8

LEMMA HandshakeStep ==
  ASSUME StreamsInv, HandshakeInv, CmdInv, [WireNext]_wireVars
  PROVE  HandshakeInv'
<1>0. WireTypes /\ asker \in Dirs /\ rx \in [Dirs -> RxStates] /\ fin \in [Dirs -> BOOLEAN]
  BY DEF StreamsInv, WireTypes
<1>1. ASSUME NEW u \in Urbs, SendUrb(u) PROVE HandshakeInv'
  <2>1. "cmd" \in Dirs /\ Open(Back("cmd")) /\ UNCHANGED <<asker, fin, rx, lent>>
    BY <1>1 DEF SendUrb, Back, Dirs, ringVars
  <2>2. PICK g \in AnyFrame : queue' = [queue EXCEPT !["cmd"] = Append(@, g)]
    BY <1>1, UrbFrame
  <2> QED BY <2>1, <2>2, PutHandshake
<1>2. ASSUME NEW s \in DOMAIN lent, NEW n \in Moves, Completed(s, n) PROVE HandshakeInv'
  <2>1. "ret" \in Dirs /\ Open(Back("ret")) /\ UNCHANGED <<asker, fin, rx, lent>> /\ n \in Nat
    BY <1>2, WireAssumption DEF Completed, Back, Dirs, ringVars, HandshakeInv
  <2>2. PICK g \in AnyFrame : queue' = [queue EXCEPT !["ret"] = Append(@, g)]
    BY <1>2, <2>1, ReplyFrame
  <2> QED BY <2>1, <2>2, PutHandshake
<1>3. ASSUME NEW d \in Dirs, SendBare(d) PROVE HandshakeInv'
  <2>1. Open(Back(d)) /\ UNCHANGED <<asker, fin, rx, lent>>
    BY <1>3 DEF SendBare, ringVars, urbVars
  <2>2. PICK g \in AnyFrame : queue' = [queue EXCEPT ![d] = Append(@, g)]
    BY <1>3, BareFrame DEF SendBare, Put
  <2> QED BY <2>1, <2>2, PutHandshake
<1>4. ASSUME NEW d \in Dirs, NEW k, Close(d, k) PROVE HandshakeInv'
  <2>1. UNCHANGED <<asker, queue, rx, lent>> /\ fin' = [fin EXCEPT ![d] = TRUE]
    BY <1>4 DEF Close, ringVars, urbVars
  <2>2. \A e \in Dirs : fin[e] => fin'[e]
    BY <1>0, <2>1
  <2>3. \A e \in Dirs : (Open(e)' <=> Open(e)) /\ rx'[e] = rx[e]
    BY <2>1 DEF Open
  <2> QED BY <2>1, <2>2, <2>3, QuietHandshake
<1>5. ASSUME NEW d \in Dirs, NEW k, Read(d, k) PROVE HandshakeInv'
  <2>1. UNCHANGED <<asker, queue, rx, lent, fin>>
    BY <1>5 DEF Read, urbVars
  <2>2. \A e \in Dirs : (Open(e)' <=> Open(e)) /\ rx'[e] = rx[e] /\ fin'[e] = fin[e]
    BY <2>1 DEF Open
  <2> QED BY <2>1, <2>2, QuietHandshake
<1>6. ASSUME NEW d \in Dirs, ReadEnd(d) PROVE HandshakeInv'
  <2>1. UNCHANGED <<asker, queue, lent, fin>> /\ rx[d] \in {"hello", "run"}
    BY <1>6 DEF ReadEnd, urbVars, Reading
  <2>2. rx' = [rx EXCEPT ![d] = IF @ = "hello" THEN "helloPanic" ELSE "eof"]
    BY <1>6 DEF ReadEnd
  <2>3. \A e \in Dirs : (Open(e)' <=> Open(e)) /\ (rx'[e] = "hello" => rx[e] = "hello")
    BY <1>0, <2>1, <2>2 DEF Open
  <2> QED BY <2>1, <2>3, QuietHandshake
<1>7. ASSUME NEW d \in Dirs, ReadHello(d) PROVE HandshakeInv'
  BY <1>7, ReadHelloHandshake
<1>8. ASSUME NEW d \in Dirs, ClaimShort(d) PROVE HandshakeInv'
  <2>1. UNCHANGED <<asker, queue, rx, lent, fin>>
    BY <1>8 DEF ClaimShort, urbVars
  <2>2. \A e \in Dirs : (Open(e)' <=> Open(e)) /\ rx'[e] = rx[e] /\ fin'[e] = fin[e]
    BY <2>1 DEF Open
  <2> QED BY <2>1, <2>2, QuietHandshake
<1>9. ASSUME NEW d \in Dirs, ClaimWrong(d) PROVE HandshakeInv'
  <2>1. UNCHANGED <<asker, queue, lent, fin>> /\ rx[d] = "run" /\ rx' = [rx EXCEPT ![d] = "garbage"]
    BY <1>9 DEF ClaimWrong, urbVars, Ready
  <2>2. \A e \in Dirs : (Open(e)' <=> Open(e)) /\ (rx'[e] = "hello" => rx[e] = "hello")
    BY <1>0, <2>1 DEF Open
  <2> QED BY <2>1, <2>2, QuietHandshake
<1>10. ASSUME NEW d \in Dirs, ClaimFrame(d) PROVE HandshakeInv'
  BY <1>10, ClaimFrameHandshake
<1>11. CASE UNCHANGED wireVars
  BY <1>11 DEF wireVars, ringVars, urbVars, HandshakeInv, Open, Back
<1> QED BY <1>1, <1>2, <1>3, <1>4, <1>5, <1>6, <1>7, <1>8, <1>9, <1>10, <1>11
        DEF WireNext, Writers, Receiver

-----------------------------------------------------------------------------
(* The contents: a step keeps the URB frames of a direction if every one that
   is there afterwards was there before. *)
Kept(c) == \A i \in 1..Len(queue'[c]) : queue'[c][i].what = "urb" =>
             \E j \in 1..Len(queue[c]) : queue[c][j] = queue'[c][i]

LEMMA KeptSame ==
  ASSUME NEW c, queue'[c] = queue[c] PROVE Kept(c)
BY DEF Kept

LEMMA KeptTail ==
  ASSUME NEW c, queue[c] \in Seq(AnyFrame), queue[c] # <<>>, queue'[c] = Tail(queue[c])
  PROVE  Kept(c)
<1>1. /\ Len(Tail(queue[c])) = Len(queue[c]) - 1 /\ Len(queue[c]) \in Nat
      /\ \A i \in 1..(Len(queue[c]) - 1) : Tail(queue[c])[i] = queue[c][i + 1]
  OBVIOUS
<1>2. \A i \in 1..(Len(queue[c]) - 1) : i + 1 \in 1..Len(queue[c])
  BY <1>1
<1> QED BY <1>1, <1>2 DEF Kept

LEMMA KeptAppend ==
  ASSUME NEW c, queue[c] \in Seq(AnyFrame), NEW g \in AnyFrame, g.what # "urb",
         queue'[c] = Append(queue[c], g)
  PROVE  Kept(c)
<1>1. /\ Len(queue[c]) \in Nat /\ Len(Append(queue[c], g)) = Len(queue[c]) + 1
      /\ \A i \in 1..Len(queue[c]) : Append(queue[c], g)[i] = queue[c][i]
      /\ Append(queue[c], g)[Len(queue[c]) + 1] = g
  OBVIOUS
<1>2. \A i \in 1..(Len(queue[c]) + 1) : i \in 1..Len(queue[c]) \/ i = Len(queue[c]) + 1
  BY <1>1
<1> QED BY <1>1, <1>2 DEF Kept

LEMMA CmdKept ==
  ASSUME CmdInv, Kept("cmd"), UNCHANGED <<asked, lent>>
  PROVE  CmdInv'
<1>1. ASSUME NEW i \in 1..Len(queue'["cmd"]), queue'["cmd"][i].what = "urb"
      PROVE  CmdFrame(queue'["cmd"][i])
  <2>1. PICK j \in 1..Len(queue["cmd"]) : queue["cmd"][j] = queue'["cmd"][i]
    BY <1>1 DEF Kept
  <2> QED BY <1>1, <2>1 DEF CmdInv
<1>2. ASSUME NEW i \in 1..Len(queue'["cmd"]), queue'["cmd"][i].what = "urb"
      PROVE  CmdFrame(queue["cmd"][i])'
  BY <1>1, <1>2 DEF CmdFrame, Request
<1> QED BY <1>2 DEF CmdInv, Request

LEMMA RetKept ==
  ASSUME RetInv, Kept("ret"), UNCHANGED <<moved, back>>, DOMAIN lent \subseteq DOMAIN lent',
         \A s \in DOMAIN lent : lent'[s] = lent[s] /\ asked'[s] = asked[s]
  PROVE  RetInv'
<1>1. \A s \in DOMAIN moved : s \in DOMAIN lent /\ Request(s)' = Request(s)
  BY DEF RetInv, Request
<1>2. ASSUME NEW i \in 1..Len(queue'["ret"]), queue'["ret"][i].what = "urb"
      PROVE  RetFrame(queue["ret"][i])'
  <2>1. PICK j \in 1..Len(queue["ret"]) : queue["ret"][j] = queue'["ret"][i]
    BY <1>2 DEF Kept
  <2>2. RetFrame(queue'["ret"][i])
    BY <1>2, <2>1 DEF RetInv
  <2> QED BY <1>1, <2>2 DEF RetFrame, Request
<1>3. \A s \in DOMAIN back : s \in DOMAIN moved /\ Reply(s)' = Reply(s)
  BY <1>1 DEF RetInv, Reply, Request
<1>4. \A s \in DOMAIN back' : back'[s] = Reply(s)'
  BY <1>3 DEF RetInv
<1>5. /\ DOMAIN moved' \subseteq DOMAIN lent' /\ DOMAIN back' \subseteq DOMAIN moved'
      /\ \A s \in DOMAIN moved' : moved'[s] \in Nat /\ lent'[s].ok /\ moved'[s] <= lent'[s].len
  BY <1>1 DEF RetInv
<1> QED BY <1>2, <1>4, <1>5 DEF RetInv

LEMMA AppendUrb ==
  ASSUME CmdInv, NEW u \in Urbs, asked' = Append(asked, u)
  PROVE  /\ Len(asked) \in Nat /\ Len(asked') = Len(asked) + 1 /\ asked' \in Seq(Urbs)
         /\ asked'[Len(asked) + 1] = u
         /\ \A s \in 1..Len(asked) : asked'[s] = asked[s] /\ Request(s)' = Request(s)
<1>1. asked \in Seq(Urbs)
  BY DEF CmdInv
<1> QED BY <1>1 DEF Request

LEMMA SendUrbContents ==
  ASSUME StreamsInv, CmdInv, RetInv, NEW u \in Urbs, SendUrb(u)
  PROVE  CmdInv' /\ RetInv'
<1>1. asked' = Append(asked, u) /\ UNCHANGED <<lent, moved, back>> /\ Len(asked) < MaxUrb
  BY DEF SendUrb
<1>2. /\ Len(asked) \in Nat /\ Len(asked') = Len(asked) + 1 /\ asked' \in Seq(Urbs)
      /\ asked'[Len(asked) + 1] = u
      /\ \A s \in 1..Len(asked) : asked'[s] = asked[s] /\ Request(s)' = Request(s)
  BY <1>1, AppendUrb
<1>3. PICK g \in AnyFrame :
        /\ g.seq = Len(asked) + 1 /\ g.header = request_header(u) /\ g.bytes = request_bytes(u)
        /\ queue' = [queue EXCEPT !["cmd"] = Append(@, g)]
  BY UrbFrame
<1> DEFINE q == queue["cmd"]
<1>4. q \in Seq(AnyFrame) /\ queue'["cmd"] = Append(q, g) /\ queue'["ret"] = queue["ret"]
  BY <1>3 DEF StreamsInv, WireTypes, Dirs
<1>5. /\ Len(q) \in Nat /\ Len(Append(q, g)) = Len(q) + 1 /\ Append(q, g)[Len(q) + 1] = g
      /\ \A i \in 1..Len(q) : Append(q, g)[i] = q[i]
  <2> HIDE DEF q
  <2> QED BY <1>4
<1>6. ASSUME NEW i \in 1..Len(queue'["cmd"]), queue'["cmd"][i].what = "urb"
      PROVE  CmdFrame(queue["cmd"][i])'
  <2>1. CASE i \in 1..Len(q)
    <3>1. queue'["cmd"][i] = q[i] /\ CmdFrame(q[i])
      BY <1>4, <1>5, <1>6, <2>1 DEF CmdInv
    <3>2. q[i].seq \in 1..Len(asked')
      BY <1>2, <3>1 DEF CmdFrame
    <3> QED BY <1>2, <3>1, <3>2 DEF CmdFrame
  <2>2. CASE i = Len(q) + 1
    <3>1. queue'["cmd"][i] = g
      BY <1>4, <1>5, <2>2
    <3>2. g.seq \in 1..Len(asked') /\ asked'[g.seq] = u
      BY <1>2, <1>3
    <3> QED BY <1>3, <3>1, <3>2 DEF CmdFrame, Request
  <2> QED BY <1>4, <1>5, <1>6, <2>1, <2>2
<1>7. CmdInv'
  <2>1. DOMAIN lent' \subseteq 1..Len(asked')
    BY <1>1, <1>2 DEF CmdInv
  <2>2. ASSUME NEW s \in DOMAIN lent'
        PROVE  lent'[s] = lend_view(Request(s)', request_bytes(asked'[s]))
    <3>1. s \in 1..Len(asked) /\ lent[s] = lend_view(Request(s), request_bytes(asked[s]))
      BY <1>1, <2>2 DEF CmdInv
    <3> QED BY <1>1, <1>2, <3>1
  <2>3. Len(asked') <= MaxUrb
    BY <1>1, <1>2, WireAssumption
  <2> QED BY <1>2, <1>6, <2>1, <2>2, <2>3 DEF CmdInv
<1>8. RetInv'
  <2>1. \A s \in DOMAIN lent : lent'[s] = lent[s] /\ asked'[s] = asked[s]
    BY <1>1, <1>2 DEF CmdInv
  <2> QED BY <1>1, <1>4, <2>1, KeptSame, RetKept
<1> QED BY <1>7, <1>8

LEMMA CompletedContents ==
  ASSUME StreamsInv, CmdInv, RetInv, NEW s \in DOMAIN lent, NEW n \in Nat, Completed(s, n)
  PROVE  CmdInv' /\ RetInv'
<1>1. /\ moved' = Note(moved, s, n) /\ UNCHANGED <<asked, lent, back>>
      /\ s \notin DOMAIN moved /\ lent[s].ok /\ n <= lent[s].len
  BY DEF Completed
<1>2. PICK g \in AnyFrame :
        /\ g.seq = s /\ g.header = reply_header(Request(s), n)
        /\ g.bytes = reply_bytes(Request(s), n)
        /\ queue' = [queue EXCEPT !["ret"] = Append(@, g)]
  BY ReplyFrame
<1> DEFINE q == queue["ret"]
<1>3. q \in Seq(AnyFrame) /\ queue'["ret"] = Append(q, g) /\ queue'["cmd"] = queue["cmd"]
  BY <1>2 DEF StreamsInv, WireTypes, Dirs
<1>4. /\ Len(q) \in Nat /\ Len(Append(q, g)) = Len(q) + 1 /\ Append(q, g)[Len(q) + 1] = g
      /\ \A i \in 1..Len(q) : Append(q, g)[i] = q[i]
  <2> HIDE DEF q
  <2> QED BY <1>3
<1>5. /\ DOMAIN moved' = DOMAIN moved \cup {s} /\ moved'[s] = n
      /\ \A t \in DOMAIN moved : moved'[t] = moved[t]
  BY <1>1 DEF Note
<1>6. \A t : Request(t)' = Request(t)
  BY <1>1 DEF Request
<1>7. ASSUME NEW i \in 1..Len(queue'["ret"]), queue'["ret"][i].what = "urb"
      PROVE  RetFrame(queue["ret"][i])'
  <2>1. CASE i \in 1..Len(q)
    <3>1. queue'["ret"][i] = q[i] /\ RetFrame(q[i])
      BY <1>3, <1>4, <1>7, <2>1 DEF RetInv
    <3> QED BY <1>5, <1>6, <3>1 DEF RetFrame
  <2>2. CASE i = Len(q) + 1
    <3>1. queue'["ret"][i] = g
      BY <1>3, <1>4, <2>2
    <3> QED BY <1>2, <1>5, <1>6, <3>1 DEF RetFrame
  <2> QED BY <1>3, <1>4, <1>7, <2>1, <2>2
<1>8. CmdInv'
  BY <1>1, <1>3, KeptSame, CmdKept
<1>9. RetInv'
  <2>1. /\ DOMAIN moved' \subseteq DOMAIN lent' /\ DOMAIN back' \subseteq DOMAIN moved'
    BY <1>1, <1>5 DEF RetInv
  <2>2. \A t \in DOMAIN moved' : moved'[t] \in Nat /\ lent'[t].ok /\ moved'[t] <= lent'[t].len
    BY <1>1, <1>5 DEF RetInv
  <2>3. ASSUME NEW t \in DOMAIN back' PROVE back'[t] = Reply(t)'
    <3>1. t \in DOMAIN moved /\ back[t] = Reply(t)
      BY <1>1, <2>3 DEF RetInv
    <3> QED BY <1>1, <1>5, <1>6, <3>1 DEF Reply
  <2> QED BY <1>7, <2>1, <2>2, <2>3 DEF RetInv
<1> QED BY <1>8, <1>9

LEMMA BareContents ==
  ASSUME StreamsInv, CmdInv, RetInv, NEW d \in Dirs, SendBare(d)
  PROVE  CmdInv' /\ RetInv'
<1>1. UNCHANGED <<asked, lent, moved, back>>
  BY DEF SendBare, urbVars
<1>2. PICK g \in AnyFrame : g.what # "urb" /\ queue' = [queue EXCEPT ![d] = Append(@, g)]
  BY BareFrame DEF SendBare, Put
<1>3. ASSUME NEW c \in Dirs PROVE Kept(c)
  <2>1. queue[c] \in Seq(AnyFrame) /\ queue'[c] = IF c = d THEN Append(queue[c], g) ELSE queue[c]
    BY <1>2 DEF StreamsInv, WireTypes
  <2> QED BY <1>2, <2>1, KeptSame, KeptAppend
<1> QED BY <1>1, <1>3, CmdKept, RetKept DEF Dirs

LEMMA HelloContents ==
  ASSUME StreamsInv, CmdInv, RetInv, NEW d \in Dirs, ReadHello(d)
  PROVE  CmdInv' /\ RetInv'
<1>1. UNCHANGED <<asked, lent, moved, back>> /\ queue[d] # <<>>
  BY HasFrame DEF ReadHello, urbVars
<1>2. Back(d) \in Dirs /\ Back(d) # d /\ queue \in [Dirs -> Seq(AnyFrame)]
  BY TwoDirs DEF StreamsInv, WireTypes
<1>3. PICK g \in AnyFrame : /\ g.what # "urb"
                            /\ g = Frame("hello", 0, wrote[Back(d)], HeaderLen, NoHeader)
  BY <1>2, BareFrame
<1>4. \/ queue' = [queue EXCEPT ![d] = Tail(@), ![Back(d)] = Append(@, g)]
      \/ queue' = [queue EXCEPT ![d] = Tail(@)]
  BY <1>3 DEF ReadHello
<1>5. ASSUME NEW c \in Dirs PROVE Kept(c)
  <2>1. queue[c] \in Seq(AnyFrame)
    BY <1>2
  <2>2. \/ c = d /\ queue'[c] = Tail(queue[c])
        \/ queue'[c] = Append(queue[c], g)
        \/ queue'[c] = queue[c]
    BY <1>2, <1>4
  <2> QED BY <1>1, <1>3, <2>1, <2>2, KeptSame, KeptTail, KeptAppend
<1> QED BY <1>1, <1>5, CmdKept, RetKept DEF Dirs

LEMMA ClaimContents ==
  ASSUME StreamsInv, CmdInv, RetInv, NEW d \in Dirs, ClaimFrame(d)
  PROVE  CmdInv' /\ RetInv'
<1> DEFINE g == queue[d][1]
<1>1. UNCHANGED <<asked, moved>> /\ queue' = [queue EXCEPT ![d] = Tail(@)]
  BY DEF ClaimFrame, Take
<1>2. /\ queue[d] # <<>> /\ Head(queue[d]) = g /\ queue \in [Dirs -> Seq(AnyFrame)]
      /\ 1 \in 1..Len(queue[d])
  <2>1. queue[d] # <<>> /\ Head(queue[d]) = g /\ queue \in [Dirs -> Seq(AnyFrame)]
    BY HasFrame DEF ClaimFrame, Ready, StreamsInv, WireTypes
  <2>2. queue[d] \in Seq(AnyFrame)
    BY <2>1
  <2> QED BY <2>1, <2>2
<1>3. ASSUME NEW c \in Dirs PROVE Kept(c)
  <2>1. queue[c] \in Seq(AnyFrame) /\ queue'[c] = IF c = d THEN Tail(queue[c]) ELSE queue[c]
    BY <1>1, <1>2
  <2> QED BY <1>2, <2>1, KeptSame, KeptTail
<1>4. \A t : Request(t)' = Request(t)
  BY <1>1 DEF Request
<1>5. Kept("cmd") /\ Kept("ret")
  BY <1>3 DEF Dirs
<1>6. CASE g.what # "urb"
  <2>1. UNCHANGED <<lent, back>>
    BY <1>2, <1>6 DEF ClaimFrame
  <2> QED BY <1>1, <1>5, <2>1, CmdKept, RetKept
<1>7. CASE g.what = "urb" /\ d = "cmd"
  <2> DEFINE v == lend_view(Request(g.seq), request_bytes(asked[g.seq]))
  <2>1. CmdFrame(g)
    BY <1>2, <1>7 DEF CmdInv
  <2>2. lent' = Note(lent, g.seq, v) /\ UNCHANGED back
    BY <1>2, <1>7, <2>1 DEF ClaimFrame, CmdFrame
  <2>3. g.seq \in DOMAIN lent => lent[g.seq] = v
    BY DEF CmdInv
  <2> HIDE DEF v
  <2>4. /\ DOMAIN lent' = DOMAIN lent \cup {g.seq} /\ lent'[g.seq] = v
        /\ \A t \in DOMAIN lent : lent'[t] = lent[t]
    BY <2>2, <2>3 DEF Note
  <2>5. CmdInv'
    <3>1. \A i \in 1..Len(queue'["cmd"]) :
            queue'["cmd"][i].what = "urb" => CmdFrame(queue["cmd"][i])'
      <4>1. SUFFICES ASSUME NEW i \in 1..Len(queue'["cmd"]), queue'["cmd"][i].what = "urb"
                     PROVE  CmdFrame(queue["cmd"][i])'
        OBVIOUS
      <4>2. PICK j \in 1..Len(queue["cmd"]) : queue["cmd"][j] = queue'["cmd"][i]
        BY <1>5, <4>1 DEF Kept
      <4>3. CmdFrame(queue'["cmd"][i])
        BY <4>1, <4>2 DEF CmdInv
      <4> QED BY <1>1, <1>4, <4>3 DEF CmdFrame
    <3>2. DOMAIN lent' \subseteq 1..Len(asked')
      BY <1>1, <2>1, <2>4 DEF CmdInv, CmdFrame
    <3>3. \A t \in DOMAIN lent' : lent'[t] = lend_view(Request(t)', request_bytes(asked'[t]))
      BY <1>1, <1>4, <2>4 DEF CmdInv, v
    <3> QED BY <1>1, <3>1, <3>2, <3>3 DEF CmdInv
  <2>6. RetInv'
    BY <1>1, <1>5, <2>2, <2>4, RetKept
  <2> QED BY <2>5, <2>6
<1>8. CASE g.what = "urb" /\ d = "ret"
  <2> DEFINE v == Reply(g.seq)
  <2>1. RetFrame(g)
    BY <1>2, <1>8 DEF RetInv
  <2>2. back' = Note(back, g.seq, v) /\ UNCHANGED lent
    BY <1>2, <1>8, <2>1 DEF ClaimFrame, RetFrame, Reply
  <2>3. g.seq \in DOMAIN moved
    BY <2>1 DEF RetFrame
  <2> HIDE DEF v
  <2>4. /\ DOMAIN back' = DOMAIN back \cup {g.seq} /\ back'[g.seq] = v
        /\ \A t \in DOMAIN back : t # g.seq => back'[t] = back[t]
    BY <2>2 DEF Note
  <2>5. CmdInv'
    BY <1>1, <1>5, <2>2, CmdKept
  <2>6. RetInv'
    <3>1. \A i \in 1..Len(queue'["ret"]) :
            queue'["ret"][i].what = "urb" => RetFrame(queue["ret"][i])'
      <4>1. SUFFICES ASSUME NEW i \in 1..Len(queue'["ret"]), queue'["ret"][i].what = "urb"
                     PROVE  RetFrame(queue["ret"][i])'
        OBVIOUS
      <4>2. PICK j \in 1..Len(queue["ret"]) : queue["ret"][j] = queue'["ret"][i]
        BY <1>5, <4>1 DEF Kept
      <4>3. RetFrame(queue'["ret"][i])
        BY <4>1, <4>2 DEF RetInv
      <4> QED BY <1>1, <1>4, <4>3 DEF RetFrame
    <3>2. \A t : Reply(t)' = Reply(t)
      BY <1>1, <1>4 DEF Reply
    <3>3. \A t \in DOMAIN back' : back'[t] = Reply(t)'
      BY <2>4, <3>2 DEF RetInv, v
    <3>4. /\ DOMAIN moved' \subseteq DOMAIN lent' /\ DOMAIN back' \subseteq DOMAIN moved'
          /\ \A s \in DOMAIN moved' : moved'[s] \in Nat /\ lent'[s].ok /\ moved'[s] <= lent'[s].len
      BY <1>1, <2>2, <2>3, <2>4 DEF RetInv
    <3> QED BY <3>1, <3>3, <3>4 DEF RetInv
  <2> QED BY <2>5, <2>6
<1> QED BY <1>6, <1>7, <1>8 DEF Dirs

LEMMA ContentsStep ==
  ASSUME StreamsInv, CmdInv, RetInv, [WireNext]_wireVars
  PROVE  CmdInv' /\ RetInv'
<1>1. ASSUME NEW u \in Urbs, SendUrb(u) PROVE CmdInv' /\ RetInv'
  BY <1>1, SendUrbContents
<1>2. ASSUME NEW s \in DOMAIN lent, NEW n \in Moves, Completed(s, n) PROVE CmdInv' /\ RetInv'
  <2>1. n \in Nat
    BY WireAssumption
  <2> QED BY <1>2, <2>1, CompletedContents
<1>3. ASSUME NEW d \in Dirs, SendBare(d) PROVE CmdInv' /\ RetInv'
  BY <1>3, BareContents
<1>4. ASSUME NEW d \in Dirs, ReadHello(d) PROVE CmdInv' /\ RetInv'
  BY <1>4, HelloContents
<1>5. ASSUME NEW d \in Dirs, ClaimFrame(d) PROVE CmdInv' /\ RetInv'
  BY <1>5, ClaimContents
<1>6. ASSUME UNCHANGED <<queue, asked, lent, moved, back>> PROVE CmdInv' /\ RetInv'
  <2>1. Kept("cmd") /\ Kept("ret")
    BY <1>6, KeptSame
  <2> QED BY <1>6, <2>1, CmdKept, RetKept
<1>7. ASSUME NEW d \in Dirs, NEW k, Close(d, k) \/ Read(d, k) PROVE CmdInv' /\ RetInv'
  BY <1>6, <1>7 DEF Close, Read, urbVars
<1>8. ASSUME NEW d \in Dirs, ReadEnd(d) \/ ClaimShort(d) \/ ClaimWrong(d) PROVE CmdInv' /\ RetInv'
  BY <1>6, <1>8 DEF ReadEnd, ClaimShort, ClaimWrong, urbVars
<1>9. CASE UNCHANGED wireVars
  BY <1>6, <1>9 DEF wireVars, urbVars
<1> QED BY <1>1, <1>2, <1>3, <1>4, <1>5, <1>7, <1>8, <1>9 DEF WireNext, Writers, Receiver

LEMMA InitContents == WireInit => CmdInv /\ RetInv
<1> SUFFICES ASSUME WireInit PROVE CmdInv /\ RetInv
  OBVIOUS
<1>1. asked = <<>> /\ lent = <<>> /\ moved = <<>> /\ back = <<>>
  BY DEF WireInit
<1>2. DOMAIN lent = {} /\ DOMAIN moved = {} /\ DOMAIN back = {}
  BY <1>1
<1>3. asked \in Seq(Urbs) /\ Len(asked) <= MaxUrb
  BY <1>1, WireAssumption
<1>4. \A d \in Dirs : \A i \in 1..Len(queue[d]) : queue[d][i].what # "urb"
  <2> DEFINE hello == Frame("hello", 0, 0, HeaderLen, NoHeader)
  <2>1. hello.what = "hello"
    BY FrameParts
  <2> HIDE DEF hello
  <2>2. \A d \in Dirs : queue[d] = <<hello>> \/ queue[d] = <<>>
    BY DEF WireInit, hello
  <2> QED BY <2>1, <2>2
<1>5. CmdInv
  BY <1>2, <1>3, <1>4 DEF CmdInv, Dirs
<1>6. RetInv
  BY <1>2, <1>4 DEF RetInv, Dirs
<1> QED BY <1>5, <1>6

(* The inductive invariant. *)
WireInv == StreamsInv /\ HandshakeInv /\ CmdInv /\ RetInv

LEMMA WireInvariant == WireSpec => []WireInv
<1>1. WireInit => WireInv
  BY InitStreams, InitContents DEF WireInv
<1>2. WireInv /\ [WireNext]_wireVars => WireInv'
  BY StreamsStep, HandshakeStep, ContentsStep DEF WireInv
<1> QED BY <1>1, <1>2, PTL DEF WireSpec

-----------------------------------------------------------------------------
(* Every Ring holds no more than its capacity and every variable keeps its
   type: fill_until never reads more than it reserved, and no Ring is split
   below what it holds. *)
THEOREM WireTypeCorrect == WireSpec => []WireTypeOK
<1>1. WireInv => WireTypeOK
  <2> SUFFICES ASSUME WireInv PROVE WireTypeOK
    OBVIOUS
  <2>1. WireTypes /\ \A d \in Dirs : Dir(d)
    BY DEF WireInv, StreamsInv
  <2>2. ASSUME NEW d \in Dirs, NEW i \in DOMAIN queue[d]
        PROVE  /\ queue[d][i].what \in {"hello", "urb", "bare"} /\ queue[d][i].seq \in 0..MaxUrb
               /\ queue[d][i].at \in Nat /\ queue[d][i].bytes \in Nat
               /\ queue[d][i].what = "urb" => queue[d][i].header \in UrbHeader
    <3>1. queue[d] \in Seq(AnyFrame) /\ i \in 1..Len(queue[d])
      BY <2>1, <2>2 DEF WireTypes
    <3>2. queue[d][i] \in AnyFrame
      BY <3>1
    <3>3. FrameOK(queue[d][i])
      BY <2>1, <3>1 DEF Dir, DirOK, QueueOK
    <3>4. queue[d][i].what = "urb" => queue[d][i].header \in UrbHeader
      BY <3>3 DEF FrameOK
    <3>5. queue[d][i].seq \in Nat /\ queue[d][i].seq <= MaxUrb
      BY <3>2, <3>3, FrameFields DEF FrameOK
    <3> QED BY <3>2, <3>4, <3>5, WireAssumption DEF AnyFrame
  <2>3. /\ asked \in Seq(Urbs) /\ Len(asked) <= MaxUrb
        /\ DOMAIN moved \subseteq DOMAIN lent /\ DOMAIN back \subseteq DOMAIN moved
    BY DEF WireInv, CmdInv, RetInv
  <2> QED BY <2>1, <2>2, <2>3 DEF WireTypes, WireTypeOK, RxStates
<1> QED BY <1>1, WireInvariant, PTL

(* For every way the network cuts the stream and every mix of frames:
   recv_frame cuts a frame where it was put in, unless its length does not fit
   in 16 bits. *)
THEOREM FramesAreCutWhole == WireSpec => []CutWhole
<1>1. WireInv => CutWhole
  <2> SUFFICES ASSUME WireInv, NEW d \in Dirs
               PROVE  /\ rx[d] = "garbage" => Head(queue[d]).bytes >= 65536
                      /\ queue[d] # <<>> => Head(queue[d]).at = pos[d]
    BY DEF CutWhole
  <2>1. Dir(d) /\ queue[d] \in Seq(AnyFrame)
    BY DEF WireInv, StreamsInv, WireTypes
  <2>2. queue[d] # <<>> => Head(queue[d]) = queue[d][1]
    BY <2>1
  <2>3. queue[d] # <<>> => queue[d][1].at = pos[d]
    BY <2>1 DEF Dir, DirOK, QueueOK
  <2>4. rx[d] = "garbage" => queue[d] # <<>> /\ queue[d][1].bytes >= 65536
    BY <2>1 DEF Dir, DirOK, ReaderOK
  <2> QED BY <2>2, <2>3, <2>4
<1> QED BY <1>1, WireInvariant, PTL

(* recv_frame reports the end only when the writer is gone and every finished
   frame has been handed on: no read ever meets a Ring without room, which
   would look like the end. *)
THEOREM EndIsTheEnd == WireSpec => []EofIsReal
<1>1. WireInv => EofIsReal
  <2> SUFFICES ASSUME WireInv, NEW d \in Dirs, rx[d] = "eof"
               PROVE  /\ fin[d] /\ pos[d] + len[d] = wrote[d]
                      /\ queue[d] # <<>> => queue[d][1].at + queue[d][1].bytes > wrote[d]
    BY DEF EofIsReal
  <2>1. Dir(d)
    BY DEF WireInv, StreamsInv
  <2> QED BY <2>1 DEF Dir, DirOK, ReaderOK
<1> QED BY <1>1, WireInvariant, PTL

(* The header of every URB on the wire says how long its frame is, whichever
   writer made it. *)
THEOREM HeadersTellLengths == WireSpec => []LengthFromHeader
<1>1. WireInv => LengthFromHeader
  <2> SUFFICES ASSUME WireInv, NEW d \in Dirs, NEW i \in DOMAIN queue[d],
                      queue[d][i].what = "urb", queue[d][i].bytes < 65536
               PROVE  queue[d][i].bytes = Headers + required_byte_len(queue[d][i].header)
    BY DEF LengthFromHeader
  <2>1. Dir(d) /\ i \in 1..Len(queue[d])
    BY DEF WireInv, StreamsInv, WireTypes
  <2>2. FrameOK(queue[d][i])
    BY <2>1 DEF Dir, DirOK, QueueOK
  <2> QED BY <2>2 DEF FrameOK
<1> QED BY <1>1, WireInvariant, PTL

-----------------------------------------------------------------------------
(* URBs whose lengths survive 'as u16'; only isochronous ones have packets. *)
Fits(u) == u.len <= 65528 /\ u.pkts < 65536 /\ (u.kind # "iso" => u.pkts = 0)
UrbsFit == \A u \in Urbs : Fits(u)

LEMMA FitHeader ==
  ASSUME NEW u \in Urb, Fits(u)
  PROVE  /\ u.len \in Nat /\ u.pkts \in Nat /\ u.out \in BOOLEAN /\ u.kind \in Kinds
         /\ request_header(u).alen = u.len /\ request_header(u).pkts = u.pkts
         /\ request_header(u).kind = u.kind /\ request_header(u).out = u.out
         /\ request_bytes(u) = 32 + (IF u.out THEN align(u.len) ELSE 0) + u.pkts * 8
<1>1. u.len \in Nat /\ u.pkts \in Nat /\ u.out \in BOOLEAN /\ u.kind \in Kinds
  BY DEF Urb
<1>2. u16(u.len) = u.len /\ u16(u.pkts) = u.pkts
  BY <1>1, Cut16 DEF Fits
<1>3. /\ request_header(u).alen = u.len /\ request_header(u).pkts = u.pkts
      /\ request_header(u).kind = u.kind /\ request_header(u).out = u.out
  BY <1>2 DEF request_header
<1>4. Headers = 32
  BY DEF Headers, HeaderLen, UrbHeaderLen
<1> QED BY <1>1, <1>3, <1>4 DEF request_bytes, padded_transfer_len, iso_byte_len, PktLen

(* What the lender makes of a request. *)
LEMMA LentRight ==
  ASSUME NEW u \in Urb, Fits(u)
  PROVE  LET v == lend_view(request_header(u), request_bytes(u))
         IN v.len = u.len /\ (v.ok => v.iso = u.pkts * PktLen)
<1> DEFINE h == request_header(u)
           b == request_bytes(u)
<1>1. /\ u.len \in Nat /\ u.pkts \in Nat /\ u.out \in BOOLEAN /\ u.kind \in Kinds
      /\ h.alen = u.len /\ h.pkts = u.pkts /\ h.kind = u.kind /\ h.out = u.out
      /\ b = 32 + (IF u.out THEN align(u.len) ELSE 0) + u.pkts * 8
  BY FitHeader
<1>2. align(u.len) \in Nat /\ u.len <= align(u.len)
  BY <1>1, Aligned
<1> HIDE DEF h, b
<1>3. data_len(b) = (IF u.out THEN align(u.len) ELSE 0) + u.pkts * 8
  BY <1>1, <1>2 DEF data_len, Headers, HeaderLen, UrbHeaderLen
<1>4. u.out => shorter(h.alen, data_len(b)) = u.len
  BY <1>1, <1>2, <1>3 DEF shorter
<1>5. u.kind # "iso" => u.pkts * PktLen = 0
  BY <1>1 DEF Fits, PktLen
<1>6. CASE u.kind = "ctrl"
  <2>1. lend_view(h, b) = new_ctrl(h, b)
    BY <1>1, <1>6 DEF lend_view
  <2>2. new_ctrl(h, b).len = u.len /\ new_ctrl(h, b).iso = 0
    BY <1>1, <1>4 DEF new_ctrl
  <2> QED BY <1>5, <1>6, <2>1, <2>2 DEF h, b
<1>7. CASE u.kind \in {"int", "bulk"}
  <2>1. lend_view(h, b) = new_int(h, b)
    BY <1>1, <1>7 DEF lend_view, new_bulk
  <2>2. new_int(h, b).len = u.len /\ new_int(h, b).iso = 0
    BY <1>1, <1>4 DEF new_int
  <2> QED BY <1>5, <1>7, <2>1, <2>2 DEF h, b
<1>8. CASE u.kind = "iso"
  <2>1. lend_view(h, b) = new_iso(h, b)
    BY <1>1, <1>8 DEF lend_view
  <2>2. new_iso(h, b).len = u.len /\ (new_iso(h, b).ok => new_iso(h, b).iso = u.pkts * PktLen)
    BY <1>1 DEF new_iso, iso_byte_len
  <2> QED BY <2>1, <2>2 DEF h, b
<1> QED BY <1>1, <1>6, <1>7, <1>8 DEF Kinds

(* What the borrower makes of the reply to a transfer that moved n bytes. *)
LEMMA BackRight ==
  ASSUME NEW u \in Urb, Fits(u), NEW n \in Nat, n <= u.len
  PROVE  LET h == request_header(u)
             v == urb_reply(reply_header(h, n), reply_bytes(h, n))
         IN v.ok /\ v.iso = u.pkts * PktLen /\ v.len = result_len(h, n)
<1> DEFINE h == request_header(u)
           r == result_len(h, n)
           hh == reply_header(h, n)
           b == reply_bytes(h, n)
<1>1. /\ u.len \in Nat /\ u.pkts \in Nat /\ u.out \in BOOLEAN /\ u.kind \in Kinds
      /\ h.alen = u.len /\ h.pkts = u.pkts /\ h.kind = u.kind /\ h.out = u.out
  BY FitHeader
<1> HIDE DEF h
<1>2. align(u.len) \in Nat /\ align(u.len) < 65536
  BY <1>1 DEF align, Fits
<1>3. r \in Nat /\ r < 65536
  BY <1>1, <1>2 DEF result_len, padded_transfer_len, Fits
<1>4. hh.out = u.out /\ hh.alen = u16(r)
  BY <1>1 DEF reply_header
<1>5. b = Headers + (IF u.out THEN 0 ELSE r + padding(u16(r)))
            + (IF u.kind = "iso" THEN u.pkts * PktLen ELSE 0)
  BY <1>1 DEF reply_bytes, iso_byte_len
<1> HIDE DEF r, hh, b
<1>6. u16(r) = r
  BY <1>3, Cut16
<1>7. align(r) \in Nat /\ r + padding(r) = align(r)
  BY <1>3 DEF align, padding
<1>8. Headers = 32 /\ u.pkts * PktLen \in Nat
      /\ (IF u.kind = "iso" THEN u.pkts * PktLen ELSE 0) = u.pkts * PktLen
  BY <1>1 DEF Headers, HeaderLen, UrbHeaderLen, PktLen, Fits
<1>9. b = 32 + (IF u.out THEN 0 ELSE align(r)) + u.pkts * PktLen
  BY <1>5, <1>6, <1>7, <1>8
<1>10. data_len(b) = (IF u.out THEN 0 ELSE align(r)) + u.pkts * PktLen
  BY <1>7, <1>8, <1>9 DEF data_len
<1>11. padded_transfer_len(hh) = align(r)
  BY <1>4, <1>6 DEF padded_transfer_len
<1>12. CASE u.out
  <2>1. data_len(b) = u.pkts * PktLen
    BY <1>8, <1>10, <1>12
  <2>2. urb_reply(hh, b) = [ok |-> TRUE, len |-> hh.alen, iso |-> data_len(b)]
    BY <1>4, <1>12 DEF urb_reply
  <2> QED BY <1>4, <1>6, <2>1, <2>2 DEF h, hh, b, r
<1>13. CASE ~u.out
  <2>1. /\ padded_transfer_len(hh) <= data_len(b)
        /\ data_len(b) - padded_transfer_len(hh) = u.pkts * PktLen
    BY <1>7, <1>8, <1>10, <1>11, <1>13
  <2>2. urb_reply(hh, b) = [ok |-> padded_transfer_len(hh) <= data_len(b), len |-> hh.alen,
                            iso |-> data_len(b) - padded_transfer_len(hh)]
    BY <1>4, <1>13 DEF urb_reply
  <2>3. urb_reply(hh, b).ok = (padded_transfer_len(hh) <= data_len(b))
    BY <2>2
  <2>4. urb_reply(hh, b).ok
    BY <2>1, <2>3, Zenon
  <2>5. urb_reply(hh, b).len = r /\ urb_reply(hh, b).iso = u.pkts * PktLen
    BY <1>4, <1>6, <2>1, <2>2
  <2> QED BY <2>4, <2>5 DEF h, hh, b, r
<1> QED BY <1>1, <1>12, <1>13

(* For URBs whose lengths fit in 16 bits, of any kind and direction: process_urb,
   the new_* constructors, the *_completed handlers and urb_reply together keep
   the length and the packets of a transfer, each way. *)
THEOREM LengthsSurvive == UrbsFit => (WireSpec => []RoundTrip)
<1> SUFFICES ASSUME UrbsFit PROVE WireSpec => []RoundTrip
  OBVIOUS
<1>1. WireInv => RoundTrip
  <2> SUFFICES ASSUME WireInv PROVE RoundTrip
    OBVIOUS
  <2>0. CmdInv /\ RetInv
    BY DEF WireInv
  <2>1. \A s \in 1..Len(asked) : asked[s] \in Urb /\ Fits(asked[s])
    BY <2>0, AskedUrb DEF UrbsFit, CmdInv
  <2>2. \A s \in DOMAIN lent : /\ lent[s].len = asked[s].len
                               /\ lent[s].ok => lent[s].iso = asked[s].pkts * PktLen
    <3> SUFFICES ASSUME NEW s \in DOMAIN lent
                 PROVE  /\ lent[s].len = asked[s].len
                        /\ lent[s].ok => lent[s].iso = asked[s].pkts * PktLen
      OBVIOUS
    <3>1. s \in 1..Len(asked) /\ lent[s] = lend_view(request_header(asked[s]), request_bytes(asked[s]))
      BY <2>0 DEF CmdInv, Request
    <3>2. asked[s] \in Urb /\ Fits(asked[s])
      BY <2>1, <3>1
    <3> QED BY <3>1, <3>2, LentRight
  <2>3. ASSUME NEW s \in DOMAIN back
        PROVE  /\ back[s].ok /\ back[s].iso = asked[s].pkts * PktLen
               /\ back[s].len = result_len(request_header(asked[s]), moved[s])
    <3>1. s \in DOMAIN moved /\ s \in DOMAIN lent /\ moved[s] \in Nat /\ moved[s] <= lent[s].len
      BY <2>0, <2>3 DEF RetInv
    <3>2. s \in 1..Len(asked)
      BY <2>0, <3>1 DEF CmdInv
    <3>3. asked[s] \in Urb /\ Fits(asked[s]) /\ moved[s] <= asked[s].len
      BY <2>1, <2>2, <3>1, <3>2
    <3>4. back[s] = urb_reply(reply_header(request_header(asked[s]), moved[s]),
                              reply_bytes(request_header(asked[s]), moved[s]))
      BY <2>0, <2>3 DEF RetInv, Reply, Request
    <3> QED BY <3>1, <3>3, <3>4, BackRight
  <2> QED BY <2>2, <2>3 DEF RoundTrip
<1> QED BY <1>1, WireInvariant, PTL
=============================================================================
