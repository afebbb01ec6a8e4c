--------------------------- MODULE SessionReplies ---------------------------
(***************************************************************************)
(* What becomes of a sequence number, for every number of URBs, resets and *)
(* handles: it is in one command frame, then one transfer, then one reply, *)
(* and answers the URB it was drawn for.  The borrower's two buffers, the  *)
(* stream, the lender's transfers, its five channels and its two buffers   *)
(* are one pipeline in which a number is never in two places.              *)
(*                                                                         *)
(* And what the pipeline carries: a command asks for the URB its number    *)
(* was drawn for, a completion and a reply carry the result of the         *)
(* transfer they answer, and a giveback finds the URB it was made for.     *)
(***************************************************************************)
EXTENDS SessionProofs, SequenceTheorems

Cmds == {"CmdSubmit", "CmdPort"}
Rets == {"RetSubmit", "RetPort"}

LEMMA SeqnumNat == Seqnum \subseteq Nat
BY BorrowAssumption DEF Seqnum

(* s is in queue q, in a frame of one of the kinds C. *)
Has(q, C, s) == \E i \in DOMAIN q : q[i].cmd \in C /\ q[i].seq = s

LEMMA HasPut ==
  ASSUME NEW S, NEW q \in Seq(S), NEW e, NEW C
  PROVE  \A s : Has(Append(q, e), C, s) <=> Has(q, C, s) \/ (e.cmd \in C /\ e.seq = s)
<1> DEFINE p == Append(q, e)
<1>1. /\ Len(p) = Len(q) + 1 /\ p[Len(q) + 1] = e /\ Len(q) \in Nat
      /\ DOMAIN p = 1..(Len(q) + 1) /\ DOMAIN q = 1..Len(q)
      /\ \A i \in DOMAIN q : p[i] = q[i] /\ i \in DOMAIN p
      /\ \A i \in DOMAIN p : i \in DOMAIN q \/ i = Len(q) + 1
      /\ Len(q) + 1 \in DOMAIN p
  OBVIOUS
<1> HIDE DEF p
<1>2. \A s : Has(p, C, s) <=> Has(q, C, s) \/ (e.cmd \in C /\ e.seq = s)
  BY <1>1 DEF Has
<1> QED BY <1>2 DEF p

LEMMA HasTake ==
  ASSUME NEW S, NEW q \in Seq(S), q # <<>>, NEW C
  PROVE  /\ \A s : Has(q, C, s) <=> Has(Tail(q), C, s) \/ (Head(q).cmd \in C /\ Head(q).seq = s)
         /\ \A s : Has(Tail(q), C, s) => Has(q, C, s)
<1> DEFINE p == Tail(q)
<1>1. /\ Head(q) = q[1] /\ 1 \in DOMAIN q
      /\ \A i \in DOMAIN p : i + 1 \in DOMAIN q /\ p[i] = q[i + 1]
      /\ \A i \in DOMAIN q : i = 1 \/ (i - 1 \in DOMAIN p /\ p[i - 1] = q[i])
  OBVIOUS
<1> HIDE DEF p
<1>2. \A s : Has(q, C, s) <=> Has(p, C, s) \/ (Head(q).cmd \in C /\ Head(q).seq = s)
  BY <1>1 DEF Has
<1> QED BY <1>2 DEF p

LEMMA HasNone ==
  ASSUME NEW C, NEW s
  PROVE  ~Has(<<>>, C, s)
BY DEF Has

-----------------------------------------------------------------------------
(* Commands travel in the order of their sequence numbers. *)
Sorted(q) ==
  \A i, j \in DOMAIN q : i < j /\ q[i].cmd \in Cmds /\ q[j].cmd \in Cmds => q[i].seq < q[j].seq
Ahead(p, q) == \A s, t : Has(p, Cmds, s) /\ Has(q, Cmds, t) => s < t

LEMMA SortedPut ==
  ASSUME NEW S, NEW q \in Seq(S), NEW e, Sorted(q),
         e.cmd \in Cmds => \A s : Has(q, Cmds, s) => s < e.seq
  PROVE  Sorted(Append(q, e))
<1> DEFINE p == Append(q, e)
<1>1. /\ Len(q) \in Nat /\ DOMAIN p = 1..(Len(q) + 1) /\ DOMAIN q = 1..Len(q)
      /\ p[Len(q) + 1] = e /\ \A i \in DOMAIN q : p[i] = q[i]
  OBVIOUS
<1> HIDE DEF p
<1>2. ASSUME NEW i \in DOMAIN p, NEW j \in DOMAIN p, i < j, p[i].cmd \in Cmds, p[j].cmd \in Cmds
      PROVE  p[i].seq < p[j].seq
  <2>1. CASE j \in DOMAIN q
    BY <1>1, <1>2, <2>1 DEF Sorted
  <2>2. CASE j = Len(q) + 1
    <3>1. i \in DOMAIN q /\ p[i] = q[i] /\ p[j] = e
      BY <1>1, <1>2, <2>2
    <3>2. Has(q, Cmds, q[i].seq)
      BY <1>2, <3>1 DEF Has
    <3> QED BY <1>2, <3>1, <3>2
  <2> QED BY <1>1, <2>1, <2>2
<1>3. Sorted(p)
  BY <1>2 DEF Sorted
<1> QED BY <1>3 DEF p

LEMMA SortedTake ==
  ASSUME NEW S, NEW q \in Seq(S), q # <<>>, Sorted(q)
  PROVE  /\ Sorted(Tail(q))
         /\ Head(q).cmd \in Cmds => \A s : Has(Tail(q), Cmds, s) => Head(q).seq < s
<1> DEFINE p == Tail(q)
<1>1. /\ Head(q) = q[1] /\ 1 \in DOMAIN q
      /\ \A i \in DOMAIN p : i \in Nat /\ i + 1 \in DOMAIN q /\ 1 < i + 1 /\ p[i] = q[i + 1]
  OBVIOUS
<1> HIDE DEF p
<1>2. Sorted(p)
  <2> SUFFICES ASSUME NEW i \in DOMAIN p, NEW j \in DOMAIN p, i < j,
                      p[i].cmd \in Cmds, p[j].cmd \in Cmds
               PROVE  p[i].seq < p[j].seq
    BY DEF Sorted
  <2>1. i + 1 < j + 1 /\ p[i] = q[i + 1] /\ p[j] = q[j + 1]
    BY <1>1
  <2> QED BY <1>1, <2>1 DEF Sorted
<1>3. Head(q).cmd \in Cmds => \A s : Has(p, Cmds, s) => Head(q).seq < s
  BY <1>1 DEF Has, Sorted
<1> QED BY <1>2, <1>3 DEF p

LEMMA SortedNone == Sorted(<<>>)
BY DEF Sorted

(* The commands on their way: on the stream, in the current write, and in the
   buffer.  "sent" are the numbers that wait for a reply, "known" those the
   lender has seen. *)
CmdsOK(l, f, b, sent, known) ==
  /\ l \in Seq(CmdFrames(Seqnum)) /\ f \in Seq(CmdFrames(Seqnum)) /\ b \in Seq(CmdFrames(Seqnum))
  /\ Sorted(l) /\ Sorted(f) /\ Sorted(b)
  /\ Ahead(l, f) /\ Ahead(f, b) /\ Ahead(l, b)
  /\ \A s : Has(l, Cmds, s) \/ Has(f, Cmds, s) \/ Has(b, Cmds, s) =>
       s \in sent /\ \A t \in known : t < s

LEMMA CmdPut ==
  ASSUME NEW l, NEW f, NEW b, NEW sent, NEW known, CmdsOK(l, f, b, sent, known),
         NEW e \in CmdFrames(Seqnum), NEW more, sent \subseteq more,
         e.cmd \in Cmds => /\ e.seq \in more
                           /\ \A t \in known : t < e.seq
                           /\ \A s \in sent : s < e.seq
  PROVE  CmdsOK(l, f, Append(b, e), more, known)
<1>1. /\ Append(b, e) \in Seq(CmdFrames(Seqnum))
      /\ \A s : Has(Append(b, e), Cmds, s) <=> Has(b, Cmds, s) \/ (e.cmd \in Cmds /\ e.seq = s)
  BY HasPut, QueuePut DEF CmdsOK
<1>2. Sorted(Append(b, e))
  BY SortedPut DEF CmdsOK
<1> QED BY <1>1, <1>2 DEF CmdsOK, Ahead

LEMMA CmdFlush ==
  ASSUME NEW l, NEW b, NEW sent, NEW known, CmdsOK(l, <<>>, b, sent, known)
  PROVE  CmdsOK(l, b, <<>>, sent, known)
BY HasNone, SortedNone, EmptyQueue DEF CmdsOK, Ahead

LEMMA CmdWrite ==
  ASSUME NEW l, NEW f, NEW b, NEW sent, NEW known, CmdsOK(l, f, b, sent, known), f # <<>>
  PROVE  CmdsOK(Append(l, Head(f)), Tail(f), b, sent, known)
<1> DEFINE e == Head(f)
           g == Tail(f)
<1>1. /\ e \in CmdFrames(Seqnum) /\ g \in Seq(CmdFrames(Seqnum))
      /\ Append(l, e) \in Seq(CmdFrames(Seqnum))
  BY QueueTake, QueuePut DEF CmdsOK
<1>2. /\ \A s : Has(f, Cmds, s) <=> Has(g, Cmds, s) \/ (e.cmd \in Cmds /\ e.seq = s)
      /\ Sorted(g) /\ (e.cmd \in Cmds => \A s : Has(g, Cmds, s) => e.seq < s)
  BY HasTake, SortedTake DEF CmdsOK
<1> HIDE DEF e, g
<1>3. \A s : Has(Append(l, e), Cmds, s) <=> Has(l, Cmds, s) \/ (e.cmd \in Cmds /\ e.seq = s)
  BY HasPut DEF CmdsOK
<1>4. Sorted(Append(l, e))
  BY <1>2, SortedPut DEF CmdsOK, Ahead
<1>5. CmdsOK(Append(l, e), g, b, sent, known)
  BY <1>1, <1>2, <1>3, <1>4 DEF CmdsOK, Ahead
<1> QED BY <1>5 DEF e, g

(* The send loop drops what it has not written, the lender or a lost
   connection what it has not read. *)
LEMMA CmdDrop ==
  ASSUME NEW l, NEW f, NEW b, NEW sent, NEW known, CmdsOK(l, f, b, sent, known)
  PROVE  CmdsOK(l, <<>>, <<>>, sent, known) /\ CmdsOK(<<>>, f, b, sent, known)
BY HasNone, SortedNone, EmptyQueue DEF CmdsOK, Ahead

LEMMA CmdTake ==
  ASSUME NEW l, NEW f, NEW b, NEW sent, NEW known, CmdsOK(l, f, b, sent, known), l # <<>>
  PROVE  /\ CmdsOK(Tail(l), f, b, sent, known)
         /\ Head(l).cmd \in Cmds =>
              /\ Head(l).seq \in sent /\ Head(l).seq \notin known
              /\ CmdsOK(Tail(l), f, b, sent, known \cup {Head(l).seq})
<1> DEFINE e == Head(l)
           m == Tail(l)
<1>1. e \in CmdFrames(Seqnum) /\ m \in Seq(CmdFrames(Seqnum)) /\ e.seq \in Nat
  <2>1. e \in CmdFrames(Seqnum) /\ m \in Seq(CmdFrames(Seqnum))
    BY QueueTake DEF CmdsOK
  <2>2. e.seq \in Seqnum
    BY <2>1 DEF CmdFrames
  <2> QED BY <2>1, <2>2, SeqnumNat
<1>2. /\ \A s : Has(l, Cmds, s) <=> Has(m, Cmds, s) \/ (e.cmd \in Cmds /\ e.seq = s)
      /\ Sorted(m) /\ (e.cmd \in Cmds => \A s : Has(m, Cmds, s) => e.seq < s)
  BY HasTake, SortedTake DEF CmdsOK
<1> HIDE DEF e, m
<1>3. CmdsOK(m, f, b, sent, known)
  BY <1>1, <1>2 DEF CmdsOK, Ahead
<1>4. ASSUME e.cmd \in Cmds
      PROVE  e.seq \in sent /\ e.seq \notin known /\ CmdsOK(m, f, b, sent, known \cup {e.seq})
  BY <1>1, <1>2, <1>3, <1>4 DEF CmdsOK, Ahead
<1> QED BY <1>3, <1>4 DEF e, m

LEMMA CmdForget ==
  ASSUME NEW l, NEW f, NEW b, NEW sent, NEW known, CmdsOK(l, f, b, sent, known),
         NEW s \in known, s \in Nat
  PROVE  CmdsOK(l, f, b, sent \ {s}, known)
BY DEF CmdsOK

-----------------------------------------------------------------------------
(* Replies: no number is in two of them, wherever they are. *)
Once(q) == \A i, j \in DOMAIN q :
             q[i].cmd \in Rets /\ q[j].cmd \in Rets /\ q[i].seq = q[j].seq => i = j
Apart(p, q) == \A s : ~(Has(p, Rets, s) /\ Has(q, Rets, s))

LEMMA CmdMore ==
  ASSUME NEW l, NEW f, NEW b, NEW sent, NEW known, CmdsOK(l, f, b, sent, known),
         NEW more, sent \subseteq more
  PROVE  CmdsOK(l, f, b, more, known)
BY DEF CmdsOK

LEMMA OncePut ==
  ASSUME NEW S, NEW q \in Seq(S), NEW e, Once(q),
         e.cmd \in Rets => ~Has(q, Rets, e.seq)
  PROVE  Once(Append(q, e))
<1> DEFINE p == Append(q, e)
<1>1. /\ Len(q) \in Nat /\ DOMAIN p = 1..(Len(q) + 1) /\ DOMAIN q = 1..Len(q)
      /\ p[Len(q) + 1] = e /\ \A i \in DOMAIN q : p[i] = q[i]
  OBVIOUS
<1> HIDE DEF p
<1>2. ASSUME NEW i \in DOMAIN p, NEW j \in DOMAIN p, p[i].cmd \in Rets, p[j].cmd \in Rets,
             p[i].seq = p[j].seq
      PROVE  i = j
  <2>1. CASE i \in DOMAIN q /\ j \in DOMAIN q
    BY <1>1, <1>2, <2>1 DEF Once
  <2>2. CASE i = Len(q) + 1 /\ j \in DOMAIN q
    BY <1>1, <1>2, <2>2 DEF Has
  <2>3. CASE j = Len(q) + 1 /\ i \in DOMAIN q
    BY <1>1, <1>2, <2>3 DEF Has
  <2> QED BY <1>1, <2>1, <2>2, <2>3
<1>3. Once(p)
  BY <1>2 DEF Once
<1> QED BY <1>3 DEF p

LEMMA OnceTake ==
  ASSUME NEW S, NEW q \in Seq(S), q # <<>>, Once(q)
  PROVE  Once(Tail(q)) /\ (Head(q).cmd \in Rets => ~Has(Tail(q), Rets, Head(q).seq))
<1> DEFINE p == Tail(q)
<1>1. /\ Head(q) = q[1] /\ 1 \in DOMAIN q
      /\ \A i \in DOMAIN p : i \in Nat /\ i + 1 \in DOMAIN q /\ i + 1 # 1 /\ p[i] = q[i + 1]
      /\ \A i, j \in DOMAIN p : i + 1 = j + 1 => i = j
  OBVIOUS
<1> HIDE DEF p
<1>2. Once(p)
  BY <1>1 DEF Once
<1>3. Head(q).cmd \in Rets => ~Has(p, Rets, Head(q).seq)
  BY <1>1 DEF Has, Once
<1> QED BY <1>2, <1>3 DEF p

LEMMA OnceNone == Once(<<>>)
BY DEF Once

(* Completions, in the channels and with the receive loop. *)
Queued(q, s) == \E i \in DOMAIN q : q[i].seq = s
Single(q) == \A i, j \in DOMAIN q : q[i].seq = q[j].seq => i = j

LEMMA QueuedPut ==
  ASSUME NEW S, NEW q \in Seq(S), NEW e, Single(q), ~Queued(q, e.seq)
  PROVE  /\ \A s : Queued(Append(q, e), s) <=> Queued(q, s) \/ e.seq = s
         /\ Single(Append(q, e))
<1> DEFINE p == Append(q, e)
<1>1. /\ Len(q) \in Nat /\ DOMAIN p = 1..(Len(q) + 1) /\ DOMAIN q = 1..Len(q)
      /\ p[Len(q) + 1] = e /\ \A i \in DOMAIN q : p[i] = q[i] /\ i \in DOMAIN p
      /\ \A i \in DOMAIN p : i \in DOMAIN q \/ i = Len(q) + 1
      /\ Len(q) + 1 \in DOMAIN p
  OBVIOUS
<1> HIDE DEF p
<1>2. \A s : Queued(p, s) <=> Queued(q, s) \/ e.seq = s
  BY <1>1 DEF Queued
<1>3. ASSUME NEW i \in DOMAIN p, NEW j \in DOMAIN p, p[i].seq = p[j].seq
      PROVE  i = j
  <2>1. CASE i \in DOMAIN q /\ j \in DOMAIN q
    BY <1>1, <1>3, <2>1 DEF Single
  <2>2. CASE i = Len(q) + 1 /\ j \in DOMAIN q
    BY <1>1, <1>3, <2>2 DEF Queued
  <2>3. CASE j = Len(q) + 1 /\ i \in DOMAIN q
    BY <1>1, <1>3, <2>3 DEF Queued
  <2> QED BY <1>1, <2>1, <2>2, <2>3
<1>4. Single(p)
  BY <1>3 DEF Single
<1> QED BY <1>2, <1>4 DEF p

LEMMA QueuedTake ==
  ASSUME NEW S, NEW q \in Seq(S), q # <<>>, Single(q)
  PROVE  /\ \A s : Queued(q, s) <=> Queued(Tail(q), s) \/ Head(q).seq = s
         /\ Single(Tail(q)) /\ ~Queued(Tail(q), Head(q).seq)
<1> DEFINE p == Tail(q)
<1>1. /\ Head(q) = q[1] /\ 1 \in DOMAIN q
      /\ \A i \in DOMAIN p : i \in Nat /\ i + 1 \in DOMAIN q /\ i + 1 # 1 /\ p[i] = q[i + 1]
      /\ \A i, j \in DOMAIN p : i + 1 = j + 1 => i = j
      /\ \A i \in DOMAIN q : i = 1 \/ (i - 1 \in DOMAIN p /\ p[i - 1] = q[i])
  OBVIOUS
<1> HIDE DEF p
<1>2. \A s : Queued(q, s) <=> Queued(p, s) \/ Head(q).seq = s
  BY <1>1 DEF Queued
<1>3. Single(p) /\ ~Queued(p, Head(q).seq)
  BY <1>1 DEF Single, Queued
<1> QED BY <1>2, <1>3 DEF p

LEMMA QueuedNone ==
  /\ \A s : ~Queued(<<>>, s)
  /\ Single(<<>>)
  /\ \A e : Single(<<e>>) /\ \A s : Queued(<<e>>, s) <=> e.seq = s
BY DEF Queued, Single

(* The lender's half of the pipeline: the completion the receive loop holds,
   the channels, the two buffers and the stream.  "all" are the numbers of
   the transfers, "gone" those whose future has resolved or was dropped. *)
Waits(ho, ch, s) == Queued(ho, s) \/ \E c \in Channel : Queued(ch[c], s)
Answers(b, f, g, s) == Has(b, Rets, s) \/ Has(f, Rets, s) \/ Has(g, Rets, s)
Separate(ho, ch) ==
  /\ \A s : \A c \in Channel : ~(Queued(ho, s) /\ Queued(ch[c], s))
  /\ \A s : \A c, d \in Channel : Queued(ch[c], s) /\ Queued(ch[d], s) => c = d
DonesOK(ho, ch) ==
  /\ ho \in Seq(Completion) /\ ch \in [Channel -> Seq(Completion)]
  /\ Single(ho) /\ \A c \in Channel : Single(ch[c])
  /\ Separate(ho, ch)
AnswersOK(b, f, g) ==
  /\ b \in Seq(RetFrames(Seqnum)) /\ f \in Seq(RetFrames(Seqnum)) /\ g \in Seq(RetFrames(Seqnum))
  /\ Once(b) /\ Once(f) /\ Once(g)
  /\ Apart(b, f) /\ Apart(b, g) /\ Apart(f, g)
PlacesOK(ho, ch, b, f, g, all, gone, sent) ==
  /\ \A s : Waits(ho, ch, s) => s \in gone /\ s \in sent /\ ~Answers(b, f, g, s)
  /\ \A s : Answers(b, f, g, s) => s \in gone /\ s \in sent
  /\ \A s \in all : s \notin gone => s \in sent
  /\ gone \subseteq all
RepliesOK(ho, ch, b, f, g, all, gone, sent) ==
  DonesOK(ho, ch) /\ AnswersOK(b, f, g) /\ PlacesOK(ho, ch, b, f, g, all, gone, sent)

LEMMA TransferStarts ==
  ASSUME NEW ho, NEW ch, NEW b, NEW f, NEW g, NEW all, NEW gone, NEW sent,
         RepliesOK(ho, ch, b, f, g, all, gone, sent), NEW s \in sent
  PROVE  RepliesOK(ho, ch, b, f, g, all \cup {s}, gone, sent)
BY DEF RepliesOK, PlacesOK

LEMMA MoreSent ==
  ASSUME NEW ho, NEW ch, NEW b, NEW f, NEW g, NEW all, NEW gone, NEW sent,
         RepliesOK(ho, ch, b, f, g, all, gone, sent), NEW more, sent \subseteq more
  PROVE  RepliesOK(ho, ch, b, f, g, all, gone, more)
BY DEF RepliesOK, PlacesOK

LEMMA MoreGone ==
  ASSUME NEW ho, NEW ch, NEW b, NEW f, NEW g, NEW all, NEW gone, NEW sent,
         RepliesOK(ho, ch, b, f, g, all, gone, sent),
         NEW more, gone \subseteq more, more \subseteq all
  PROVE  RepliesOK(ho, ch, b, f, g, all, more, sent)
BY DEF RepliesOK, PlacesOK

(* What a channel holds after it was added to or taken from. *)
Enqueued(ch, c, e) == [ch EXCEPT ![c] = Append(@, e)]
Dequeued(ch, c) == [ch EXCEPT ![c] = Tail(@)]

LEMMA ChannelAdded ==
  ASSUME NEW ho, NEW ch, DonesOK(ho, ch), NEW c \in Channel, NEW e \in Completion,
         \A d \in Channel : ~Queued(ch[d], e.seq), ~Queued(ho, e.seq),
         NEW ch2, ch2 = Enqueued(ch, c, e)
  PROVE  /\ DonesOK(ho, ch2)
         /\ \A s : Waits(ho, ch2, s) <=> Waits(ho, ch, s) \/ s = e.seq
<1>1. /\ ch2 \in [Channel -> Seq(Completion)] /\ ch2[c] = Append(ch[c], e)
      /\ \A d \in Channel : d # c => ch2[d] = ch[d]
  <2>1. Append(ch[c], e) \in Seq(Completion)
    BY QueuePut DEF DonesOK
  <2> QED BY <2>1 DEF DonesOK, Enqueued
<1>2. /\ \A s : Queued(ch2[c], s) <=> Queued(ch[c], s) \/ e.seq = s
      /\ Single(ch2[c])
  BY <1>1, QueuedPut DEF DonesOK, Separate
<1>3. \A d \in Channel : Single(ch2[d])
  BY <1>1, <1>2 DEF DonesOK
<1>4. \A s : \A d \in Channel : Queued(ch2[d], s) <=> Queued(ch[d], s) \/ (d = c /\ e.seq = s)
  BY <1>1, <1>2
<1>5. DonesOK(ho, ch2)
  <2>1. \A s : \A d \in Channel : ~(Queued(ho, s) /\ Queued(ch2[d], s))
    BY <1>4 DEF DonesOK, Separate
  <2>2. ASSUME NEW s, NEW d \in Channel, NEW d2 \in Channel, Queued(ch2[d], s), Queued(ch2[d2], s)
        PROVE  d = d2
    <3>1. CASE s = e.seq
      BY <1>4, <2>2, <3>1
    <3>2. CASE s # e.seq
      BY <1>4, <2>2, <3>2 DEF DonesOK, Separate
    <3> QED BY <3>1, <3>2
  <2>3. Separate(ho, ch2)
    BY <2>1, <2>2 DEF Separate
  <2> QED BY <1>1, <1>3, <2>3 DEF DonesOK
<1>6. \A s : Waits(ho, ch2, s) <=> Waits(ho, ch, s) \/ s = e.seq
  BY <1>4 DEF Waits
<1> QED BY <1>5, <1>6

LEMMA ChannelTaken ==
  ASSUME NEW ho, NEW ch, DonesOK(ho, ch), NEW c \in Channel, ch[c] # <<>>,
         NEW ch2, ch2 = Dequeued(ch, c)
  PROVE  /\ DonesOK(ho, ch2)
         /\ \A s : Waits(ho, ch, s) <=> Waits(ho, ch2, s) \/ s = Head(ch[c]).seq
         /\ ~Waits(ho, ch2, Head(ch[c]).seq)
<1> DEFINE e == Head(ch[c])
<1>1. /\ ch2 \in [Channel -> Seq(Completion)] /\ ch2[c] = Tail(ch[c])
      /\ \A d \in Channel : d # c => ch2[d] = ch[d]
  <2>1. Tail(ch[c]) \in Seq(Completion)
    BY QueueTake DEF DonesOK
  <2> QED BY <2>1 DEF DonesOK, Dequeued
<1>2. /\ \A s : Queued(ch[c], s) <=> Queued(ch2[c], s) \/ e.seq = s
      /\ Single(ch2[c]) /\ ~Queued(ch2[c], e.seq)
  BY <1>1, QueuedTake DEF DonesOK, Separate
<1> HIDE DEF e
<1>3. \A d \in Channel : Single(ch2[d])
  BY <1>1, <1>2 DEF DonesOK
<1>4. \A s : \A d \in Channel : Queued(ch[d], s) <=> Queued(ch2[d], s) \/ (d = c /\ e.seq = s)
  BY <1>1, <1>2
<1>5. DonesOK(ho, ch2)
  <2>1. \A s : \A d \in Channel : ~(Queued(ho, s) /\ Queued(ch2[d], s))
    BY <1>4 DEF DonesOK, Separate
  <2>2. ASSUME NEW s, NEW d \in Channel, NEW d2 \in Channel, Queued(ch2[d], s), Queued(ch2[d2], s)
        PROVE  d = d2
    BY <1>4, <2>2 DEF DonesOK, Separate
  <2>3. Separate(ho, ch2)
    BY <2>1, <2>2 DEF Separate
  <2> QED BY <1>1, <1>3, <2>3 DEF DonesOK
<1>6. \A s : Waits(ho, ch, s) <=> Waits(ho, ch2, s) \/ s = e.seq
  BY <1>4 DEF Waits
<1>7. ~Waits(ho, ch2, e.seq)
  BY <1>2, <1>4 DEF Waits, DonesOK, Separate
<1> QED BY <1>5, <1>6, <1>7 DEF e

(* A future resolves: its completion goes to a channel, is held, or is lost
   with the send loop. *)
LEMMA CompletionPut ==
  ASSUME NEW ho, NEW ch, NEW b, NEW f, NEW g, NEW all, NEW gone, NEW sent,
         RepliesOK(ho, ch, b, f, g, all, gone, sent),
         NEW e \in Completion, e.seq \in all, e.seq \notin gone, NEW c \in Channel
  PROVE  RepliesOK(ho, Enqueued(ch, c, e), b, f, g, all, gone \cup {e.seq}, sent)
<1> DEFINE ch2 == Enqueued(ch, c, e)
<1>1. ~Waits(ho, ch, e.seq) /\ ~Answers(b, f, g, e.seq) /\ e.seq \in sent
  BY DEF RepliesOK, PlacesOK
<1>0. ~Queued(ho, e.seq) /\ (\A d \in Channel : ~Queued(ch[d], e.seq)) /\ DonesOK(ho, ch)
  BY <1>1 DEF Waits, RepliesOK
<1>2. DonesOK(ho, ch2) /\ \A s : Waits(ho, ch2, s) <=> Waits(ho, ch, s) \/ s = e.seq
  BY <1>0, ChannelAdded
<1> HIDE DEF ch2
<1>3. PlacesOK(ho, ch2, b, f, g, all, gone \cup {e.seq}, sent)
  BY <1>1, <1>2 DEF RepliesOK, PlacesOK
<1>4. RepliesOK(ho, ch2, b, f, g, all, gone \cup {e.seq}, sent)
  BY <1>2, <1>3 DEF RepliesOK
<1> QED BY <1>4 DEF ch2

LEMMA CompletionHeld ==
  ASSUME NEW ho, NEW ch, NEW b, NEW f, NEW g, NEW all, NEW gone, NEW sent,
         RepliesOK(ho, ch, b, f, g, all, gone, sent), ho = <<>>,
         NEW e \in Completion, e.seq \in all, e.seq \notin gone
  PROVE  RepliesOK(<<e>>, ch, b, f, g, all, gone \cup {e.seq}, sent)
<1>1. ~Waits(ho, ch, e.seq) /\ ~Answers(b, f, g, e.seq) /\ e.seq \in sent
  BY DEF RepliesOK, PlacesOK
<1>2. <<e>> \in Seq(Completion)
  OBVIOUS
<1>3. DonesOK(<<e>>, ch)
  BY <1>1, <1>2, QueuedNone DEF RepliesOK, DonesOK, Separate, Waits
<1>4. \A s : Waits(<<e>>, ch, s) => Waits(ho, ch, s) \/ s = e.seq
  BY QueuedNone DEF Waits
<1>5. PlacesOK(<<e>>, ch, b, f, g, all, gone \cup {e.seq}, sent)
  BY <1>1, <1>4 DEF RepliesOK, PlacesOK
<1> QED BY <1>3, <1>5 DEF RepliesOK

(* Fewer places for the same numbers. *)
LEMMA FewerDones ==
  ASSUME NEW ho, NEW ch, NEW b, NEW f, NEW g, NEW all, NEW gone, NEW sent,
         RepliesOK(ho, ch, b, f, g, all, gone, sent),
         NEW ho2, NEW ch2, DonesOK(ho2, ch2), \A s : Waits(ho2, ch2, s) => Waits(ho, ch, s)
  PROVE  RepliesOK(ho2, ch2, b, f, g, all, gone, sent)
BY DEF RepliesOK, PlacesOK

LEMMA FewerAnswers ==
  ASSUME NEW ho, NEW ch, NEW b, NEW f, NEW g, NEW all, NEW gone, NEW sent,
         RepliesOK(ho, ch, b, f, g, all, gone, sent),
         NEW b2, NEW f2, NEW g2, AnswersOK(b2, f2, g2),
         \A s : Answers(b2, f2, g2, s) => Answers(b, f, g, s)
  PROVE  RepliesOK(ho, ch, b2, f2, g2, all, gone, sent)
BY DEF RepliesOK, PlacesOK

LEMMA HoldReleased ==
  ASSUME NEW ho, NEW ch, NEW b, NEW f, NEW g, NEW all, NEW gone, NEW sent,
         RepliesOK(ho, ch, b, f, g, all, gone, sent)
  PROVE  RepliesOK(<<>>, ch, b, f, g, all, gone, sent)
<1>1. DonesOK(<<>>, ch) /\ \A s : Waits(<<>>, ch, s) => Waits(ho, ch, s)
  BY QueuedNone, EmptyQueue DEF RepliesOK, DonesOK, Separate, Waits
<1> QED BY <1>1, FewerDones

LEMMA HoldMoved ==
  ASSUME NEW ho, NEW ch, NEW b, NEW f, NEW g, NEW all, NEW gone, NEW sent,
         RepliesOK(ho, ch, b, f, g, all, gone, sent), ho # <<>>, NEW c \in Channel
  PROVE  RepliesOK(<<>>, Enqueued(ch, c, ho[1]), b, f, g, all, gone, sent)
<1> DEFINE e == ho[1]
           ch2 == Enqueued(ch, c, e)
<1>1. e \in Completion /\ 1 \in DOMAIN ho
  BY DEF RepliesOK, DonesOK, Separate
<1>2. Queued(ho, e.seq) /\ \A d \in Channel : ~Queued(ch[d], e.seq)
  BY <1>1 DEF RepliesOK, DonesOK, Separate, Queued
<1>3. DonesOK(<<>>, ch) /\ ~Queued(<<>>, e.seq)
  BY QueuedNone, EmptyQueue DEF RepliesOK, DonesOK, Separate
<1> HIDE DEF e
<1>4. DonesOK(<<>>, ch2) /\ \A s : Waits(<<>>, ch2, s) <=> Waits(<<>>, ch, s) \/ s = e.seq
  BY <1>1, <1>2, <1>3, ChannelAdded
<1> HIDE DEF ch2
<1>5. \A s : Waits(<<>>, ch2, s) => Waits(ho, ch, s)
  BY <1>2, <1>4, QueuedNone DEF Waits
<1>6. RepliesOK(<<>>, ch2, b, f, g, all, gone, sent)
  BY <1>4, <1>5, FewerDones
<1> QED BY <1>6 DEF ch2, e

(* The send loop: a completion is replied to. *)
LEMMA ReplyMade ==
  ASSUME NEW ho, NEW ch, NEW b, NEW f, NEW g, NEW all, NEW gone, NEW sent,
         RepliesOK(ho, ch, b, f, g, all, gone, sent), NEW c \in Channel, ch[c] # <<>>,
         NEW e \in RetFrames(Seqnum), e.seq = Head(ch[c]).seq
  PROVE  RepliesOK(ho, Dequeued(ch, c), b, f, Append(g, e), all, gone, sent)
<1> DEFINE ch2 == Dequeued(ch, c)
           g2 == Append(g, e)
           s0 == Head(ch[c]).seq
<1>1. /\ DonesOK(ho, ch2)
      /\ \A s : Waits(ho, ch, s) <=> Waits(ho, ch2, s) \/ s = s0
      /\ ~Waits(ho, ch2, s0)
  <2> HIDE DEF ch2
  <2>1. ch2 = Dequeued(ch, c)
    BY DEF ch2
  <2> QED BY <2>1, ChannelTaken DEF RepliesOK
<1> HIDE DEF ch2, s0
<1>2. e.seq = s0 /\ ~Answers(b, f, g, s0) /\ s0 \in gone /\ s0 \in sent
  BY <1>1 DEF RepliesOK, PlacesOK, s0
<1>3. /\ g \in Seq(RetFrames(Seqnum)) /\ Once(g) /\ Apart(b, g) /\ Apart(f, g)
      /\ ~Has(g, Rets, e.seq) /\ ~Has(b, Rets, e.seq) /\ ~Has(f, Rets, e.seq)
  BY <1>2 DEF RepliesOK, AnswersOK, Answers
<1>4. g2 \in Seq(RetFrames(Seqnum))
  BY <1>3, QueuePut
<1>5. Once(g2) /\ \A s : Has(g2, Rets, s) => Has(g, Rets, s) \/ s = e.seq
  BY <1>3, OncePut, HasPut
<1> HIDE DEF g2
<1>6. AnswersOK(b, f, g2)
  BY <1>3, <1>4, <1>5 DEF RepliesOK, AnswersOK, Apart
<1>7. \A s : Answers(b, f, g2, s) => Answers(b, f, g, s) \/ s = s0
  BY <1>2, <1>5 DEF Answers
<1>8. PlacesOK(ho, ch2, b, f, g2, all, gone, sent)
  BY <1>1, <1>2, <1>7 DEF RepliesOK, PlacesOK
<1>9. RepliesOK(ho, ch2, b, f, g2, all, gone, sent)
  BY <1>1, <1>6, <1>8 DEF RepliesOK
<1> QED BY <1>9 DEF ch2, g2

(* It aborts or ends: the channels and the buffers are dropped. *)
LEMMA SendEnds ==
  ASSUME NEW ho, NEW ch, NEW b, NEW f, NEW g, NEW all, NEW gone, NEW sent,
         RepliesOK(ho, ch, b, f, g, all, gone, sent)
  PROVE  RepliesOK(ho, NoChannel, b, <<>>, <<>>, all, gone, sent)
<1>1. NoChannel \in [Channel -> Seq(Completion)] /\ \A c \in Channel : NoChannel[c] = <<>>
  BY EmptyQueue DEF NoChannel
<1>2. DonesOK(ho, NoChannel)
  BY <1>1, QueuedNone DEF RepliesOK, DonesOK, Separate
<1>3. \A s : Waits(ho, NoChannel, s) => Waits(ho, ch, s)
  BY <1>1, QueuedNone DEF Waits
<1>4. <<>> \in Seq(RetFrames(Seqnum))
  BY EmptyQueue
<1>5. AnswersOK(b, <<>>, <<>>)
  BY <1>4, OnceNone, HasNone DEF RepliesOK, AnswersOK, Apart
<1>6. \A s : Answers(b, <<>>, <<>>, s) => Answers(b, f, g, s)
  BY HasNone DEF Answers
<1>7. RepliesOK(ho, NoChannel, b, f, g, all, gone, sent)
  BY <1>2, <1>3, FewerDones
<1> QED BY <1>5, <1>6, <1>7, FewerAnswers

LEMMA SendAborts ==
  ASSUME NEW ho, NEW ch, NEW b, NEW f, NEW g, NEW all, NEW gone, NEW sent,
         RepliesOK(ho, ch, b, f, g, all, gone, sent),
         NEW e \in RetFrames(Seqnum),
         \/ e.cmd \notin Rets
         \/ Has(f, Rets, e.seq)
         \/ \E c \in Channel : Queued(ch[c], e.seq)
  PROVE  RepliesOK(ho, NoChannel, Append(b, e), <<>>, <<>>, all, gone, sent)
<1> DEFINE b2 == Append(b, e)
<1>1. RepliesOK(ho, NoChannel, b, <<>>, <<>>, all, gone, sent)
  BY SendEnds
<1>2. b \in Seq(RetFrames(Seqnum)) /\ Once(b)
  BY DEF RepliesOK, AnswersOK
<1>3. e.cmd \in Rets =>
        ~Has(b, Rets, e.seq) /\ e.seq \in gone /\ e.seq \in sent /\ ~Waits(ho, NoChannel, e.seq)
  <2>1. \A c \in Channel : NoChannel[c] = <<>>
    BY DEF NoChannel
  <2>2. CASE Has(f, Rets, e.seq)
    <3>1. ~Waits(ho, ch, e.seq) /\ e.seq \in gone /\ e.seq \in sent
      BY <2>2 DEF RepliesOK, PlacesOK, Answers
    <3> QED BY <2>1, <2>2, <3>1, QueuedNone DEF RepliesOK, AnswersOK, Apart, Waits
  <2>3. CASE \E c \in Channel : Queued(ch[c], e.seq)
    <3>1. Waits(ho, ch, e.seq) /\ ~Queued(ho, e.seq)
      BY <2>3 DEF RepliesOK, DonesOK, Separate, Waits
    <3> QED BY <2>1, <3>1, QueuedNone DEF RepliesOK, PlacesOK, Answers, Waits
  <2> QED BY <2>2, <2>3
<1>4. b2 \in Seq(RetFrames(Seqnum))
  BY <1>2, QueuePut
<1>5. /\ Once(b2)
      /\ \A s : Has(b2, Rets, s) => Has(b, Rets, s) \/ (s = e.seq /\ e.cmd \in Rets)
  BY <1>2, <1>3, OncePut, HasPut
<1> HIDE DEF b2
<1>6. AnswersOK(b2, <<>>, <<>>)
  BY <1>1, <1>4, <1>5, HasNone DEF RepliesOK, AnswersOK, Apart
<1>7. \A s : Answers(b2, <<>>, <<>>, s) => Answers(b, <<>>, <<>>, s) \/ (s = e.seq /\ e.cmd \in Rets)
  BY <1>5 DEF Answers
<1>8. PlacesOK(ho, NoChannel, b2, <<>>, <<>>, all, gone, sent)
  BY <1>1, <1>3, <1>7 DEF RepliesOK, PlacesOK
<1> QED BY <1>1, <1>6, <1>8 DEF RepliesOK, b2

(* Replies on their way: the buffer is handed to write_all, a frame is
   written, and the borrower reads it and forgets the command. *)
LEMMA RepliesFlushed ==
  ASSUME NEW ho, NEW ch, NEW b, NEW f, NEW g, NEW all, NEW gone, NEW sent,
         RepliesOK(ho, ch, b, f, g, all, gone, sent), f = <<>>
  PROVE  RepliesOK(ho, ch, b, g, <<>>, all, gone, sent)
<1>1. AnswersOK(b, g, <<>>)
  BY OnceNone, HasNone, EmptyQueue DEF RepliesOK, AnswersOK, Apart
<1>2. \A s : Answers(b, g, <<>>, s) => Answers(b, f, g, s)
  BY HasNone DEF Answers
<1> QED BY <1>1, <1>2, FewerAnswers

LEMMA ReplyWritten ==
  ASSUME NEW ho, NEW ch, NEW b, NEW f, NEW g, NEW all, NEW gone, NEW sent,
         RepliesOK(ho, ch, b, f, g, all, gone, sent), f # <<>>
  PROVE  RepliesOK(ho, ch, Append(b, Head(f)), Tail(f), g, all, gone, sent)
<1> DEFINE e == Head(f)
           b2 == Append(b, e)
           f2 == Tail(f)
<1>1. /\ f \in Seq(RetFrames(Seqnum)) /\ b \in Seq(RetFrames(Seqnum))
      /\ Once(b) /\ Once(f) /\ Apart(b, f) /\ Apart(b, g) /\ Apart(f, g)
  BY DEF RepliesOK, AnswersOK
<1>2. e \in RetFrames(Seqnum) /\ f2 \in Seq(RetFrames(Seqnum))
  BY <1>1, QueueTake
<1>3. /\ Once(f2) /\ (e.cmd \in Rets => ~Has(f2, Rets, e.seq))
      /\ \A s : Has(f2, Rets, s) => Has(f, Rets, s)
      /\ e.cmd \in Rets => Has(f, Rets, e.seq)
  BY <1>1, OnceTake, HasTake
<1> HIDE DEF e, f2
<1>4. e.cmd \in Rets => ~Has(b, Rets, e.seq) /\ ~Has(g, Rets, e.seq)
  BY <1>1, <1>3 DEF Apart
<1>5. /\ b2 \in Seq(RetFrames(Seqnum)) /\ Once(b2)
      /\ \A s : Has(b2, Rets, s) => Has(b, Rets, s) \/ (s = e.seq /\ e.cmd \in Rets)
  BY <1>1, <1>2, <1>4, QueuePut, OncePut, HasPut
<1> HIDE DEF b2
<1>6. AnswersOK(b2, f2, g)
  BY <1>1, <1>2, <1>3, <1>4, <1>5 DEF RepliesOK, AnswersOK, Apart
<1>7. \A s : Answers(b2, f2, g, s) => Answers(b, f, g, s)
  BY <1>3, <1>5 DEF Answers
<1> QED BY <1>6, <1>7, FewerAnswers DEF b2, f2, e

LEMMA StreamEmptied ==
  ASSUME NEW ho, NEW ch, NEW b, NEW f, NEW g, NEW all, NEW gone, NEW sent,
         RepliesOK(ho, ch, b, f, g, all, gone, sent)
  PROVE  RepliesOK(ho, ch, <<>>, f, g, all, gone, sent)
<1>1. AnswersOK(<<>>, f, g)
  BY OnceNone, HasNone, EmptyQueue DEF RepliesOK, AnswersOK, Apart
<1>2. \A s : Answers(<<>>, f, g, s) => Answers(b, f, g, s)
  BY HasNone DEF Answers
<1> QED BY <1>1, <1>2, FewerAnswers

LEMMA ReplyRead ==
  ASSUME NEW ho, NEW ch, NEW b, NEW f, NEW g, NEW all, NEW gone, NEW sent,
         RepliesOK(ho, ch, b, f, g, all, gone, sent), b # <<>>
  PROVE  /\ RepliesOK(ho, ch, Tail(b), f, g, all, gone, sent)
         /\ Head(b).cmd \in Rets =>
              /\ Head(b).seq \in sent /\ Head(b).seq \in gone
              /\ RepliesOK(ho, ch, Tail(b), f, g, all, gone, sent \ {Head(b).seq})
<1> DEFINE e == Head(b)
           b2 == Tail(b)
<1>1. /\ b \in Seq(RetFrames(Seqnum)) /\ Once(b) /\ Apart(b, f) /\ Apart(b, g)
  BY DEF RepliesOK, AnswersOK
<1>2. e \in RetFrames(Seqnum) /\ b2 \in Seq(RetFrames(Seqnum))
  BY <1>1, QueueTake
<1>3. /\ Once(b2) /\ (e.cmd \in Rets => ~Has(b2, Rets, e.seq))
      /\ \A s : Has(b2, Rets, s) => Has(b, Rets, s)
      /\ e.cmd \in Rets => Has(b, Rets, e.seq)
  BY <1>1, OnceTake, HasTake
<1> HIDE DEF e, b2
<1>4. AnswersOK(b2, f, g)
  BY <1>1, <1>2, <1>3 DEF RepliesOK, AnswersOK, Apart
<1>5. \A s : Answers(b2, f, g, s) => Answers(b, f, g, s)
  BY <1>3 DEF Answers
<1>6. RepliesOK(ho, ch, b2, f, g, all, gone, sent)
  BY <1>4, <1>5, FewerAnswers
<1>7. ASSUME e.cmd \in Rets
      PROVE  /\ e.seq \in sent /\ e.seq \in gone
             /\ RepliesOK(ho, ch, b2, f, g, all, gone, sent \ {e.seq})
  <2>1. Answers(b, f, g, e.seq) /\ ~Answers(b2, f, g, e.seq)
    BY <1>1, <1>3, <1>7 DEF Answers, Apart
  <2>2. e.seq \in sent /\ e.seq \in gone /\ ~Waits(ho, ch, e.seq)
    BY <2>1 DEF RepliesOK, PlacesOK
  <2>3. PlacesOK(ho, ch, b2, f, g, all, gone, sent \ {e.seq})
    BY <1>6, <2>1, <2>2 DEF RepliesOK, PlacesOK
  <2> QED BY <1>6, <2>2, <2>3 DEF RepliesOK
<1> QED BY <1>6, <1>7 DEF e, b2

-----------------------------------------------------------------------------
(* The pipeline as a whole: no sequence number is in two commands, in two
   completions or in two replies, and whatever is still to be answered is
   in the borrower's maps. *)
GoneIn(x) == {s \in DOMAIN x : x[s].st = "gone"}
Gone == GoneIn(xfer)
Commands == CmdsOK(toL, bFlush, bBuf, DOMAIN handles, DOMAIN xfer)
Replies == RepliesOK(hold, chan, toB, lFlush, lBuf, DOMAIN xfer, Gone, DOMAIN handles)
Numbers == DOMAIN xfer \subseteq DOMAIN urbOf /\ \A s \in DOMAIN urbOf : s < curSeq
PipeInv == Commands /\ Replies /\ Numbers /\ ReplyIsExpected

LEMMA PipeKept ==
  ASSUME PipeInv, bRecv' # "unwrapPanic",
         UNCHANGED <<toL, bFlush, bBuf, handles, xfer, hold, chan, toB, lFlush, lBuf, urbOf, curSeq>>
  PROVE  PipeInv'
BY DEF PipeInv, Commands, Replies, Numbers, Gone, GoneIn, ReplyIsExpected

(* A new number is above every number that was ever drawn. *)
LEMMA NumberDrawn ==
  ASSUME PipeInv, TypeInv, NEW h, NEW u, nextSeqnum(h, u), UNCHANGED xfer
  PROVE  /\ curSeq \in Seqnum /\ Numbers'
         /\ DOMAIN handles' = DOMAIN handles \cup {curSeq}
         /\ \A t \in DOMAIN xfer : t < curSeq
         /\ \A s \in DOMAIN handles : s < curSeq
<1>1. /\ curSeq \in Seqnum /\ curSeq \in Nat /\ curSeq' = curSeq + 1
      /\ DOMAIN urbOf \subseteq Nat
  BY BorrowAssumption DEF TypeInv, TypeOK, BorrowTypeOK, IsMap, Seqnum, nextSeqnum
<1>2. DOMAIN handles' = DOMAIN handles \cup {curSeq} /\ DOMAIN urbOf' = DOMAIN urbOf \cup {curSeq}
  BY InsertValue DEF nextSeqnum
<1>3. \A s \in DOMAIN urbOf : s < curSeq
  BY DEF PipeInv, Numbers
<1>4. \A s \in DOMAIN urbOf' : s < curSeq'
  BY <1>1, <1>2, <1>3
<1>5. Numbers'
  BY <1>2, <1>4 DEF PipeInv, Numbers
<1> QED BY <1>1, <1>2, <1>3, <1>5 DEF PipeInv, Numbers, TypeInv, HandlesKnown

(* The send loop of the borrower. *)
LEMMA PipeBorrowSend ==
  ASSUME PipeInv, TypeInv, BuffersInv, BorrowSend, UNCHANGED lendVars
  PROVE  PipeInv'
<1>0. /\ UNCHANGED <<xfer, hold, chan, lFlush, lBuf>> /\ UNCHANGED Gone
      /\ UNCHANGED <<bRecv, toB>>
  <2>1. UNCHANGED <<xfer, hold, chan, lFlush, lBuf>>
    BY DEF lendVars
  <2>2. UNCHANGED <<bRecv, toB>>
    BY DEF BorrowSend, port_stat, set_address, process_urb, cancel_urb, FlushBuf, WriteFrame,
       FlushComplete, EndSendLoop, sendUnchanged, streamVars, borrowDir
  <2> QED BY <2>1, <2>2 DEF Gone, GoneIn
<1>a. ReplyIsExpected'
  BY <1>0 DEF PipeInv, ReplyIsExpected
<1>1. ASSUME NEW h, NEW u, NEW k, nextSeqnum(h, u), NEW cmd, UNCHANGED <<toL, bFlush>>,
             CmdFrame(cmd, curSeq, k) \in CmdFrames(Seqnum),
             bBuf' = Append(bBuf, CmdFrame(cmd, curSeq, k))
      PROVE  PipeInv'
  <2>1. /\ Numbers' /\ DOMAIN handles' = DOMAIN handles \cup {curSeq}
        /\ \A t \in DOMAIN xfer : t < curSeq
        /\ \A s \in DOMAIN handles : s < curSeq
    BY <1>0, <1>1, NumberDrawn
  <2>2. CmdFrame(cmd, curSeq, k).seq = curSeq
    BY DEF CmdFrame
  <2> HIDE DEF CmdFrame
  <2>3. CmdsOK(toL, bFlush, bBuf', DOMAIN handles', DOMAIN xfer)
    BY <1>1, <2>1, <2>2, CmdPut DEF PipeInv, Commands
  <2>4. Replies'
    BY <1>0, <2>1, MoreSent DEF PipeInv, Replies
  <2> QED BY <1>0, <1>a, <1>1, <2>1, <2>3, <2>4 DEF PipeInv, Commands
<1>2. CASE port_stat
  <2>1. CASE send_port_reset(Head(work).stat)
    <3>1. PICK h \in ResetHandles : nextSeqnum(h, 0)
      BY <1>2, <2>1 DEF port_stat
    <3>2. /\ bBuf' = Append(bBuf, CmdFrame("CmdPort", curSeq, "none"))
          /\ UNCHANGED <<toL, bFlush>>
      BY <1>2, <2>1 DEF port_stat, streamVars
    <3>3. CmdFrame("CmdPort", curSeq, "none") \in CmdFrames(Seqnum)
      BY <1>0, <3>1, NumberDrawn, FrameType
    <3> QED BY <1>1, <3>1, <3>2, <3>3
  <2>2. CASE ~send_port_reset(Head(work).stat)
    BY <1>0, <1>2, <2>2, PipeKept DEF port_stat, streamVars, PipeInv, ReplyIsExpected
  <2> QED BY <2>1, <2>2
<1>3. CASE set_address
  BY <1>0, <1>3, PipeKept DEF set_address, streamVars, PipeInv, ReplyIsExpected
<1>4. CASE process_urb
  <2> DEFINE w == Head(work)
  <2>1. /\ nextSeqnum(w.h, w.u) /\ UNCHANGED <<toL, toB>>
        /\ \/ /\ bBuf' = Append(bBuf, CmdFrame("CmdSubmit", curSeq, urbs[w.u].kind))
              /\ UNCHANGED bFlush
           \/ bBuf' = <<>> /\ bFlush' = <<>>
    BY <1>4 DEF process_urb, endSendLoop
  <2>2. urbs[w.u].kind \in RemoteKind
    <3>1. /\ w.u \in DOMAIN urbs /\ (urbs[w.u].kind = "setaddr" => w.addr = 0)
      BY <1>4, TakeWorkType DEF process_urb, BorrowerInv, TypeInv, TypeOK
    <3>2. urbs[w.u] \in Shapes
      BY <3>1 DEF TypeInv, TypeOK, VhciTypeOK
    <3>3. urbs[w.u].kind \in UrbKind
      BY <3>2, VhciAssumption
    <3> QED BY <1>4, <3>1, <3>3 DEF process_urb, UrbKind
  <2>3. curSeq \in Seqnum /\ Numbers' /\ DOMAIN handles \subseteq DOMAIN handles'
    BY <1>0, <2>1, NumberDrawn
  <2>4. CASE bBuf' = Append(bBuf, CmdFrame("CmdSubmit", curSeq, urbs[w.u].kind)) /\ UNCHANGED bFlush
    <3>1. CmdFrame("CmdSubmit", curSeq, urbs[w.u].kind) \in CmdFrames(Seqnum)
      BY <2>2, <2>3, FrameType
    <3> QED BY <1>1, <2>1, <2>4, <3>1
  <2>5. CASE bBuf' = <<>> /\ bFlush' = <<>>
    <3>1. CmdsOK(toL, <<>>, <<>>, DOMAIN handles, DOMAIN xfer)
      BY CmdDrop DEF PipeInv, Commands
    <3>2. CmdsOK(toL, <<>>, <<>>, DOMAIN handles', DOMAIN xfer)
      BY <2>3, <3>1, CmdMore
    <3>3. Replies'
      BY <1>0, <2>3, MoreSent DEF PipeInv, Replies
    <3> QED BY <1>0, <1>a, <2>1, <2>3, <2>5, <3>2, <3>3 DEF PipeInv, Commands
  <2> QED BY <2>1, <2>4, <2>5
<1>5. CASE cancel_urb
  <2>1. /\ UNCHANGED <<toL, bFlush, handles, urbOf, curSeq>>
        /\ \/ UNCHANGED bBuf
           \/ /\ Head(work).h \in DOMAIN seqnums
              /\ bBuf' = Append(bBuf, CmdFrame("CmdUnlink", seqnums[Head(work).h], "none"))
    BY <1>5 DEF cancel_urb, streamVars
  <2>2. CASE UNCHANGED bBuf
    BY <1>0, <2>1, <2>2, PipeKept DEF PipeInv, ReplyIsExpected
  <2>3. CASE /\ Head(work).h \in DOMAIN seqnums
             /\ bBuf' = Append(bBuf, CmdFrame("CmdUnlink", seqnums[Head(work).h], "none"))
    <3> DEFINE e == CmdFrame("CmdUnlink", seqnums[Head(work).h], "none")
    <3>1. seqnums[Head(work).h] \in Seqnum
      BY <2>3, MapValue DEF TypeInv, TypeOK, BorrowTypeOK
    <3>2. e \in CmdFrames(Seqnum) /\ e.cmd \notin Cmds
      BY <3>1, FrameType DEF CmdFrame, Cmds
    <3> HIDE DEF e
    <3>3. CmdsOK(toL, bFlush, Append(bBuf, e), DOMAIN handles, DOMAIN xfer)
      BY <3>2, CmdPut DEF PipeInv, Commands
    <3>4. bBuf' = Append(bBuf, e)
      BY <2>3 DEF e
    <3> QED BY <1>0, <1>a, <2>1, <3>3, <3>4 DEF PipeInv, Commands, Replies, Numbers
  <2> QED BY <2>1, <2>2, <2>3
<1>6. CASE FlushBuf \/ WriteFrame \/ FlushComplete \/ EndSendLoop
  <2>1. /\ UNCHANGED <<handles, urbOf, curSeq>>
        /\ \/ bSend = "Timer" /\ bFlush' = bBuf /\ bBuf' = <<>> /\ UNCHANGED toL
           \/ /\ bFlush # <<>> /\ toL' = Append(toL, Head(bFlush)) /\ bFlush' = Tail(bFlush)
              /\ UNCHANGED bBuf
           \/ UNCHANGED <<bBuf, bFlush, toL>>
           \/ bBuf' = <<>> /\ bFlush' = <<>> /\ UNCHANGED toL
    BY <1>6 DEF FlushBuf, WriteFrame, FlushComplete, EndSendLoop, sendUnchanged, flush_buf,
       endSendLoop, streamVars
  <2>2. Commands'
    <3>1. CASE bSend = "Timer" /\ bFlush' = bBuf /\ bBuf' = <<>> /\ UNCHANGED toL
      <4>1. CmdsOK(toL, <<>>, bBuf, DOMAIN handles, DOMAIN xfer)
        BY <3>1 DEF PipeInv, Commands, BuffersInv
      <4> QED BY <1>0, <2>1, <3>1, <4>1, CmdFlush DEF Commands
    <3>2. CASE /\ bFlush # <<>> /\ toL' = Append(toL, Head(bFlush)) /\ bFlush' = Tail(bFlush)
               /\ UNCHANGED bBuf
      BY <1>0, <2>1, <3>2, CmdWrite DEF PipeInv, Commands
    <3>3. CASE UNCHANGED <<bBuf, bFlush, toL>>
      BY <1>0, <2>1, <3>3 DEF PipeInv, Commands
    <3>4. CASE bBuf' = <<>> /\ bFlush' = <<>> /\ UNCHANGED toL
      BY <1>0, <2>1, <3>4, CmdDrop DEF PipeInv, Commands
    <3> QED BY <2>1, <3>1, <3>2, <3>3, <3>4
  <2> QED BY <1>0, <1>a, <2>1, <2>2 DEF PipeInv, Replies, Numbers
<1> QED BY <1>2, <1>3, <1>4, <1>5, <1>6 DEF BorrowSend

(* The receive loop of the borrower. *)
LEMMA PipeBorrowRecv ==
  ASSUME PipeInv, TypeInv, HandleInv, BorrowRecv, UNCHANGED lendVars
  PROVE  PipeInv'
<1>0. /\ UNCHANGED <<xfer, hold, chan, lFlush, lBuf>> /\ UNCHANGED Gone
      /\ UNCHANGED <<toL, bFlush, bBuf, urbOf, curSeq>>
  <2>1. UNCHANGED <<xfer, hold, chan, lFlush, lBuf>>
    BY DEF lendVars
  <2>2. UNCHANGED <<toL, bFlush, bBuf, urbOf, curSeq>>
    BY DEF BorrowRecv, urb_reply, device_reset, RecvPanic, EndRecvLoop, DrainRead, DrainEnd,
       recvUnchanged, lendDir
  <2> QED BY <2>1, <2>2 DEF Gone, GoneIn
<1>a. Numbers'
  BY <1>0 DEF PipeInv, Numbers
<1>1. CASE urb_reply \/ device_reset
  <2>1. /\ toB # <<>> /\ toB' = Tail(toB) /\ Reply.cmd \in Rets /\ UNCHANGED bRecv
        /\ handles' = Remove(handles, Reply.seq)
    BY <1>1 DEF urb_reply, device_reset, CanRead, forget, Rets
  <2>2. DOMAIN handles' = DOMAIN handles \ {Reply.seq}
    BY <2>1, RemoveValue
  <2>3. /\ Reply.seq \in Gone
        /\ RepliesOK(hold, chan, Tail(toB), lFlush, lBuf, DOMAIN xfer, Gone,
                     DOMAIN handles \ {Reply.seq})
    BY <2>1, ReplyRead DEF PipeInv, Replies, Reply
  <2>4. Reply.seq \in DOMAIN xfer /\ Reply.seq \in Nat
    BY <2>3, SeqnumNat, SessionAssumption DEF Gone, GoneIn, TypeInv, TypeOK, LendTypeOK, IsMap
  <2>5. CmdsOK(toL, bFlush, bBuf, DOMAIN handles \ {Reply.seq}, DOMAIN xfer)
    BY <2>4, CmdForget DEF PipeInv, Commands
  <2> QED BY <1>0, <1>a, <2>1, <2>2, <2>3, <2>5 DEF PipeInv, Commands, Replies, ReplyIsExpected
<1>2. CASE RecvPanic \/ EndRecvLoop \/ DrainRead \/ DrainEnd
  <2>1. /\ UNCHANGED handles
        /\ UNCHANGED toB \/ toB' = <<>> \/ (toB # <<>> /\ toB' = Tail(toB))
    BY <1>2 DEF RecvPanic, EndRecvLoop, CanRead, DrainRead, DrainEnd
  <2>2. Replies'
    <3>1. CASE toB' = <<>>
      BY <1>0, <2>1, <3>1, StreamEmptied DEF PipeInv, Replies
    <3>2. CASE toB # <<>> /\ toB' = Tail(toB)
      BY <1>0, <2>1, <3>2, ReplyRead DEF PipeInv, Replies
    <3>3. CASE UNCHANGED toB
      BY <1>0, <2>1, <3>3 DEF PipeInv, Replies
    <3> QED BY <2>1, <3>1, <3>2, <3>3
  <2>3. ReplyIsExpected'
    <3>1. CASE RecvPanic
      <4>1. Reply \in RetFrames(Seqnum) /\ toB # <<>> /\ Reply.cmd # "Garbage"
        BY <3>1, ReplyType DEF TypeInv, TypeOK, BorrowerInv, RecvPanic, CanRead
      <4>2. Reply.cmd \in Rets
        BY <4>1 DEF RetFrames, Rets
      <4>3. Reply.seq \in DOMAIN handles
        BY <4>1, <4>2, ReplyRead DEF PipeInv, Replies, Reply
      <4>4. Expected(Reply.seq)
        BY <4>3 DEF Expected, HandleInv, MapsInverse
      <4> QED BY <3>1, <4>4 DEF RecvPanic, ReplyIsExpected
    <3>2. CASE EndRecvLoop \/ DrainRead \/ DrainEnd
      BY <3>2 DEF EndRecvLoop, DrainRead, DrainEnd, ReplyIsExpected, PipeInv
    <3> QED BY <1>2, <3>1, <3>2
  <2> QED BY <1>0, <1>a, <2>1, <2>2, <2>3 DEF PipeInv, Commands
<1> QED BY <1>1, <1>2 DEF BorrowRecv

(* The other tasks of the borrower. *)
LEMMA PipeBorrowMain ==
  ASSUME PipeInv, UNCHANGED lendVars,
         BorrowMain \/ CancelBorrow \/ BlockingThread \/ StreamStopped
  PROVE  PipeInv'
<1>0. /\ UNCHANGED <<xfer, hold, chan, lFlush, lBuf>> /\ UNCHANGED Gone
      /\ UNCHANGED <<toL, toB, handles, urbOf, curSeq, bRecv>>
      /\ UNCHANGED <<bBuf, bFlush>> \/ (bBuf' = <<>> /\ bFlush' = <<>>)
  BY DEF lendVars, Gone, GoneIn, BorrowMain, RecvJoined, RecvJoinPanic, SendJoined, Disconnected,
     CancelBorrow, BlockingThread, StreamStopped, mainUnchanged, sendUnchanged, streamVars,
     borrowVars, borrowDir
<1>1. Commands'
  BY <1>0, CmdDrop DEF PipeInv, Commands
<1> QED BY <1>0, <1>1 DEF PipeInv, Replies, Numbers, ReplyIsExpected

LEMMA StillGone ==
  ASSUME NEW x, NEW s, NEW t, NEW y, y = Insert(x, s, t), s \notin DOMAIN x, t.st # "gone"
  PROVE  /\ DOMAIN y = DOMAIN x \cup {s}
         /\ GoneIn(y) = GoneIn(x)
<1>1. /\ DOMAIN y = DOMAIN x \cup {s} /\ y[s] = t
      /\ \A r \in DOMAIN x : r # s => y[r] = x[r]
  BY DEF Insert
<1> QED BY <1>1 DEF GoneIn

(* The receive loop of the lender: a command becomes a transfer. *)
LEMMA PipeStarts ==
  ASSUME PipeInv, TypeInv, UNCHANGED <<vhciVars, borrowVars>>,
         new_transfer \/ blocking_request \/ port_reset
  PROVE  PipeInv'
<1> DEFINE s == Frame.seq
<1>1. /\ toL # <<>> /\ toL' = Tail(toL) /\ Head(toL).cmd \in Cmds
      /\ \E t : xfer' = Insert(xfer, s, t) /\ t.st # "gone"
      /\ UNCHANGED <<hold, chan, toB, lFlush, lBuf>>
  BY DEF new_transfer, blocking_request, port_reset, TakeFrame, Cmds, register_cancel_token,
     start, recvKeeps, borrowDir
<1>2. UNCHANGED <<bFlush, bBuf, handles, urbOf, curSeq, bRecv>>
  BY DEF borrowVars
<1>3. /\ s \in DOMAIN handles /\ s \notin DOMAIN xfer
      /\ CmdsOK(Tail(toL), bFlush, bBuf, DOMAIN handles, DOMAIN xfer \cup {s})
  BY <1>1, CmdTake DEF PipeInv, Commands, Frame
<1>4. DOMAIN xfer' = DOMAIN xfer \cup {s} /\ Gone' = Gone
  <2>1. PICK t : xfer' = Insert(xfer, s, t) /\ t.st # "gone"
    BY <1>1
  <2>2. DOMAIN xfer' = DOMAIN xfer \cup {s} /\ Gone' = Gone
    BY <1>3, <2>1, StillGone DEF Gone
  <2> QED BY <2>2
<1>5. Replies'
  BY <1>1, <1>2, <1>3, <1>4, TransferStarts DEF PipeInv, Replies
<1>6. Numbers'
  BY <1>2, <1>3, <1>4 DEF PipeInv, Numbers, TypeInv, HandlesKnown
<1> QED BY <1>1, <1>2, <1>3, <1>4, <1>5, <1>6 DEF PipeInv, Commands, ReplyIsExpected

(* A future resolves. *)
LEMMA PipeCompletes ==
  ASSUME PipeInv, TypeInv, UNCHANGED <<vhciVars, borrowVars>>,
         NEW s \in DOMAIN xfer, completed(s)
  PROVE  PipeInv'
<1> DEFINE c == ChannelOf(xfer[s].kind)
           e == [seq |-> s, res |-> resultOf(xfer[s])]
<1>0. UNCHANGED <<toL, bFlush, bBuf, handles, urbOf, curSeq, bRecv, toB, lFlush, lBuf>>
  BY DEF borrowVars, completed, recvKeeps, borrowDir
<1>1. /\ xfer[s].st = "ready" /\ hold = <<>>
      /\ xfer' = [xfer EXCEPT ![s].st = "gone"]
      /\ \/ chan' = Enqueued(chan, c, e) /\ UNCHANGED hold
         \/ hold' = <<e>> /\ UNCHANGED chan
         \/ UNCHANGED <<chan, hold>>
  BY DEF completed, Running, Enqueued
<1>2. xfer[s] \in Transfer /\ s \in LendSeqnum /\ IsMap(xfer, LendSeqnum, Transfer)
  BY MapValue DEF TypeInv, TypeOK, LendTypeOK
<1>3. e \in Completion /\ e.seq = s /\ c \in Channel
  <2>1. resultOf(xfer[s]) \in TransferResult
    BY <1>2, ConvertType
  <2>2. c \in Channel
    BY <1>2, ChannelType DEF Transfer
  <2> QED BY <1>2, <2>1, <2>2 DEF Completion
<1>4. DOMAIN xfer' = DOMAIN xfer /\ s \notin Gone /\ Gone' = Gone \cup {s}
  BY <1>1, <1>2 DEF Gone, GoneIn, IsMap, Transfer
<1> HIDE DEF c, e
<1>5. RepliesOK(hold', chan', toB, lFlush, lBuf, DOMAIN xfer, Gone \cup {s}, DOMAIN handles)
  <2>1. CASE chan' = Enqueued(chan, c, e) /\ UNCHANGED hold
    <3>1. RepliesOK(hold, Enqueued(chan, c, e), toB, lFlush, lBuf, DOMAIN xfer,
                    Gone \cup {e.seq}, DOMAIN handles)
      BY <1>3, <1>4, CompletionPut DEF PipeInv, Replies
    <3> QED BY <1>3, <2>1, <3>1
  <2>2. CASE hold' = <<e>> /\ UNCHANGED chan
    <3>1. RepliesOK(<<e>>, chan, toB, lFlush, lBuf, DOMAIN xfer, Gone \cup {e.seq}, DOMAIN handles)
      BY <1>1, <1>3, <1>4, CompletionHeld DEF PipeInv, Replies
    <3> QED BY <1>3, <2>2, <3>1
  <2>3. CASE UNCHANGED <<chan, hold>>
    <3>1. Gone \subseteq Gone \cup {s} /\ Gone \cup {s} \subseteq DOMAIN xfer
      BY DEF Gone, GoneIn
    <3>2. RepliesOK(hold, chan, toB, lFlush, lBuf, DOMAIN xfer, Gone \cup {s}, DOMAIN handles)
      BY <3>1, MoreGone DEF PipeInv, Replies
    <3> QED BY <2>3, <3>2
  <2> QED BY <1>1, <2>1, <2>2, <2>3
<1> QED BY <1>0, <1>4, <1>5 DEF PipeInv, Commands, Replies, Numbers, ReplyIsExpected

(* The rest of that loop. *)
LEMMA PipeLendRecv ==
  ASSUME PipeInv, TypeInv, UNCHANGED <<vhciVars, borrowVars>>, LendRecv
  PROVE  PipeInv'
<1>0. UNCHANGED <<bFlush, bBuf, handles, urbOf, curSeq, bRecv>>
  BY DEF borrowVars
<1>1. CASE unlink_urb \/ drainRead \/ drainEnd
  <2>1. /\ UNCHANGED <<xfer, hold, chan, toB, lFlush, lBuf>> /\ UNCHANGED Gone
        /\ toL' = <<>> \/ (toL # <<>> /\ toL' = Tail(toL))
    BY <1>1 DEF unlink_urb, TakeFrame, drainRead, drainEnd, recvKeeps, drainKeeps, borrowDir, Gone, GoneIn
  <2>2. Commands'
    <3>1. CASE toL' = <<>>
      BY <1>0, <2>1, <3>1, CmdDrop DEF PipeInv, Commands
    <3>2. CASE toL # <<>> /\ toL' = Tail(toL)
      BY <1>0, <2>1, <3>2, CmdTake DEF PipeInv, Commands
    <3> QED BY <2>1, <3>1, <3>2
  <2> QED BY <1>0, <2>1, <2>2 DEF PipeInv, Replies, Numbers, ReplyIsExpected
<1>2. CASE sendResumes
  <2> DEFINE c == ChannelOf(xfer[hold[1].seq].kind)
  <2>1. /\ UNCHANGED <<xfer, toL, toB, lFlush, lBuf>> /\ UNCHANGED Gone
        /\ hold # <<>> /\ hold' = <<>>
        /\ UNCHANGED chan \/ chan' = Enqueued(chan, c, hold[1])
    BY <1>2 DEF sendResumes, recvKeeps, borrowDir, Gone, GoneIn, Enqueued
  <2>2. c \in Channel
    <3>1. xfer[hold[1].seq] \in Transfer
      BY <2>1, MapValue DEF TypeInv, TypeOK, LendTypeOK, HoldKnown
    <3> QED BY <3>1, ChannelType DEF Transfer
  <2> HIDE DEF c
  <2>3. RepliesOK(hold', chan', toB, lFlush, lBuf, DOMAIN xfer, Gone, DOMAIN handles)
    BY <2>1, <2>2, HoldMoved, HoldReleased DEF PipeInv, Replies
  <2> QED BY <1>0, <2>1, <2>3 DEF PipeInv, Commands, Replies, Numbers, ReplyIsExpected
<1>3. CASE endRecvLoop \/ \E s \in DOMAIN xfer : recvPanic(s)
  <2>0. UNCHANGED <<hold, chan, toB, lFlush, lBuf>>
    BY <1>3 DEF endRecvLoop, recvPanic, dropHandler, borrowDir
  <2>1. /\ UNCHANGED toL \/ toL' = <<>>
        /\ xfer' = [s \in DOMAIN xfer |-> [xfer[s] EXCEPT !.st = "gone"]]
    BY <1>3 DEF endRecvLoop, recvPanic, dropHandler, borrowDir
  <2>2. DOMAIN xfer' = DOMAIN xfer /\ Gone \subseteq DOMAIN xfer /\ Gone' = DOMAIN xfer
    <3>1. \A s \in DOMAIN xfer : xfer[s] \in Transfer
      BY MapValue DEF TypeInv, TypeOK, LendTypeOK
    <3> QED BY <2>1, <3>1 DEF Gone, GoneIn, Transfer
  <2>3. RepliesOK(hold, chan, toB, lFlush, lBuf, DOMAIN xfer, DOMAIN xfer, DOMAIN handles)
    BY <2>2, MoreGone DEF PipeInv, Replies
  <2>4. CmdsOK(toL', bFlush, bBuf, DOMAIN handles, DOMAIN xfer)
    BY <2>1, CmdDrop DEF PipeInv, Commands
  <2>5. Commands' /\ Numbers'
    BY <1>0, <2>2, <2>4 DEF PipeInv, Commands, Numbers
  <2>6. Replies'
    BY <1>0, <2>0, <2>2, <2>3 DEF Replies
  <2> QED BY <1>0, <2>5, <2>6 DEF PipeInv, ReplyIsExpected
<1>4. CASE \E s \in DOMAIN xfer : completed(s)
  BY <1>4, PipeCompletes
<1>5. CASE new_transfer \/ blocking_request \/ port_reset
  BY <1>5, PipeStarts
<1>6. \/ unlink_urb \/ drainRead \/ drainEnd \/ sendResumes \/ endRecvLoop
      \/ (\E s \in DOMAIN xfer : recvPanic(s)) \/ (\E s \in DOMAIN xfer : completed(s))
      \/ new_transfer \/ blocking_request \/ port_reset
  BY LendRecvCases
<1> QED BY <1>1, <1>2, <1>3, <1>4, <1>5, <1>6

(* The send loop of the lender. *)
LEMMA PipeLendSend ==
  ASSUME PipeInv, TypeInv, BuffersInv, UNCHANGED <<vhciVars, borrowVars>>, LendSend
  PROVE  PipeInv'
<1>0. /\ UNCHANGED <<toL, bFlush, bBuf, handles, urbOf, curSeq, bRecv>>
      /\ UNCHANGED <<xfer, hold>> /\ UNCHANGED Gone
  <2>1. UNCHANGED <<toL, xfer, hold>>
    BY LendSendCases DEF transferReplied, transferAborts, lendFlushBuf, lendWriteFrame,
       lendFlushComplete, lendEndSend, sendKeeps, lendDir
  <2> QED BY <2>1 DEF borrowVars, Gone, GoneIn
<1> SUFFICES Replies'
  BY <1>0 DEF PipeInv, Commands, Numbers, ReplyIsExpected
<1>1. ASSUME NEW c \in Channel, transferReplied(c) PROVE Replies'
  <2> DEFINE e == reply(c, Head(chan[c]))
  <2>1. /\ chan[c] # <<>> /\ chan' = Dequeued(chan, c) /\ lBuf' = Append(lBuf, e)
        /\ UNCHANGED <<toB, lFlush>> /\ Head(chan[c]).res.class # "abortable"
    BY <1>1 DEF transferReplied, Dequeued, borrowDir
  <2>2. e.seq = Head(chan[c]).seq
    BY DEF reply, RetFrame
  <2>3. e \in RetFrames(Seqnum)
    <3>1. /\ Head(chan[c]).seq \in Seqnum
          /\ Head(chan[c]).res.err \in ReportableError \cup {"Success"}
      BY <2>1, TakeCompletion, ResultType, SessionAssumption DEF TypeInv, TypeOK
    <3> QED BY <3>1 DEF reply, RetFrame, RetFrames, Status
  <2> HIDE DEF e
  <2>4. RepliesOK(hold, Dequeued(chan, c), toB, lFlush, Append(lBuf, e), DOMAIN xfer, Gone, DOMAIN handles)
    BY <2>1, <2>2, <2>3, ReplyMade DEF PipeInv, Replies
  <2> QED BY <1>0, <2>1, <2>4 DEF Replies
<1>2. ASSUME NEW c \in Channel, transferAborts(c) PROVE Replies'
  <2> DEFINE d == Head(chan[c])
             header == RetFrame("RetSubmit", d.seq, as_proto(d.res.err), "Success")
             torn == Head(lFlush)
  <2>1. /\ chan[c] # <<>> /\ chan' = NoChannel /\ lBuf' = <<>> /\ lFlush' = <<>>
        /\ toB' \in onWire(header) /\ d.res.class = "abortable"
    BY <1>2 DEF transferAborts, endSending
  <2>2. header \in RetFrames(Seqnum) /\ header.seq = d.seq
    <3>1. d.seq \in Seqnum /\ d.res.err \in AbortableError
      BY <2>1, TakeCompletion, ResultType, SessionAssumption DEF TypeInv, TypeOK
    <3> QED BY <3>1, StatusType DEF RetFrame, RetFrames
  <2>3. Queued(chan[c], d.seq)
    BY <2>1 DEF Queued, TypeInv, TypeOK, LendTypeOK
  <2>4. \/ toB' = toB \/ toB' = Append(toB, header)
        \/ /\ lFlush # <<>>
           /\ \/ toB' = Append(toB, [torn EXCEPT !.cmd = "Garbage"])
              \/ toB' = Append(toB, [torn EXCEPT !.whole = FALSE])
    BY <2>1 DEF onWire
  <2> HIDE DEF header
  <2>5. CASE toB' = toB
    BY <1>0, <2>1, <2>5, SendEnds DEF PipeInv, Replies
  <2>6. CASE toB' = Append(toB, header)
    <3>1. RepliesOK(hold, NoChannel, Append(toB, header), <<>>, <<>>, DOMAIN xfer, Gone, DOMAIN handles)
      BY <2>2, <2>3, SendAborts DEF PipeInv, Replies
    <3> QED BY <1>0, <2>1, <2>6, <3>1 DEF Replies
  <2>7. ASSUME NEW e \in RetFrames(Seqnum), toB' = Append(toB, e),
               e.cmd \in Rets => Has(lFlush, Rets, e.seq)
        PROVE  Replies'
    <3>1. RepliesOK(hold, NoChannel, Append(toB, e), <<>>, <<>>, DOMAIN xfer, Gone, DOMAIN handles)
      BY <2>7, SendAborts DEF PipeInv, Replies
    <3> QED BY <1>0, <2>1, <2>7, <3>1 DEF Replies
  <2>8. CASE lFlush # <<>> /\ toB' = Append(toB, [torn EXCEPT !.cmd = "Garbage"])
    <3>1. torn \in RetFrames(Seqnum)
      BY <2>8, QueueTake, SessionAssumption DEF TypeInv, TypeOK, LendTypeOK
    <3>2. [torn EXCEPT !.cmd = "Garbage"] \in RetFrames(Seqnum)
          /\ [torn EXCEPT !.cmd = "Garbage"].cmd \notin Rets
      BY <3>1 DEF RetFrames, Rets
    <3> QED BY <2>7, <2>8, <3>2
  <2>9. CASE lFlush # <<>> /\ toB' = Append(toB, [torn EXCEPT !.whole = FALSE])
    <3> DEFINE e == [torn EXCEPT !.whole = FALSE]
    <3>1. torn \in RetFrames(Seqnum) /\ lFlush \in Seq(RetFrames(Seqnum))
      BY <2>9, QueueTake, SessionAssumption DEF TypeInv, TypeOK, LendTypeOK
    <3>2. e \in RetFrames(Seqnum) /\ e.cmd = torn.cmd /\ e.seq = torn.seq
      BY <3>1 DEF RetFrames
    <3>3. torn.cmd \in Rets => Has(lFlush, Rets, torn.seq)
      BY <2>9, <3>1, HasTake
    <3> QED BY <2>7, <2>9, <3>2, <3>3
  <2> QED BY <2>4, <2>5, <2>6, <2>8, <2>9
<1>3. CASE lendFlushBuf
  BY <1>0, <1>3, RepliesFlushed DEF lendFlushBuf, lend_flush_buf, BuffersInv, borrowDir,
     PipeInv, Replies
<1>4. CASE lendWriteFrame
  BY <1>0, <1>4, ReplyWritten DEF lendWriteFrame, PipeInv, Replies
<1>5. CASE lendFlushComplete
  BY <1>0, <1>5 DEF lendFlushComplete, borrowDir, PipeInv, Replies
<1>6. CASE lendEndSend
  BY <1>0, <1>6, SendEnds DEF lendEndSend, endSending, PipeInv, Replies
<1> QED BY <1>1, <1>2, <1>3, <1>4, <1>5, <1>6, LendSendCases

(* The blocking thread, the device and the task that owns both loops. *)
LEMMA PipeLendRest ==
  ASSUME PipeInv, TypeInv, UNCHANGED <<vhciVars, borrowVars>>,
         LendThread \/ Device \/ lendStopped \/ LendMain \/ CancelLend
  PROVE  PipeInv'
<1>0. UNCHANGED <<toL, toB, bFlush, bBuf, handles, urbOf, curSeq, bRecv, hold, chan, lFlush, lBuf>>
  BY DEF borrowVars, LendThread, Device, deviceDone, deviceKeeps, lendStopped, sendKeeps,
     LendMain, lendJoined, libusbJoined, CancelLend, lendMainKeeps, streamVars, lendDir, borrowDir
<1>1. DOMAIN xfer' = DOMAIN xfer /\ Gone' = Gone
  <2>1. \A s \in DOMAIN xfer : xfer[s] \in Transfer
    BY MapValue DEF TypeInv, TypeOK, LendTypeOK
  <2>2. CASE UNCHANGED xfer
    BY <2>2 DEF Gone, GoneIn
  <2>3. CASE LendThread /\ xfer' # xfer
    BY <2>1, <2>3 DEF Gone, GoneIn, LendThread, Transfer
  <2>4. CASE Device
    <3>1. PICK s \in DOMAIN xfer, r \in TransferStatus \cup RusbError : deviceDone(s, r)
      BY <2>4 DEF Device
    <3>2. xfer[s].st = "inflight" /\ xfer' = [xfer EXCEPT ![s].st = "ready", ![s].res = r]
      BY <3>1 DEF deviceDone
    <3>3. /\ DOMAIN xfer' = DOMAIN xfer /\ xfer'[s].st = "ready"
          /\ \A t \in DOMAIN xfer : t # s => xfer'[t] = xfer[t]
      BY <2>1, <3>2 DEF Transfer
    <3> QED BY <3>2, <3>3 DEF Gone, GoneIn
  <2> QED BY <2>2, <2>3, <2>4 DEF lendStopped, sendKeeps, LendMain, lendJoined, libusbJoined,
     CancelLend, lendMainKeeps
<1> QED BY <1>0, <1>1 DEF PipeInv, Commands, Replies, Numbers, ReplyIsExpected

LEMMA PipeStep ==
  TypeInv /\ BuffersInv /\ OrderInv /\ HandleInv /\ PipeInv /\ [Next]_vars => PipeInv'
<1> SUFFICES ASSUME TypeInv, BuffersInv, HandleInv, PipeInv, [Next]_vars PROVE PipeInv'
  OBVIOUS
<1>1. CASE Guest /\ UNCHANGED <<borrowVars, streamVars, lendVars>>
  BY <1>1, PipeKept DEF borrowVars, streamVars, lendVars, PipeInv, ReplyIsExpected
<1>2. CASE ConnectionLost /\ UNCHANGED <<vhciVars, borrowVars, lendVars>>
  <2>1. /\ toL' = <<>> /\ toB' = <<>>
        /\ UNCHANGED <<bFlush, bBuf, handles, xfer, hold, chan, lFlush, lBuf, urbOf, curSeq, bRecv>>
        /\ UNCHANGED Gone
    BY <1>2 DEF ConnectionLost, borrowVars, lendVars, Gone, GoneIn
  <2>2. Commands' /\ Replies'
    BY <2>1, CmdDrop, StreamEmptied DEF PipeInv, Commands, Replies
  <2> QED BY <2>1, <2>2 DEF PipeInv, Numbers, ReplyIsExpected
<1>3. CASE UNCHANGED vars
  BY <1>3, PipeKept DEF vars, borrowVars, streamVars, lendVars, PipeInv, ReplyIsExpected
<1> QED
  BY <1>1, <1>2, <1>3, PipeBorrowSend, PipeBorrowRecv, PipeBorrowMain, PipeLendRecv,
     PipeLendSend, PipeLendRest DEF Next, Borrower, Lender

LEMMA InitPipe == Init => PipeInv
<1> SUFFICES ASSUME Init PROVE PipeInv
  OBVIOUS
<1>1. /\ toL = <<>> /\ bFlush = <<>> /\ bBuf = <<>> /\ toB = <<>> /\ lFlush = <<>> /\ lBuf = <<>>
      /\ hold = <<>> /\ chan = NoChannel /\ bRecv = "run"
      /\ DOMAIN handles = {} /\ DOMAIN xfer = {} /\ DOMAIN urbOf = {}
  BY EmptyIsMap DEF Init, BorrowInit, LendInit, StreamInit
<1>2. Gone = {}
  BY <1>1 DEF Gone, GoneIn
<1>3. Commands
  BY <1>1, SortedNone, HasNone, EmptyQueue DEF Commands, CmdsOK, Ahead
<1>4. NoChannel \in [Channel -> Seq(Completion)] /\ \A c \in Channel : NoChannel[c] = <<>>
  BY EmptyQueue DEF NoChannel
<1>5. DonesOK(<<>>, NoChannel) /\ \A s : ~Waits(<<>>, NoChannel, s)
  BY <1>4, QueuedNone, EmptyQueue DEF DonesOK, Separate, Waits
<1>6. AnswersOK(<<>>, <<>>, <<>>) /\ \A s : ~Answers(<<>>, <<>>, <<>>, s)
  BY OnceNone, HasNone, EmptyQueue DEF AnswersOK, Apart, Answers
<1>7. Replies
  BY <1>1, <1>2, <1>5, <1>6 DEF Replies, RepliesOK, PlacesOK
<1> QED BY <1>1, <1>3, <1>7 DEF PipeInv, Numbers, ReplyIsExpected

(* Both unwrap()s of urb_reply and device_reset succeed, however many URBs are
   in flight and however their handles are reused: a reply names a command
   that was sent and is answered for the first time. *)
THEOREM RepliesAreExpected == Spec => []ReplyIsExpected
<1> DEFINE Inv == TypeInv /\ BuffersInv /\ OrderInv /\ HandleInv /\ PipeInv
<1>1. Init => Inv
  BY InitType, InitBuffers, InitOrder, InitHandles, InitPipe
<1>2. Inv /\ [Next]_vars => Inv'
  BY NextType, BuffersStep, OrderStep, HandlesStep, PipeStep
<1>3. Inv => ReplyIsExpected
  BY DEF PipeInv
<1> QED BY <1>1, <1>2, <1>3, PTL DEF Spec

-----------------------------------------------------------------------------
(* A queue one step later, where what is new in it is in T. *)
Moved(q, p, T) ==
  p = q \/ p = <<>> \/ (q # <<>> /\ p = Tail(q)) \/ \E e \in T : p = Append(q, e)

LEMMA MovedIn ==
  ASSUME NEW S, NEW T, S \subseteq T, NEW q \in Seq(S), NEW p, Moved(q, p, T)
  PROVE  p \in Seq(T)
<1>1. q \in Seq(T)
  BY SeqMonotonic
<1> QED BY <1>1, QueueTake, QueuePut, EmptyQueue DEF Moved

(* The histories only grow, and a transfer keeps its kind, its token and,
   once it has one, its result. *)
Extended(f, g) == DOMAIN f \subseteq DOMAIN g /\ \A x \in DOMAIN f : g[x] = f[x]
Advanced(x, y) ==
  /\ DOMAIN x \subseteq DOMAIN y
  /\ \A s \in DOMAIN x : /\ y[s].kind = x[s].kind /\ y[s].tok = x[s].tok
                         /\ x[s].res # "none" => y[s].res = x[s].res

(* Frames and completions that say what their sequence number stands for. *)
GoodCmd(f, uo, us, un) ==
  /\ f.seq \in DOMAIN uo
  /\ f.cmd = "CmdPort" => uo[f.seq] = 0
  /\ f.cmd = "CmdSubmit" => uo[f.seq] \in DOMAIN us /\ f.kind = us[uo[f.seq]].kind
  /\ f.cmd = "CmdUnlink" => uo[f.seq] \in un
GoodCmds(uo, us, un) == {f \in CmdFrames(Seqnum) : GoodCmd(f, uo, us, un)}
GoodDone(d, x) == d.seq \in DOMAIN x /\ x[d.seq].res # "none" /\ d.res = resultOf(x[d.seq])
GoodDones(x, c) == {d \in Completion : GoodDone(d, x) /\ ChannelOf(x[d.seq].kind) = c}
GoodRet(f, x) ==
  f.cmd \in Rets =>
    /\ f.seq \in DOMAIN x /\ x[f.seq].res # "none"
    /\ f.cmd = "RetPort" <=> x[f.seq].kind = "reset"
    /\ f.status = "Success" => /\ resultOf(x[f.seq]).class # "abortable"
                               /\ f.res = resultOf(x[f.seq]).err
GoodRets(x) == {f \in RetFrames(Seqnum) : GoodRet(f, x)}
GoodTransfer(t, u, us) ==
  /\ t.st = "ready" => t.res # "none"
  /\ t.st \in {"queued", "inflight"} => t.res = "none"
  /\ IF u = 0 THEN t.kind = "reset" ELSE u \in DOMAIN us /\ t.kind = us[u].kind

LEMMA ResultSame ==
  ASSUME NEW t, NEW v, t.kind = v.kind, t.res = v.res
  PROVE  resultOf(t) = resultOf(v)
BY DEF resultOf

LEMMA CmdsStayGood ==
  ASSUME NEW uo, NEW us, NEW un, NEW uo2, NEW us2, NEW un2,
         Extended(uo, uo2), Extended(us, us2), un \subseteq un2
  PROVE  GoodCmds(uo, us, un) \subseteq GoodCmds(uo2, us2, un2)
BY DEF Extended, GoodCmds, GoodCmd

LEMMA DonesStayGood ==
  ASSUME NEW x, NEW y, Advanced(x, y)
  PROVE  /\ \A d : GoodDone(d, x) => GoodDone(d, y)
         /\ \A c : GoodDones(x, c) \subseteq GoodDones(y, c)
<1>1. \A s \in DOMAIN x : x[s].res # "none" =>
        s \in DOMAIN y /\ y[s].res # "none" /\ resultOf(y[s]) = resultOf(x[s]) /\ y[s].kind = x[s].kind
  BY ResultSame DEF Advanced
<1>2. \A d : GoodDone(d, x) => GoodDone(d, y) /\ y[d.seq].kind = x[d.seq].kind
  BY <1>1 DEF GoodDone
<1> QED BY <1>2 DEF GoodDones

LEMMA RetsStayGood ==
  ASSUME NEW x, NEW y, Advanced(x, y)
  PROVE  GoodRets(x) \subseteq GoodRets(y)
<1>1. \A s \in DOMAIN x : x[s].res # "none" =>
        s \in DOMAIN y /\ y[s].res # "none" /\ resultOf(y[s]) = resultOf(x[s]) /\ y[s].kind = x[s].kind
  BY ResultSame DEF Advanced
<1>2. \A f : GoodRet(f, x) => GoodRet(f, y)
  BY <1>1 DEF GoodRet
<1> QED BY <1>2 DEF GoodRets

LEMMA Elements ==
  ASSUME NEW S, NEW T, NEW q \in Seq(S)
  PROVE  /\ (\A i \in DOMAIN q : q[i] \in T) => q \in Seq(T)
         /\ \A i \in DOMAIN q : q[i] \in S
OBVIOUS

-----------------------------------------------------------------------------
(* Whose URB a handle stands for, while the port is plugged in: the
   controller's idea of it is that of the work item, of the maps and of the
   giveback that has the handle. *)
OwnWork(cu) == {w \in Work : w.op = "ProcessUrb" => w.h \in DOMAIN cu /\ cu[w.h] = w.u}
OwnTasks(cu) == {t \in Task : t.op = "giveback" =>
                   t.h \in Handles /\ t.h \in DOMAIN cu /\ cu[t.h] = t.u}
OwnSent(sq, uo, cu) ==
  \A h \in DOMAIN sq : h \in Handles => h \in DOMAIN cu /\ cu[h] = uo[sq[h]]
HandleKinds == \A s \in DOMAIN handles : handles[s] \in Handles <=> urbOf[s] # 0
OwnInv ==
  /\ HandleKinds
  /\ port = "gone" => tasks = <<>> /\ DOMAIN cur = {}
  /\ port # "gone" =>
       work \in Seq(OwnWork(cur)) /\ tasks \in Seq(OwnTasks(cur)) /\ OwnSent(seqnums, urbOf, cur)

LEMMA OwnKept ==
  ASSUME OwnInv, UNCHANGED <<handles, urbOf, port, tasks, work, cur, seqnums>>
  PROVE  OwnInv'
BY DEF OwnInv, HandleKinds

LEMMA OwnMore ==
  ASSUME NEW cu, NEW cv, Extended(cu, cv)
  PROVE  /\ OwnWork(cu) \subseteq OwnWork(cv) /\ OwnTasks(cu) \subseteq OwnTasks(cv)
         /\ \A sq, uo : OwnSent(sq, uo, cu) => OwnSent(sq, uo, cv)
BY DEF Extended, OwnWork, OwnTasks, OwnSent

LEMMA InsertExtends ==
  ASSUME NEW f, NEW k, NEW v, k \notin DOMAIN f, NEW g, g = Insert(f, k, v)
  PROVE  Extended(f, g) /\ k \in DOMAIN g /\ g[k] = v
BY DEF Extended, Insert

(* The guest submits a URB with a handle that is free, unlinks one, or resets
   the port. *)
LEMMA OwnGuest ==
  ASSUME OwnInv, TypeInv, OrderInv, Guest, UNCHANGED borrowVars
  PROVE  OwnInv'
<1>0. UNCHANGED <<handles, urbOf, seqnums, tasks>> /\ work \in Seq(Work)
      /\ (port # "gone" => port' # "gone")
      /\ (port = "gone" => port' = "gone" /\ (DOMAIN cur = {} => UNCHANGED cur))
  BY DEF borrowVars, Guest, Submit, Unlink, ResetPort, TypeInv, TypeOK, VhciTypeOK
<1>a. HandleKinds'
  BY <1>0 DEF OwnInv, HandleKinds
<1> SUFFICES ASSUME port # "gone"
             PROVE  /\ work' \in Seq(OwnWork(cur')) /\ tasks' \in Seq(OwnTasks(cur'))
                    /\ OwnSent(seqnums', urbOf', cur')
  BY <1>0, <1>a DEF OwnInv
<1>1. work \in Seq(OwnWork(cur)) /\ tasks \in Seq(OwnTasks(cur)) /\ OwnSent(seqnums, urbOf, cur)
  BY DEF OwnInv
<1>2. ASSUME NEW h \in Handles, NEW shape \in Shapes, Submit(h, shape)
      PROVE  /\ work' \in Seq(OwnWork(cur')) /\ tasks' \in Seq(OwnTasks(cur'))
             /\ OwnSent(seqnums', urbOf', cur')
  <2> DEFINE u == Len(urbs) + 1
             w == ProcessUrb(h, u, kaddr)
  <2>1. /\ h \notin DOMAIN cur /\ cur' = Insert(cur, h, u) /\ work' = Append(work, w)
        /\ u \in Urb /\ kaddr \in {0, 1}
    BY <1>2, VhciAssumption DEF Submit, TypeInv, TypeOK, VhciTypeOK, Urb
  <2>2. Extended(cur, cur') /\ h \in DOMAIN cur' /\ cur'[h] = u
    BY <2>1, InsertExtends
  <2>3. w \in OwnWork(cur')
    BY <2>1, <2>2 DEF OwnWork, ProcessUrb, Work
  <2> HIDE DEF w
  <2>4. Moved(work, work', OwnWork(cur'))
    BY <2>1, <2>3 DEF Moved
  <2> QED BY <1>0, <1>1, <2>2, <2>4, OwnMore, MovedIn, SeqMonotonic
<1>3. ASSUME NEW w \in Work, w.op # "ProcessUrb", work' = Append(work, w), UNCHANGED cur
      PROVE  /\ work' \in Seq(OwnWork(cur')) /\ tasks' \in Seq(OwnTasks(cur'))
             /\ OwnSent(seqnums', urbOf', cur')
  <2>1. w \in OwnWork(cur)
    BY <1>3 DEF OwnWork
  <2> QED BY <1>0, <1>1, <1>3, <2>1, QueuePut
<1>4. ASSUME NEW h \in Handles, Unlink(h)
      PROVE  /\ work' \in Seq(OwnWork(cur')) /\ tasks' \in Seq(OwnTasks(cur'))
             /\ OwnSent(seqnums', urbOf', cur')
  BY <1>3, <1>4 DEF Unlink, CancelUrb, Work
<1>5. CASE ResetPort
  BY <1>3, <1>5 DEF ResetPort, PortStat, Work, Resetting, PortFlag
<1> QED BY <1>2, <1>4, <1>5 DEF Guest

(* The send loop of the borrower. *)
LEMMA OwnBorrowSend ==
  ASSUME OwnInv, TypeInv, OrderInv, HandleInv, PipeInv, BorrowSend
  PROVE  OwnInv'
<1>0. port # "gone" /\ UNCHANGED <<port, cur>>
  <2>1. bSend # "done"
    BY DEF BorrowSend, port_stat, set_address, process_urb, cancel_urb, FlushBuf, WriteFrame,
       FlushComplete, EndSendLoop, TakeWork, Sending
  <2>2. port # "gone"
    BY <2>1 DEF OrderInv
  <2> QED BY <2>2 DEF BorrowSend, port_stat, set_address, process_urb, cancel_urb, FlushBuf, WriteFrame,
       FlushComplete, EndSendLoop, vhciVars
<1>1. work \in Seq(OwnWork(cur)) /\ tasks \in Seq(OwnTasks(cur)) /\ OwnSent(seqnums, urbOf, cur)
  BY <1>0 DEF OwnInv
<1>2. CASE UNCHANGED <<handles, urbOf, tasks, work, seqnums>>
  BY <1>0, <1>2, OwnKept
<1>3. CASE UNCHANGED <<handles, urbOf, tasks, seqnums>> /\ work # <<>> /\ work' = Tail(work)
  BY <1>0, <1>1, <1>3, QueueTake DEF OwnInv, HandleKinds
<1>4. ASSUME NEW h, NEW u, nextSeqnum(h, u), work # <<>>, work' = Tail(work), UNCHANGED tasks,
             h \notin DOMAIN seqnums, h \in Handles <=> u # 0,
             h \in Handles => h \in DOMAIN cur /\ cur[h] = u
      PROVE  OwnInv'
  <2>1. /\ curSeq \notin DOMAIN handles /\ curSeq \notin DOMAIN urbOf
        /\ DOMAIN handles \subseteq DOMAIN urbOf
    BY BorrowAssumption DEF PipeInv, Numbers, TypeInv, TypeOK, BorrowTypeOK, HandlesKnown
  <2>2. /\ Extended(handles, handles') /\ handles'[curSeq] = h /\ curSeq \in DOMAIN handles'
        /\ Extended(urbOf, urbOf') /\ urbOf'[curSeq] = u /\ curSeq \in DOMAIN urbOf'
        /\ Extended(seqnums, seqnums') /\ seqnums'[h] = curSeq /\ h \in DOMAIN seqnums'
    BY <1>4, <2>1, InsertExtends DEF nextSeqnum
  <2>3. DOMAIN handles' = DOMAIN handles \cup {curSeq} /\ DOMAIN seqnums' = DOMAIN seqnums \cup {h}
    BY <1>4, InsertValue DEF nextSeqnum
  <2>4. HandleKinds'
    BY <1>4, <2>1, <2>2, <2>3 DEF HandleKinds, OwnInv, Extended
  <2>5. \A g \in DOMAIN seqnums : seqnums[g] \in DOMAIN urbOf
    BY <2>1 DEF HandleInv, MapsInverse
  <2>6. OwnSent(seqnums', urbOf', cur')
    BY <1>0, <1>1, <1>4, <2>2, <2>3, <2>5 DEF OwnSent, Extended
  <2>7. work' \in Seq(OwnWork(cur))
    BY <1>1, <1>4, QueueTake
  <2> QED BY <1>0, <1>1, <1>4, <2>4, <2>6, <2>7 DEF OwnInv
<1>5. CASE port_stat
  <2>1. work # <<>> /\ work' = Tail(work) /\ UNCHANGED tasks
    BY <1>5 DEF port_stat, TakeWork
  <2>2. CASE send_port_reset(Head(work).stat)
    <3>1. PICK h \in ResetHandles \ DOMAIN seqnums : nextSeqnum(h, 0)
      BY <1>5, <2>2 DEF port_stat
    <3>2. h \notin Handles
      BY VhciAssumption
    <3> QED BY <1>4, <2>1, <3>1, <3>2
  <2>3. CASE ~send_port_reset(Head(work).stat)
    BY <1>3, <1>5, <2>1, <2>3 DEF port_stat
  <2> QED BY <2>2, <2>3
<1>6. ASSUME TakeWork("ProcessUrb")
      PROVE  /\ work # <<>> /\ work' = Tail(work) /\ Head(work).h \in Handles /\ Head(work).u \in Urb
             /\ Head(work).h \in DOMAIN cur /\ cur[Head(work).h] = Head(work).u
             /\ Head(work).h \notin DOMAIN seqnums
  <2>1. /\ work # <<>> /\ work' = Tail(work) /\ Head(work).op = "ProcessUrb"
        /\ Head(work).h \in Handles /\ Head(work).u \in Urb
    BY <1>6, TakeWorkType DEF TakeWork, BorrowerInv, TypeInv, TypeOK
  <2>2. Head(work) \in OwnWork(cur)
    BY <1>1, <2>1, QueueTake
  <2>3. Asks(1) /\ Head(work) = work[1]
    BY <2>1 DEF Asks, TypeInv, TypeOK, VhciTypeOK
  <2> QED BY <2>1, <2>2, <2>3 DEF OwnWork, HandleInv, WorkNotSent
<1>7. CASE set_address
  <2> DEFINE w == Head(work)
             g == Giveback(w.h, w.u, "Success")
  <2>1. /\ TakeWork("ProcessUrb") /\ tasks' = Append(tasks, g)
        /\ UNCHANGED <<handles, urbOf, seqnums>>
    BY <1>7 DEF set_address
  <2>2. g \in OwnTasks(cur)
    BY <1>6, <2>1 DEF OwnTasks, Giveback, Task, AnyHandle, Outcome
  <2>3. tasks' \in Seq(OwnTasks(cur))
    <3> HIDE DEF g
    <3> QED BY <1>1, <2>1, <2>2, QueuePut
  <2>4. work' \in Seq(OwnWork(cur))
    BY <1>1, <1>6, <2>1, QueueTake
  <2> QED BY <1>0, <1>1, <2>1, <2>3, <2>4 DEF OwnInv, HandleKinds
<1>8. CASE process_urb
  <2>1. TakeWork("ProcessUrb") /\ nextSeqnum(Head(work).h, Head(work).u) /\ UNCHANGED tasks
    BY <1>8 DEF process_urb
  <2>2. Head(work).u # 0
    BY <1>6, <2>1, VhciAssumption DEF Urb
  <2> QED BY <1>4, <1>6, <2>1, <2>2
<1>9. CASE cancel_urb
  BY <1>3, <1>9 DEF cancel_urb, TakeWork
<1> QED BY <1>2, <1>5, <1>7, <1>8, <1>9 DEF BorrowSend, FlushBuf, WriteFrame, FlushComplete,
     EndSendLoop, sendUnchanged, vhciVars

(* What the queues and the transfers hold. *)
CmdsInv ==
  /\ toL \in Seq(GoodCmds(urbOf, urbs, unlinked))
  /\ bFlush \in Seq(GoodCmds(urbOf, urbs, unlinked))
  /\ bBuf \in Seq(GoodCmds(urbOf, urbs, unlinked))
DonesInv ==
  /\ \A c \in Channel : chan[c] \in Seq(GoodDones(xfer, c))
  /\ \A i \in DOMAIN hold : GoodDone(hold[i], xfer)
RetsInv ==
  toB \in Seq(GoodRets(xfer)) /\ lFlush \in Seq(GoodRets(xfer)) /\ lBuf \in Seq(GoodRets(xfer))
TransfersInv == \A s \in DOMAIN xfer : GoodTransfer(xfer[s], urbOf[s], urbs)

(* A reply to a submitted URB is never one to a reset. *)
LEMMA ReplyKinds ==
  ASSUME TypeInv, PipeInv, RetsInv, TransfersInv, OwnInv, HandleInv, CanRead, Reply.cmd \in Rets
  PROVE  /\ Reply.seq \in DOMAIN handles
         /\ handles[Reply.seq] \in DOMAIN seqnums /\ seqnums[handles[Reply.seq]] = Reply.seq
         /\ Reply.cmd = "RetPort" <=> urbOf[Reply.seq] = 0
         /\ handles[Reply.seq] \in Handles <=> Reply.cmd # "RetPort"
<1>1. Reply \in GoodRets(xfer) /\ toB # <<>>
  BY QueueTake DEF CanRead, RetsInv, Reply
<1>2. Reply.seq \in DOMAIN handles
  BY <1>1, ReplyRead DEF PipeInv, Replies, Reply
<1>3. Reply.seq \in DOMAIN xfer /\ (Reply.cmd = "RetPort" <=> xfer[Reply.seq].kind = "reset")
  BY <1>1 DEF GoodRets, GoodRet
<1>4. Reply.cmd = "RetPort" <=> urbOf[Reply.seq] = 0
  <2>1. CASE urbOf[Reply.seq] = 0
    BY <1>3, <2>1 DEF TransfersInv, GoodTransfer
  <2>2. CASE urbOf[Reply.seq] # 0
    <3>1. /\ urbOf[Reply.seq] \in DOMAIN urbs
          /\ xfer[Reply.seq].kind = urbs[urbOf[Reply.seq]].kind
      BY <1>3, <2>2 DEF TransfersInv, GoodTransfer
    <3>2. urbs[urbOf[Reply.seq]] \in Shapes
      BY <3>1 DEF TypeInv, TypeOK, VhciTypeOK
    <3>3. urbs[urbOf[Reply.seq]].kind # "reset"
      BY <3>2, VhciAssumption DEF UrbKind, RemoteKind, Asynchronous, Blocking
    <3> QED BY <1>3, <2>2, <3>1, <3>3
  <2> QED BY <2>1, <2>2
<1> QED BY <1>2, <1>4 DEF HandleInv, MapsInverse, OwnInv, HandleKinds

(* The receive loop of the borrower. *)
LEMMA OwnBorrowRecv ==
  ASSUME OwnInv, TypeInv, OrderInv, HandleInv, PipeInv, RetsInv, TransfersInv, BorrowRecv
  PROVE  OwnInv'
<1>1. ASSUME CanRead, Reply.cmd \in Rets, forget(Reply.seq), UNCHANGED <<urbOf, cur>>
      PROVE  /\ HandleKinds' /\ port # "gone"
             /\ OwnSent(seqnums', urbOf', cur')
  <2>1. port # "gone" /\ OwnSent(seqnums, urbOf, cur) /\ HandleKinds
    BY <1>1 DEF CanRead, OrderInv, Unplugging, OwnInv
  <2>2. /\ DOMAIN handles' = DOMAIN handles \ {Reply.seq}
        /\ \A s \in DOMAIN handles' : handles'[s] = handles[s]
    BY <1>1 DEF forget, Remove
  <2>3. /\ DOMAIN seqnums' = DOMAIN seqnums \ {handles[Reply.seq]}
        /\ \A h \in DOMAIN seqnums' : seqnums'[h] = seqnums[h]
    BY <1>1 DEF forget, Remove
  <2> QED BY <1>1, <2>1, <2>2, <2>3 DEF HandleKinds, OwnSent
<1>2. CASE urb_reply
  <2> DEFINE g == Giveback(handles[Reply.seq], urbOf[Reply.seq], Reply.res)
  <2>1. /\ CanRead /\ Reply.cmd = "RetSubmit" /\ forget(Reply.seq)
        /\ UNCHANGED <<urbOf, cur, port, work>> /\ tasks' = Append(tasks, g)
    BY <1>2 DEF urb_reply, recvUnchanged
  <2>2. /\ HandleKinds' /\ port # "gone" /\ OwnSent(seqnums', urbOf', cur')
    BY <1>1, <2>1 DEF Rets
  <2>3. /\ Reply.seq \in DOMAIN handles /\ handles[Reply.seq] \in Handles
        /\ handles[Reply.seq] \in DOMAIN seqnums /\ seqnums[handles[Reply.seq]] = Reply.seq
    BY <2>1, ReplyKinds DEF Rets
  <2>4. handles[Reply.seq] \in DOMAIN cur /\ cur[handles[Reply.seq]] = urbOf[Reply.seq]
    BY <2>2, <2>3 DEF OwnInv, OwnSent
  <2>5. g \in OwnTasks(cur)
    <3>1. Reply \in RetFrames(Seqnum)
      BY <2>1, ReplyType DEF CanRead, TypeInv, TypeOK, BorrowerInv
    <3>2. urbOf[Reply.seq] \in {0} \cup Urb
      BY <2>3, MapValue DEF TypeInv, TypeOK, BorrowTypeOK, HandlesKnown
    <3> QED BY <2>3, <2>4, <3>1, <3>2 DEF OwnTasks, Giveback, Task, AnyHandle, Outcome, RetFrames
  <2> HIDE DEF g
  <2>6. tasks' \in Seq(OwnTasks(cur))
    BY <2>1, <2>2, <2>5, QueuePut DEF OwnInv
  <2> QED BY <2>1, <2>2, <2>6 DEF OwnInv
<1>3. CASE device_reset
  <2>1. /\ CanRead /\ Reply.cmd = "RetPort" /\ forget(Reply.seq)
        /\ UNCHANGED <<urbOf, cur, tasks>> /\ work' = Append(work, PortStat(ResetDone))
        /\ port' = "enabled"
    BY <1>3 DEF device_reset, recvUnchanged, PortResetDone
  <2>2. /\ HandleKinds' /\ port # "gone" /\ OwnSent(seqnums', urbOf', cur')
    BY <1>1, <2>1 DEF Rets
  <2>3. PortStat(ResetDone) \in OwnWork(cur)
    BY DEF PortStat, OwnWork, Work, ResetDone, PortFlag
  <2>4. work' \in Seq(OwnWork(cur))
    BY <2>1, <2>2, <2>3, QueuePut DEF OwnInv
  <2> QED BY <2>1, <2>2, <2>4 DEF OwnInv
<1> QED
  BY <1>2, <1>3, OwnKept DEF BorrowRecv, RecvPanic, EndRecvLoop, DrainRead, DrainEnd,
     recvUnchanged, vhciVars

(* The blocking thread: the handle it returns is in no other place. *)
LEMMA OwnThread ==
  ASSUME OwnInv, TypeInv, OrderInv, HandleInv, BlockingThread
  PROVE  OwnInv'
<1>0. UNCHANGED <<handles, urbOf, seqnums, work>> /\ tasks # <<>> /\ tasks' = Tail(tasks)
      /\ work \in Seq(Work) /\ tasks \in Seq(Task)
  BY DEF BlockingThread, borrowVars, RunGiveback, RunDisconnect, TypeInv, TypeOK, VhciTypeOK
<1>1. HandleKinds'
  BY <1>0 DEF OwnInv, HandleKinds
<1>2. CASE RunDisconnect
  <2>1. Head(tasks).op = "disconnect" /\ port' = "gone" /\ DOMAIN cur' = {}
    BY <1>2, EmptyIsMap DEF RunDisconnect
  <2>2. Head(tasks) = tasks[1] /\ 1 \in DOMAIN tasks
    BY <1>0
  <2>3. Len(tasks) = 1
    BY <2>1, <2>2 DEF OrderInv
  <2>4. Tail(tasks) = <<>>
    BY <1>0, <2>3
  <2> QED BY <1>0, <1>1, <2>1, <2>4 DEF OwnInv
<1>3. CASE RunGiveback
  <2> DEFINE h == Head(tasks).h
  <2>1. /\ Head(tasks).op = "giveback" /\ UNCHANGED port
        /\ cur' = IF h \in DOMAIN cur THEN Remove(cur, h) ELSE cur
    BY <1>3 DEF RunGiveback
  <2>2. port # "gone"
    BY <1>0 DEF OwnInv
  <2>3. /\ work \in Seq(OwnWork(cur)) /\ tasks \in Seq(OwnTasks(cur))
        /\ OwnSent(seqnums, urbOf, cur)
    BY <2>2 DEF OwnInv
  <2>4. Head(tasks) = tasks[1] /\ Returns(1) /\ h \in Handles
    <3>1. Head(tasks) = tasks[1] /\ 1 \in DOMAIN tasks
      BY <1>0
    <3>2. Head(tasks) \in OwnTasks(cur)
      BY <1>0, <2>3, QueueTake
    <3> QED BY <2>1, <3>1, <3>2 DEF OwnTasks, Returns
  <2>5. \A g \in DOMAIN cur : g # h => g \in DOMAIN cur' /\ cur'[g] = cur[g]
    BY <2>1 DEF Remove
  <2>6. work \in Seq(OwnWork(cur'))
    <3>1. ASSUME NEW i \in DOMAIN work PROVE work[i] \in OwnWork(cur')
      <4>1. work[i] \in OwnWork(cur)
        BY <2>3, Elements
      <4>2. work[i].op = "ProcessUrb" => work[i].h # h
        BY <2>4 DEF Asks, HandleInv, WorkNotReturned
      <4> QED BY <2>5, <4>1, <4>2 DEF OwnWork
    <3> QED BY <1>0, <3>1, Elements
  <2>7. tasks' \in Seq(OwnTasks(cur'))
    <3>1. ASSUME NEW i \in DOMAIN tasks' PROVE tasks'[i] \in OwnTasks(cur')
      <4>1. i + 1 \in DOMAIN tasks /\ i + 1 # 1 /\ tasks'[i] = tasks[i + 1]
        BY <1>0, <3>1, Taken
      <4>2. tasks[i + 1] \in OwnTasks(cur)
        BY <2>3, <4>1, Elements
      <4>3. tasks[i + 1].op = "giveback" => tasks[i + 1].h # h
        BY <2>4, <4>1, <4>2 DEF OwnTasks, Returns, HandleInv, ReturnsDistinct
      <4> QED BY <2>5, <4>1, <4>2, <4>3 DEF OwnTasks
    <3>2. tasks' \in Seq(Task)
      BY <1>0, QueueTake
    <3> QED BY <3>1, <3>2, Elements
  <2>8. OwnSent(seqnums, urbOf, cur')
    BY <2>3, <2>4, <2>5 DEF OwnSent, HandleInv, SentNotReturned
  <2> QED BY <1>0, <1>1, <2>1, <2>2, <2>6, <2>7, <2>8 DEF OwnInv
<1> QED BY <1>2, <1>3 DEF BlockingThread

LEMMA OwnStep ==
  ASSUME OwnInv, TypeInv, OrderInv, HandleInv, PipeInv, RetsInv, TransfersInv, [Next]_vars
  PROVE  OwnInv'
<1>1. CASE BorrowMain \/ CancelBorrow
  <2>1. CASE SendJoined
    <3>1. /\ tasks' = Append(tasks, Disconnect) /\ UNCHANGED <<handles, urbOf, seqnums, work, port, cur>>
          /\ bMain = "send"
      BY <2>1 DEF SendJoined, mainUnchanged
    <3>2. port # "gone" /\ tasks \in Seq(OwnTasks(cur))
      BY <3>1 DEF OrderInv, Unplugging, OwnInv
    <3>3. Disconnect \in OwnTasks(cur)
      BY DEF Disconnect, OwnTasks, Task
    <3>4. tasks' \in Seq(OwnTasks(cur))
      BY <3>1, <3>2, <3>3, QueuePut
    <3> QED BY <3>1, <3>2, <3>4 DEF OwnInv, HandleKinds
  <2> QED BY <1>1, <2>1, OwnKept DEF BorrowMain, CancelBorrow, RecvJoined, RecvJoinPanic,
       Disconnected, mainUnchanged
<1>2. CASE UNCHANGED <<vhciVars, borrowVars>>
  BY <1>2, OwnKept DEF vhciVars, borrowVars
<1>3. CASE StreamStopped
  BY <1>3, OwnKept DEF StreamStopped, sendUnchanged, vhciVars
<1> QED
  BY <1>1, <1>2, <1>3, OwnGuest, OwnBorrowSend, OwnBorrowRecv, OwnThread
     DEF Next, Borrower, Lender, vars

-----------------------------------------------------------------------------
(* A cancellation on its way to the send loop is for a URB that the guest has
   unlinked, in whatever stage the URB with that handle is. *)
Cancels(i) == i \in DOMAIN work /\ work[i].op = "CancelUrb"
CancelsBehind ==
  \A i, j : Cancels(i) /\ Asks(j) /\ j < i /\ work[i].h = work[j].h => work[j].u \in unlinked
CancelsSent ==
  \A i : Cancels(i) /\ work[i].h \in DOMAIN seqnums => urbOf[seqnums[work[i].h]] \in unlinked
CancelInv == CancelsBehind /\ CancelsSent

LEMMA CancelTaken ==
  ASSUME CancelInv, work \in Seq(Work), work # <<>>, work' = Tail(work), UNCHANGED unlinked,
         \A i : Cancels(i) /\ i # 1 /\ work[i].h \in DOMAIN seqnums' =>
                urbOf'[seqnums'[work[i].h]] \in unlinked
  PROVE  CancelInv'
<1>1. \A i \in DOMAIN work' : i \in Nat /\ i + 1 \in DOMAIN work /\ i + 1 # 1 /\ work'[i] = work[i + 1]
  BY Taken
<1>2. CancelsBehind'
  <2> SUFFICES ASSUME NEW i, NEW j, Cancels(i)', Asks(j)', j < i, work'[i].h = work'[j].h
               PROVE  work'[j].u \in unlinked
    BY DEF CancelsBehind
  <2>1. /\ i \in Nat /\ i + 1 \in DOMAIN work /\ work'[i] = work[i + 1]
        /\ j \in Nat /\ j + 1 \in DOMAIN work /\ work'[j] = work[j + 1]
    BY <1>1 DEF Cancels, Asks
  <2>2. Cancels(i + 1) /\ Asks(j + 1) /\ j + 1 < i + 1
    BY <2>1 DEF Cancels, Asks
  <2> QED BY <2>1, <2>2 DEF CancelInv, CancelsBehind
<1>3. CancelsSent'
  BY <1>1 DEF CancelsSent, Cancels
<1> QED BY <1>2, <1>3 DEF CancelInv

LEMMA CancelAdded ==
  ASSUME CancelInv, work \in Seq(Work), NEW w, work' = Append(work, w),
         unlinked \subseteq unlinked', Extended(seqnums', seqnums), UNCHANGED urbOf,
         w.op = "CancelUrb" =>
           /\ \A j : Asks(j) /\ work[j].h = w.h => work[j].u \in unlinked'
           /\ w.h \in DOMAIN seqnums => urbOf[seqnums[w.h]] \in unlinked'
  PROVE  CancelInv'
<1>0. Len(work) \in Nat /\ DOMAIN work = 1..Len(work)
  OBVIOUS
<1>1. \A i \in DOMAIN work' :
        (i \in DOMAIN work /\ work'[i] = work[i]) \/ (i = Len(work) + 1 /\ work'[i] = w)
  BY Added
<1>2. CancelsBehind'
  <2> SUFFICES ASSUME NEW i, NEW j, Cancels(i)', Asks(j)', j < i, work'[i].h = work'[j].h
               PROVE  work'[j].u \in unlinked'
    BY DEF CancelsBehind
  <2>1. j \in DOMAIN work /\ work'[j] = work[j] /\ Asks(j)
    BY <1>0, <1>1 DEF Cancels, Asks
  <2>2. CASE i \in DOMAIN work /\ work'[i] = work[i]
    BY <2>1, <2>2 DEF Cancels, CancelInv, CancelsBehind
  <2>3. CASE i = Len(work) + 1 /\ work'[i] = w
    BY <2>1, <2>3 DEF Cancels
  <2> QED BY <1>1, <2>2, <2>3 DEF Cancels
<1>3. CancelsSent'
  <2> SUFFICES ASSUME NEW i, Cancels(i)', work'[i].h \in DOMAIN seqnums'
               PROVE  urbOf'[seqnums'[work'[i].h]] \in unlinked'
    BY DEF CancelsSent
  <2>1. work'[i].h \in DOMAIN seqnums /\ seqnums'[work'[i].h] = seqnums[work'[i].h]
    BY DEF Extended
  <2>2. CASE i \in DOMAIN work /\ work'[i] = work[i]
    BY <2>1, <2>2 DEF Cancels, CancelInv, CancelsSent
  <2>3. CASE i = Len(work) + 1 /\ work'[i] = w
    BY <2>1, <2>3 DEF Cancels
  <2> QED BY <1>1, <2>2, <2>3 DEF Cancels
<1> QED BY <1>2, <1>3 DEF CancelInv

LEMMA CancelKept ==
  ASSUME CancelInv, UNCHANGED <<work, unlinked, urbOf>>, Extended(seqnums', seqnums)
  PROVE  CancelInv'
<1>1. CancelsBehind'
  BY DEF CancelInv, CancelsBehind, Cancels, Asks
<1>2. CancelsSent'
  BY DEF CancelInv, CancelsSent, Cancels, Extended
<1> QED BY <1>1, <1>2 DEF CancelInv

LEMMA Shrunk ==
  /\ \A f : Extended(f, f)
  /\ \A f, k : Extended(Remove(f, k), f)
BY DEF Extended, Remove

LEMMA CancelGuest ==
  ASSUME CancelInv, OwnInv, TypeInv, Guest, UNCHANGED borrowVars
  PROVE  CancelInv'
<1>0. work \in Seq(Work) /\ Extended(seqnums', seqnums) /\ UNCHANGED urbOf
  BY Shrunk DEF borrowVars, TypeInv, TypeOK, VhciTypeOK
<1>1. ASSUME NEW h \in Handles, NEW shape, Submit(h, shape) PROVE CancelInv'
  BY <1>0, <1>1, CancelAdded DEF Submit, ProcessUrb
<1>2. ASSUME NEW h \in Handles, Unlink(h) PROVE CancelInv'
  <2>1. /\ h \in DOMAIN cur /\ work' = Append(work, CancelUrb(h)) /\ unlinked' = unlinked \cup {cur[h]}
    BY <1>2 DEF Unlink
  <2>2. \A j : Asks(j) /\ work[j].h = h => work[j].u \in unlinked'
    <3> SUFFICES ASSUME NEW j, Asks(j), work[j].h = h PROVE work[j].u \in unlinked'
      OBVIOUS
    <3>1. CASE port # "gone"
      <4>1. work[j] \in OwnWork(cur)
        BY <3>1, Elements DEF OwnInv, Asks
      <4> QED BY <2>1, <4>1 DEF OwnWork, Asks
    <3>2. CASE port = "gone"
      BY <2>1, <3>2 DEF OwnInv
    <3> QED BY <3>1, <3>2
  <2>3. h \in DOMAIN seqnums => urbOf[seqnums[h]] \in unlinked'
    BY <2>1 DEF OwnInv, OwnSent
  <2> QED BY <1>0, <2>1, <2>2, <2>3, CancelAdded DEF CancelUrb
<1>3. CASE ResetPort
  BY <1>0, <1>3, CancelAdded DEF ResetPort, PortStat
<1> QED BY <1>1, <1>2, <1>3 DEF Guest

LEMMA CancelBorrowSend ==
  ASSUME CancelInv, TypeInv, HandleInv, PipeInv, BorrowSend
  PROVE  CancelInv'
<1>0. work \in Seq(Work) /\ UNCHANGED unlinked
  BY DEF TypeInv, TypeOK, VhciTypeOK, BorrowSend, port_stat, set_address, process_urb,
     cancel_urb, FlushBuf, WriteFrame, FlushComplete, EndSendLoop, vhciVars
<1>1. CASE work # <<>> /\ work' = Tail(work) /\ UNCHANGED <<seqnums, urbOf>>
  BY <1>0, <1>1, CancelTaken DEF CancelInv, CancelsSent
<1>2. ASSUME NEW h, NEW u, nextSeqnum(h, u), work # <<>>, work' = Tail(work),
             \A i : Cancels(i) /\ i # 1 /\ work[i].h = h => u \in unlinked
      PROVE  CancelInv'
  <2>1. curSeq \notin DOMAIN urbOf /\ DOMAIN handles \subseteq DOMAIN urbOf
    BY BorrowAssumption DEF PipeInv, Numbers, TypeInv, TypeOK, BorrowTypeOK, HandlesKnown
  <2>2. Extended(urbOf, urbOf') /\ urbOf'[curSeq] = u
    BY <1>2, <2>1, InsertExtends DEF nextSeqnum
  <2>3. \A g \in DOMAIN seqnums' :
          (g = h /\ seqnums'[g] = curSeq) \/ (g \in DOMAIN seqnums /\ seqnums'[g] = seqnums[g])
    BY <1>2 DEF nextSeqnum, Insert
  <2>4. \A g \in DOMAIN seqnums : seqnums[g] \in DOMAIN urbOf
    BY <2>1 DEF HandleInv, MapsInverse
  <2>5. ASSUME NEW i, Cancels(i), i # 1, work[i].h \in DOMAIN seqnums'
        PROVE  urbOf'[seqnums'[work[i].h]] \in unlinked
    <3>1. CASE work[i].h = h /\ seqnums'[work[i].h] = curSeq
      BY <1>2, <2>2, <2>5, <3>1
    <3>2. CASE work[i].h \in DOMAIN seqnums /\ seqnums'[work[i].h] = seqnums[work[i].h]
      BY <2>2, <2>4, <2>5, <3>2 DEF CancelInv, CancelsSent, Extended
    <3> QED BY <2>3, <2>5, <3>1, <3>2
  <2> QED BY <1>0, <1>2, <2>5, CancelTaken
<1>3. CASE port_stat
  <2>1. work # <<>> /\ work' = Tail(work)
    BY <1>3 DEF port_stat, TakeWork
  <2>2. CASE send_port_reset(Head(work).stat)
    <3>1. PICK h \in ResetHandles : nextSeqnum(h, 0)
      BY <1>3, <2>2 DEF port_stat
    <3>2. \A i : Cancels(i) => work[i].h \in Handles
      <4>1. \A i \in DOMAIN work : work[i] \in Work
        BY <1>0, Elements
      <4> QED BY <4>1 DEF Cancels, Work
    <3>3. h \notin Handles
      BY VhciAssumption
    <3> QED BY <1>2, <2>1, <3>1, <3>2, <3>3
  <2>3. CASE ~send_port_reset(Head(work).stat)
    BY <1>1, <1>3, <2>1, <2>3 DEF port_stat
  <2> QED BY <2>2, <2>3
<1>4. CASE process_urb
  <2>1. /\ work # <<>> /\ work' = Tail(work) /\ Head(work).op = "ProcessUrb"
        /\ nextSeqnum(Head(work).h, Head(work).u)
    BY <1>4 DEF process_urb, TakeWork
  <2>2. Asks(1) /\ Head(work) = work[1] /\ \A i \in DOMAIN work : i # 1 => 1 < i
    BY <1>0, <2>1 DEF Asks
  <2>3. \A i : Cancels(i) /\ i # 1 /\ work[i].h = Head(work).h => Head(work).u \in unlinked
    BY <2>2 DEF CancelInv, CancelsBehind, Cancels
  <2> QED BY <1>2, <2>1, <2>3
<1>5. CASE set_address \/ cancel_urb
  BY <1>1, <1>5 DEF set_address, cancel_urb, TakeWork
<1>6. CASE FlushBuf \/ WriteFrame \/ FlushComplete \/ EndSendLoop
  BY <1>6, Shrunk, CancelKept DEF FlushBuf, WriteFrame, FlushComplete, EndSendLoop, sendUnchanged,
     vhciVars
<1> QED BY <1>3, <1>4, <1>5, <1>6 DEF BorrowSend

LEMMA CancelStep ==
  ASSUME CancelInv, OwnInv, TypeInv, HandleInv, PipeInv, [Next]_vars
  PROVE  CancelInv'
<1>1. CASE BorrowRecv
  <2>1. CASE urb_reply
    BY <2>1, Shrunk, CancelKept DEF urb_reply, forget, recvUnchanged
  <2>2. CASE device_reset
    <3>1. /\ work' = Append(work, PortStat(ResetDone)) /\ UNCHANGED <<unlinked, urbOf>>
          /\ Extended(seqnums', seqnums)
      BY <2>2, Shrunk DEF device_reset, PortResetDone, forget, recvUnchanged
    <3>2. PortStat(ResetDone).op # "CancelUrb"
      BY DEF PortStat
    <3>3. work \in Seq(Work)
      BY DEF TypeInv, TypeOK, VhciTypeOK
    <3> QED BY <3>1, <3>2, <3>3, CancelAdded
  <2> QED BY <1>1, <2>1, <2>2, Shrunk, CancelKept DEF BorrowRecv, RecvPanic, EndRecvLoop,
       DrainRead, DrainEnd, recvUnchanged, vhciVars
<1>2. CASE BorrowMain \/ CancelBorrow \/ StreamStopped \/ BlockingThread
  BY <1>2, Shrunk, CancelKept DEF BorrowMain, CancelBorrow, RecvJoined, RecvJoinPanic,
     SendJoined, Disconnected, StreamStopped, BlockingThread, RunGiveback, RunDisconnect,
     mainUnchanged, sendUnchanged, vhciVars, borrowVars
<1>3. CASE UNCHANGED <<vhciVars, borrowVars>>
  BY <1>3, Shrunk, CancelKept DEF vhciVars, borrowVars
<1> QED
  BY <1>1, <1>2, <1>3, CancelGuest, CancelBorrowSend DEF Next, Borrower, Lender, vars

-----------------------------------------------------------------------------
(* The histories grow. *)
LEMMA History ==
  ASSUME TypeInv, PipeInv, [Next]_vars
  PROVE  Extended(urbOf, urbOf') /\ Extended(urbs, urbs') /\ unlinked \subseteq unlinked'
<1>1. CASE UNCHANGED <<urbs, unlinked, urbOf>>
  BY <1>1, Shrunk
<1>2. CASE Guest /\ UNCHANGED borrowVars
  <2>1. UNCHANGED urbOf /\ unlinked \subseteq unlinked'
    BY <1>2 DEF Guest, Submit, Unlink, ResetPort, borrowVars
  <2>2. UNCHANGED urbs \/ \E shape : urbs' = Append(urbs, shape)
    BY <1>2 DEF Guest, Submit, Unlink, ResetPort
  <2>3. urbs \in Seq(Shapes)
    BY DEF TypeInv, TypeOK, VhciTypeOK
  <2>4. Extended(urbs, urbs')
    BY <2>2, <2>3 DEF Extended
  <2> QED BY <2>1, <2>4, Shrunk
<1>3. CASE BorrowSend
  <2>1. UNCHANGED <<urbs, unlinked>> /\ (UNCHANGED urbOf \/ \E h, u : nextSeqnum(h, u))
    BY <1>3 DEF BorrowSend, port_stat, set_address, process_urb, cancel_urb, FlushBuf, WriteFrame,
       FlushComplete, EndSendLoop, sendUnchanged, vhciVars
  <2>2. curSeq \notin DOMAIN urbOf
    BY BorrowAssumption DEF PipeInv, Numbers, TypeInv, TypeOK, BorrowTypeOK
  <2>3. ASSUME NEW h, NEW u, nextSeqnum(h, u) PROVE Extended(urbOf, urbOf')
    BY <2>2, <2>3, InsertExtends DEF nextSeqnum
  <2> QED BY <2>1, <2>3, Shrunk
<1>4. CASE BorrowRecv \/ BorrowMain \/ CancelBorrow \/ StreamStopped \/ BlockingThread
  <2>1. UNCHANGED <<urbs, unlinked, urbOf>>
    BY <1>4 DEF BorrowRecv, urb_reply, device_reset, PortResetDone, RecvPanic, EndRecvLoop,
       DrainRead, DrainEnd, recvUnchanged, BorrowMain, CancelBorrow, RecvJoined, RecvJoinPanic,
       SendJoined, Disconnected, StreamStopped, BlockingThread, RunGiveback, RunDisconnect,
       mainUnchanged, sendUnchanged, vhciVars, borrowVars
  <2> QED BY <1>1, <2>1
<1>5. CASE UNCHANGED <<vhciVars, borrowVars>>
  BY <1>1, <1>5 DEF vhciVars, borrowVars
<1> QED BY <1>2, <1>3, <1>4, <1>5 DEF Next, Borrower, Lender, vars

(* A transfer moves on: it is started, submitted, completed, or given up. *)
StateSet(x, s, st) == [x EXCEPT ![s].st = st]
ResultSet(x, s, r) == [x EXCEPT ![s].st = "ready", ![s].res = r]
AllGone(x) == [s \in DOMAIN x |-> [x[s] EXCEPT !.st = "gone"]]
Started(x, y, s, t) ==
  /\ s \notin DOMAIN x /\ DOMAIN y = DOMAIN x \cup {s} /\ y[s] = t
  /\ \A r \in DOMAIN x : y[r] = x[r]
Others(x, y, s) == DOMAIN y = DOMAIN x /\ \A q \in DOMAIN x : q # s => y[q] = x[q]
Same(t, v) == v.kind = t.kind /\ v.tok = t.tok

LEMMA StartAdvances ==
  ASSUME NEW x, NEW s, s \notin DOMAIN x, NEW t, NEW y, y = Insert(x, s, t)
  PROVE  Advanced(x, y) /\ Started(x, y, s, t)
BY DEF Advanced, Started, Insert

LEMMA StateAdvances ==
  ASSUME NEW x, IsMap(x, LendSeqnum, Transfer), NEW s \in DOMAIN x, NEW st,
         NEW y, y = StateSet(x, s, st)
  PROVE  Advanced(x, y) /\ Others(x, y, s) /\ Same(x[s], y[s]) /\ y[s].st = st /\ y[s].res = x[s].res
<1>1. Others(x, y, s)
  BY DEF StateSet, Others
<1>2. x[s] \in Transfer
  BY MapValue
<1>3. y[s].kind = x[s].kind /\ y[s].st = st /\ y[s].res = x[s].res /\ y[s].tok = x[s].tok
  BY <1>2 DEF Transfer, StateSet
<1> QED BY <1>1, <1>3 DEF Advanced, Others, Same

LEMMA ResultAdvances ==
  ASSUME NEW x, IsMap(x, LendSeqnum, Transfer), NEW s \in DOMAIN x, NEW r, x[s].res = "none",
         NEW y, y = ResultSet(x, s, r)
  PROVE  Advanced(x, y) /\ Others(x, y, s) /\ Same(x[s], y[s]) /\ y[s].st = "ready" /\ y[s].res = r
<1>1. Others(x, y, s)
  BY DEF ResultSet, Others
<1>2. x[s] \in Transfer
  BY MapValue
<1>3. y[s].kind = x[s].kind /\ y[s].st = "ready" /\ y[s].res = r /\ y[s].tok = x[s].tok
  BY <1>2 DEF Transfer, ResultSet
<1> QED BY <1>1, <1>3 DEF Advanced, Others, Same

LEMMA DropAdvances ==
  ASSUME NEW x, IsMap(x, LendSeqnum, Transfer), NEW y, y = AllGone(x)
  PROVE  /\ Advanced(x, y) /\ DOMAIN y = DOMAIN x
         /\ \A s \in DOMAIN x : Same(x[s], y[s]) /\ y[s].st = "gone" /\ y[s].res = x[s].res
<1>1. \A s \in DOMAIN x : x[s] \in Transfer
  BY MapValue
<1>2. DOMAIN y = DOMAIN x /\ \A s \in DOMAIN x : y[s] = [x[s] EXCEPT !.st = "gone"]
  BY DEF AllGone
<1>3. \A s \in DOMAIN x : /\ y[s].kind = x[s].kind /\ y[s].st = "gone"
                          /\ y[s].res = x[s].res /\ y[s].tok = x[s].tok
  BY <1>1, <1>2 DEF Transfer
<1> QED BY <1>2, <1>3 DEF Advanced, Same

(* The step of the lender that each of them is. *)
LEMMA XferCases ==
  ASSUME TypeInv, PipeInv, [Next]_vars
  PROVE  \/ UNCHANGED xfer
         \/ /\ UNCHANGED <<urbOf, urbs, unlinked>>
            /\ \/ new_transfer \/ blocking_request \/ port_reset
               \/ \E s \in DOMAIN xfer : completed(s)
               \/ dropHandler
               \/ LendThread /\ lTasks # <<>> /\ xfer[Head(lTasks)].st = "queued"
               \/ Device
<1>1. CASE UNCHANGED lendVars
  BY <1>1 DEF lendVars
<1>2. CASE Lender(LendRecv)
  <2>1. UNCHANGED <<urbOf, urbs, unlinked>>
    BY <1>2 DEF Lender, vhciVars, borrowVars
  <2>2. UNCHANGED xfer \/ dropHandler \/ (\E s \in DOMAIN xfer : completed(s))
        \/ new_transfer \/ blocking_request \/ port_reset
    BY <1>2, LendRecvCases DEF Lender, unlink_urb, drainRead, drainEnd, drainKeeps, sendResumes,
       endRecvLoop, recvPanic
  <2> QED BY <2>1, <2>2
<1>3. CASE Lender(LendSend)
  BY <1>3, LendSendCases DEF Lender, transferReplied, transferAborts, lendFlushBuf, lendWriteFrame,
     lendFlushComplete, lendEndSend, sendKeeps
<1>4. CASE Lender(LendThread) \/ Lender(Device)
  <2>1. UNCHANGED <<urbOf, urbs, unlinked>>
    BY <1>4 DEF Lender, vhciVars, borrowVars
  <2> QED BY <1>4, <2>1 DEF Lender, LendThread
<1>5. CASE Lender(lendStopped) \/ Lender(LendMain) \/ Lender(CancelLend)
  BY <1>5 DEF Lender, lendStopped, LendMain, lendJoined, libusbJoined, CancelLend, lendMainKeeps,
     sendKeeps
<1> QED BY <1>1, <1>2, <1>3, <1>4, <1>5 DEF Next, Borrower, vars, lendVars

LEMMA TransfersKept ==
  ASSUME TypeInv, TransfersInv, PipeInv, UNCHANGED xfer,
         Extended(urbOf, urbOf'), Extended(urbs, urbs')
  PROVE  TransfersInv'
BY DEF TransfersInv, GoodTransfer, Extended, PipeInv, Numbers

(* Transfers only advance, and a transfer is of the kind of its URB. *)
LEMMA TransfersStep ==
  ASSUME TypeInv, PipeInv, CmdsInv, TransfersInv, [Next]_vars
  PROVE  Advanced(xfer, xfer') /\ TransfersInv'
<1>0. IsMap(xfer, LendSeqnum, Transfer)
  BY DEF TypeInv, TypeOK, LendTypeOK
<1>1. CASE UNCHANGED xfer
  BY <1>1, History, TransfersKept DEF Advanced
<1>2. CASE UNCHANGED <<urbOf, urbs>> /\ (new_transfer \/ blocking_request \/ port_reset)
  <2> DEFINE s == Frame.seq
  <2>1. toL # <<>> /\ Frame.cmd \in Cmds
    BY <1>2 DEF new_transfer, blocking_request, port_reset, TakeFrame, Frame, Cmds
  <2>2. PICK t : /\ xfer' = Insert(xfer, s, t)
                 /\ t.st = "ready" => t.res # "none"
                 /\ t.st \in {"queued", "inflight"} => t.res = "none"
                 /\ t.kind = IF Frame.cmd = "CmdPort" THEN "reset" ELSE Frame.kind
    BY <1>2 DEF new_transfer, blocking_request, port_reset, TakeFrame, Frame, register_cancel_token,
       start
  <2>3. s \notin DOMAIN xfer
    BY <2>1, CmdTake DEF PipeInv, Commands, Frame
  <2>4. Frame \in GoodCmds(urbOf, urbs, unlinked)
    BY <2>1, QueueTake DEF CmdsInv, Frame
  <2>5. Frame.cmd = "CmdSubmit" => urbOf[s] # 0
    BY <2>4, VhciAssumption DEF GoodCmds, GoodCmd, TypeInv, TypeOK, VhciTypeOK
  <2>6. GoodTransfer(t, urbOf[s], urbs)
    BY <2>1, <2>2, <2>4, <2>5 DEF GoodCmds, GoodCmd, GoodTransfer, Cmds
  <2> HIDE DEF s
  <2>7. Advanced(xfer, xfer') /\ Started(xfer, xfer', s, t)
    BY <2>2, <2>3, StartAdvances
  <2> QED BY <1>2, <2>6, <2>7 DEF TransfersInv, Started
<1>3. ASSUME NEW s \in DOMAIN xfer, completed(s), UNCHANGED <<urbOf, urbs>>
      PROVE  Advanced(xfer, xfer') /\ TransfersInv'
  <2>1. xfer' = StateSet(xfer, s, "gone")
    BY <1>3 DEF completed, StateSet
  <2>2. /\ Advanced(xfer, xfer') /\ Others(xfer, xfer', s) /\ Same(xfer[s], xfer'[s])
        /\ xfer'[s].st = "gone"
    BY <1>0, <2>1, StateAdvances
  <2> QED BY <1>3, <2>2 DEF TransfersInv, GoodTransfer, Others, Same
<1>4. CASE UNCHANGED <<urbOf, urbs>> /\ dropHandler
  <2>1. xfer' = AllGone(xfer)
    BY <1>4 DEF dropHandler, AllGone
  <2>2. /\ Advanced(xfer, xfer') /\ DOMAIN xfer' = DOMAIN xfer
        /\ \A s \in DOMAIN xfer : Same(xfer[s], xfer'[s]) /\ xfer'[s].st = "gone"
    BY <1>0, <2>1, DropAdvances
  <2> QED BY <1>4, <2>2 DEF TransfersInv, GoodTransfer, Same
<1>5. CASE UNCHANGED <<urbOf, urbs>> /\ LendThread /\ xfer[Head(lTasks)].st = "queued"
  <2> DEFINE s == Head(lTasks)
  <2>1. xfer' = StateSet(xfer, s, "inflight")
    BY <1>5 DEF LendThread, StateSet
  <2>2. CASE s \in DOMAIN xfer
    <3>1. /\ Advanced(xfer, xfer') /\ Others(xfer, xfer', s) /\ Same(xfer[s], xfer'[s])
          /\ xfer'[s].st = "inflight" /\ xfer'[s].res = xfer[s].res
      BY <1>0, <2>1, <2>2, StateAdvances
    <3> QED BY <1>5, <2>2, <3>1 DEF TransfersInv, GoodTransfer, Others, Same
  <2>3. CASE s \notin DOMAIN xfer
    <3>1. DOMAIN xfer' = DOMAIN xfer /\ \A q \in DOMAIN xfer : xfer'[q] = xfer[q]
      BY <2>1, <2>3 DEF StateSet
    <3> QED BY <1>5, <3>1 DEF TransfersInv, Advanced
  <2> QED BY <2>2, <2>3
<1>6. CASE UNCHANGED <<urbOf, urbs>> /\ Device
  <2>1. PICK s \in DOMAIN xfer, r \in TransferStatus \cup RusbError : deviceDone(s, r)
    BY <1>6 DEF Device
  <2>2. xfer' = ResultSet(xfer, s, r) /\ xfer[s].st = "inflight"
    BY <2>1 DEF deviceDone, ResultSet
  <2>3. xfer[s].res = "none" /\ r # "none"
    BY <2>2 DEF TransfersInv, GoodTransfer, TransferStatus, RusbError
  <2>4. /\ Advanced(xfer, xfer') /\ Others(xfer, xfer', s) /\ Same(xfer[s], xfer'[s])
        /\ xfer'[s].st = "ready" /\ xfer'[s].res = r
    BY <1>0, <2>2, <2>3, ResultAdvances
  <2> QED BY <1>6, <2>3, <2>4 DEF TransfersInv, GoodTransfer, Others, Same
<1> QED BY <1>1, <1>2, <1>3, <1>4, <1>5, <1>6, XferCases

-----------------------------------------------------------------------------
(* Commands keep saying what their number stands for. *)
LEMMA CmdsKept ==
  ASSUME CmdsInv, NEW T, T = GoodCmds(urbOf', urbs', unlinked'),
         Extended(urbOf, urbOf'), Extended(urbs, urbs'), unlinked \subseteq unlinked',
         Moved(toL, toL', T), Moved(bFlush, bFlush', T), Moved(bBuf, bBuf', T)
  PROVE  CmdsInv'
<1>1. GoodCmds(urbOf, urbs, unlinked) \subseteq T
  BY CmdsStayGood
<1>2. toL' \in Seq(T)
  BY <1>1, MovedIn DEF CmdsInv
<1>3. bFlush' \in Seq(T)
  BY <1>1, MovedIn DEF CmdsInv
<1>4. bBuf' \in Seq(T)
  BY <1>1, MovedIn DEF CmdsInv
<1> QED BY <1>2, <1>3, <1>4 DEF CmdsInv

LEMMA CmdsBorrowSend ==
  ASSUME CmdsInv, TypeInv, PipeInv, OwnInv, HandleInv, CancelInv, BorrowSend, [Next]_vars
  PROVE  CmdsInv'
<1> DEFINE T == GoodCmds(urbOf', urbs', unlinked')
<1>0. Extended(urbOf, urbOf') /\ Extended(urbs, urbs') /\ unlinked \subseteq unlinked'
  BY History
<1>00. GoodCmds(urbOf, urbs, unlinked) \subseteq T
  BY <1>0, CmdsStayGood
<1>1. ASSUME UNCHANGED <<toL, bFlush>>, NEW e \in T, bBuf' = Append(bBuf, e) PROVE CmdsInv'
  BY <1>0, <1>1, CmdsKept DEF Moved
<1>2. CASE UNCHANGED <<toL, bFlush, bBuf>>
  BY <1>0, <1>2, CmdsKept DEF Moved
<1>3. CASE UNCHANGED toL /\ bFlush' = <<>> /\ bBuf' = <<>>
  BY <1>0, <1>3, CmdsKept DEF Moved
<1>4. ASSUME NEW h, NEW u, nextSeqnum(h, u)
      PROVE  curSeq \in Seqnum /\ curSeq \in DOMAIN urbOf' /\ urbOf'[curSeq] = u
  <2>1. curSeq \notin DOMAIN urbOf
    BY BorrowAssumption DEF PipeInv, Numbers, TypeInv, TypeOK, BorrowTypeOK
  <2>2. curSeq \in Seqnum
    BY <1>4, BorrowAssumption DEF nextSeqnum, Seqnum, TypeInv, TypeOK, BorrowTypeOK
  <2> QED BY <1>4, <2>1, <2>2, InsertExtends DEF nextSeqnum
<1>5. CASE port_stat
  <2>1. UNCHANGED <<toL, bFlush>>
    BY <1>5 DEF port_stat, streamVars
  <2>2. CASE send_port_reset(Head(work).stat)
    <3>1. PICK h : nextSeqnum(h, 0)
      BY <1>5, <2>2 DEF port_stat
    <3>2. bBuf' = Append(bBuf, CmdFrame("CmdPort", curSeq, "none"))
      BY <1>5, <2>2 DEF port_stat
    <3>3. CmdFrame("CmdPort", curSeq, "none") \in T
      BY <1>4, <3>1, FrameType DEF GoodCmds, GoodCmd, CmdFrame
    <3> QED BY <1>1, <2>1, <3>2, <3>3
  <2>3. CASE ~send_port_reset(Head(work).stat)
    BY <1>2, <1>5, <2>1, <2>3 DEF port_stat
  <2> QED BY <2>2, <2>3
<1>6. CASE process_urb
  <2> DEFINE w == Head(work)
             e == CmdFrame("CmdSubmit", curSeq, urbs[w.u].kind)
  <2>1. /\ TakeWork("ProcessUrb") /\ nextSeqnum(w.h, w.u) /\ UNCHANGED <<toL, urbs>>
        /\ ~(urbs[w.u].kind = "setaddr" /\ w.addr = 0)
        /\ \/ bBuf' = Append(bBuf, e) /\ UNCHANGED bFlush
           \/ bFlush' = <<>> /\ bBuf' = <<>>
    BY <1>6 DEF process_urb, endSendLoop
  <2>2. w.u \in DOMAIN urbs /\ urbs[w.u].kind # "setaddr"
    BY <2>1, TakeWorkType DEF BorrowerInv, TypeInv, TypeOK
  <2>3. urbs[w.u].kind \in RemoteKind
    BY <2>2, VhciAssumption DEF TypeInv, TypeOK, VhciTypeOK, UrbKind
  <2>4. e \in T
    BY <1>4, <2>1, <2>2, <2>3, FrameType DEF GoodCmds, GoodCmd, CmdFrame
  <2> HIDE DEF e, T
  <2>5. CASE bBuf' = Append(bBuf, e) /\ UNCHANGED bFlush
    BY <1>1, <2>1, <2>4, <2>5
  <2>6. CASE bFlush' = <<>> /\ bBuf' = <<>>
    BY <1>3, <2>1, <2>6
  <2> QED BY <2>1, <2>5, <2>6
<1>7. CASE cancel_urb
  <2> DEFINE h == Head(work).h
             e == CmdFrame("CmdUnlink", seqnums[h], "none")
  <2>1. /\ work # <<>> /\ Head(work).op = "CancelUrb" /\ UNCHANGED <<toL, bFlush, urbOf, unlinked>>
        /\ bBuf' = IF h \in DOMAIN seqnums THEN Append(bBuf, e) ELSE bBuf
    BY <1>7 DEF cancel_urb, TakeWork, streamVars
  <2>2. CASE h \in DOMAIN seqnums
    <3>1. seqnums[h] \in Seqnum /\ seqnums[h] \in DOMAIN urbOf
      BY <2>2, MapValue DEF TypeInv, TypeOK, BorrowTypeOK, HandlesKnown, HandleInv, MapsInverse
    <3>2. Cancels(1) /\ work[1] = Head(work)
      BY <2>1 DEF Cancels, TypeInv, TypeOK, VhciTypeOK
    <3>3. urbOf[seqnums[h]] \in unlinked
      BY <2>2, <3>2 DEF CancelInv, CancelsSent
    <3>4. e \in T
      BY <2>1, <3>1, <3>3, FrameType DEF GoodCmds, GoodCmd, CmdFrame
    <3> HIDE DEF e
    <3> QED BY <1>1, <2>1, <2>2, <3>4
  <2> QED BY <1>2, <2>1, <2>2
<1>8. CASE FlushBuf
  <2>1. UNCHANGED toL /\ bFlush' = bBuf /\ bBuf' = <<>>
    BY <1>8 DEF FlushBuf, flush_buf, streamVars
  <2>2. toL' \in Seq(T) /\ bFlush' \in Seq(T)
    BY <1>00, <2>1, SeqMonotonic DEF CmdsInv
  <2> QED BY <2>1, <2>2, EmptyQueue DEF CmdsInv
<1>9. CASE WriteFrame
  <2>1. bFlush # <<>> /\ toL' = Append(toL, Head(bFlush)) /\ bFlush' = Tail(bFlush) /\ UNCHANGED bBuf
    BY <1>9 DEF WriteFrame
  <2>2. Head(bFlush) \in T
    BY <1>00, <2>1, QueueTake DEF CmdsInv
  <2>3. Moved(toL, toL', T) /\ Moved(bFlush, bFlush', T) /\ Moved(bBuf, bBuf', T)
    BY <2>1, <2>2 DEF Moved
  <2> QED BY <1>0, <2>3, CmdsKept
<1>10. CASE set_address \/ FlushComplete
  BY <1>2, <1>10 DEF set_address, FlushComplete, sendUnchanged, streamVars
<1>11. CASE EndSendLoop
  BY <1>3, <1>11 DEF EndSendLoop, endSendLoop
<1> QED BY <1>5, <1>6, <1>7, <1>8, <1>9, <1>10, <1>11 DEF BorrowSend

LEMMA CmdsStep ==
  ASSUME CmdsInv, TypeInv, PipeInv, OwnInv, HandleInv, CancelInv, [Next]_vars
  PROVE  CmdsInv'
<1> DEFINE T == GoodCmds(urbOf', urbs', unlinked')
<1>0. Extended(urbOf, urbOf') /\ Extended(urbs, urbs') /\ unlinked \subseteq unlinked'
  BY History
<1>1. CASE /\ UNCHANGED <<bFlush, bBuf>> \/ (bFlush' = <<>> /\ bBuf' = <<>>)
           /\ UNCHANGED toL \/ toL' = <<>> \/ (toL # <<>> /\ toL' = Tail(toL))
  <2>1. Moved(toL, toL', T) /\ Moved(bFlush, bFlush', T) /\ Moved(bBuf, bBuf', T)
    BY <1>1 DEF Moved
  <2> QED BY <1>0, <2>1, CmdsKept
<1>2. CASE BorrowRecv \/ BorrowMain \/ CancelBorrow \/ StreamStopped \/ BlockingThread
  BY <1>1, <1>2 DEF BorrowRecv, urb_reply, device_reset, PortResetDone, RecvPanic, EndRecvLoop,
       DrainRead, DrainEnd, recvUnchanged, BorrowMain, CancelBorrow, RecvJoined, RecvJoinPanic,
       SendJoined, Disconnected, StreamStopped, BlockingThread, borrowVars, streamVars, lendDir
<1>3. CASE UNCHANGED borrowVars /\ (ConnectionLost \/ UNCHANGED streamVars)
  BY <1>1, <1>3 DEF ConnectionLost, borrowVars, streamVars
<1>4. CASE Lender(LendRecv)
  <2>1. UNCHANGED <<bFlush, bBuf>>
    BY <1>4 DEF Lender, borrowVars
  <2>2. UNCHANGED toL \/ toL' = <<>> \/ (toL # <<>> /\ toL' = Tail(toL))
    BY <1>4, LendRecvCases DEF Lender, new_transfer, blocking_request, port_reset, unlink_urb,
       TakeFrame, completed, recvPanic, sendResumes, endRecvLoop, drainRead, drainEnd
  <2> QED BY <1>1, <2>1, <2>2
<1>5. CASE Lender(LendSend)
  BY <1>1, <1>5, LendSendCases DEF Lender, borrowVars, transferReplied, transferAborts, lendFlushBuf,
     lendWriteFrame, lendFlushComplete, lendEndSend, sendKeeps, lendDir
<1>6. CASE Lender(LendThread \/ Device \/ lendStopped \/ LendMain \/ CancelLend)
  BY <1>1, <1>6 DEF Lender, borrowVars, LendThread, Device, deviceDone, deviceKeeps, lendStopped,
     sendKeeps, lendDir, LendMain, lendJoined, libusbJoined, CancelLend, lendMainKeeps, streamVars
<1>7. CASE UNCHANGED vars
  BY <1>1, <1>7 DEF vars, borrowVars, streamVars
<1> QED BY <1>2, <1>3, <1>4, <1>5, <1>6, <1>7, CmdsBorrowSend DEF Next, Borrower, Lender, vars

-----------------------------------------------------------------------------
(* Completions and replies keep saying what became of their transfer. *)
ResultsInv == DonesInv /\ RetsInv

LEMMA DonesKept ==
  ASSUME DonesInv, Advanced(xfer, xfer'),
         \A c \in Channel : Moved(chan[c], chan'[c], GoodDones(xfer', c)),
         \A i \in DOMAIN hold' : (hold'[i] = hold[i] /\ i \in DOMAIN hold) \/ GoodDone(hold'[i], xfer')
  PROVE  DonesInv'
<1>1. ASSUME NEW c \in Channel PROVE chan'[c] \in Seq(GoodDones(xfer', c))
  <2>1. GoodDones(xfer, c) \subseteq GoodDones(xfer', c)
    BY DonesStayGood
  <2> QED BY <2>1, MovedIn DEF DonesInv
<1>2. \A i \in DOMAIN hold' : GoodDone(hold'[i], xfer')
  BY DonesStayGood DEF DonesInv
<1> QED BY <1>1, <1>2 DEF DonesInv

LEMMA RetsKept ==
  ASSUME RetsInv, Advanced(xfer, xfer'), NEW T, T = GoodRets(xfer'),
         Moved(toB, toB', T), Moved(lFlush, lFlush', T), Moved(lBuf, lBuf', T)
  PROVE  RetsInv'
<1>1. GoodRets(xfer) \subseteq T
  BY RetsStayGood
<1>2. toB' \in Seq(T)
  BY <1>1, MovedIn DEF RetsInv
<1>3. lFlush' \in Seq(T)
  BY <1>1, MovedIn DEF RetsInv
<1>4. lBuf' \in Seq(T)
  BY <1>1, MovedIn DEF RetsInv
<1> QED BY <1>2, <1>3, <1>4 DEF RetsInv

LEMMA ChannelMoves ==
  ASSUME NEW ch \in [Channel -> Seq(Completion)], NEW c \in Channel, NEW e, NEW x, e \in GoodDones(x, c)
  PROVE  \A d \in Channel : Moved(ch[d], Enqueued(ch, c, e)[d], GoodDones(x, d))
BY DEF Enqueued, Moved

LEMMA ChannelShrinks ==
  ASSUME NEW ch \in [Channel -> Seq(Completion)], NEW c \in Channel, ch[c] # <<>>, NEW x
  PROVE  \A d \in Channel : Moved(ch[d], Dequeued(ch, c)[d], GoodDones(x, d))
BY DEF Dequeued, Moved

(* A future resolves, or the send of its result does. *)
LEMMA ResultsComplete ==
  ASSUME ResultsInv, TypeInv, TransfersInv, Advanced(xfer, xfer'), NEW s \in DOMAIN xfer, completed(s)
  PROVE  ResultsInv'
<1> DEFINE c == ChannelOf(xfer[s].kind)
           e == [seq |-> s, res |-> resultOf(xfer[s])]
<1>0. UNCHANGED <<toB, lFlush, lBuf>>
  BY DEF completed, recvKeeps, borrowDir
<1>1. /\ xfer[s].st = "ready" /\ hold = <<>>
      /\ \/ chan' = Enqueued(chan, c, e) /\ UNCHANGED hold
         \/ hold' = <<e>> /\ UNCHANGED chan
         \/ UNCHANGED <<chan, hold>>
  BY DEF completed, Running, Enqueued
<1>2. xfer[s] \in Transfer /\ s \in LendSeqnum
  BY MapValue DEF TypeInv, TypeOK, LendTypeOK
<1>3. e \in Completion /\ c \in Channel
  <2>1. resultOf(xfer[s]) \in TransferResult
    BY <1>2, ConvertType
  <2>2. c \in Channel
    BY <1>2, ChannelType DEF Transfer
  <2> QED BY <1>2, <2>1, <2>2 DEF Completion
<1>4. GoodDone(e, xfer) /\ e \in GoodDones(xfer, c)
  <2>1. xfer[s].res # "none"
    BY <1>1 DEF TransfersInv, GoodTransfer
  <2> QED BY <1>3, <2>1 DEF GoodDone, GoodDones
<1> HIDE DEF c, e
<1>5. GoodDone(e, xfer') /\ e \in GoodDones(xfer', c)
  BY <1>4, DonesStayGood
<1>6. DonesInv'
  <2>1. chan \in [Channel -> Seq(Completion)]
    BY DEF TypeInv, TypeOK, LendTypeOK
  <2>2. CASE chan' = Enqueued(chan, c, e) /\ UNCHANGED hold
    <3>1. \A d \in Channel : Moved(chan[d], chan'[d], GoodDones(xfer', d))
      BY <1>3, <1>5, <2>1, <2>2, ChannelMoves
    <3> QED BY <2>2, <3>1, DonesKept DEF ResultsInv
  <2>3. CASE hold' = <<e>> /\ UNCHANGED chan
    <3>1. \A d \in Channel : Moved(chan[d], chan'[d], GoodDones(xfer', d))
      BY <2>3 DEF Moved
    <3>2. \A i \in DOMAIN hold' : GoodDone(hold'[i], xfer')
      BY <1>5, <2>3
    <3> QED BY <3>1, <3>2, DonesKept DEF ResultsInv
  <2>4. CASE UNCHANGED <<chan, hold>>
    <3>1. \A d \in Channel : Moved(chan[d], chan'[d], GoodDones(xfer', d))
      BY <2>4 DEF Moved
    <3> QED BY <2>4, <3>1, DonesKept DEF ResultsInv
  <2> QED BY <1>1, <2>2, <2>3, <2>4
<1>7. RetsInv'
  BY <1>0, RetsKept DEF ResultsInv, Moved
<1> QED BY <1>6, <1>7 DEF ResultsInv

LEMMA ResultsResume ==
  ASSUME ResultsInv, TypeInv, Advanced(xfer, xfer'), sendResumes
  PROVE  ResultsInv'
<1> DEFINE c == ChannelOf(xfer[hold[1].seq].kind)
<1>1. /\ UNCHANGED <<xfer, toB, lFlush, lBuf>> /\ hold # <<>> /\ hold' = <<>>
      /\ UNCHANGED chan \/ chan' = Enqueued(chan, c, hold[1])
  BY DEF sendResumes, recvKeeps, borrowDir, Enqueued
<1>2. 1 \in DOMAIN hold /\ hold[1] \in Completion /\ chan \in [Channel -> Seq(Completion)]
  BY <1>1 DEF TypeInv, TypeOK, LendTypeOK
<1>3. GoodDone(hold[1], xfer)
  BY <1>2 DEF ResultsInv, DonesInv
<1>4. c \in Channel
  <2>1. xfer[hold[1].seq] \in Transfer
    BY <1>1, MapValue DEF TypeInv, TypeOK, LendTypeOK, HoldKnown
  <2> QED BY <2>1, ChannelType DEF Transfer
<1>5. hold[1] \in GoodDones(xfer', c)
  BY <1>1, <1>2, <1>3 DEF GoodDones
<1> HIDE DEF c
<1>6. \A d \in Channel : Moved(chan[d], chan'[d], GoodDones(xfer', d))
  <2>1. CASE UNCHANGED chan
    BY <2>1 DEF Moved
  <2>2. CASE chan' = Enqueued(chan, c, hold[1])
    BY <1>2, <1>4, <1>5, <2>2, ChannelMoves
  <2> QED BY <1>1, <2>1, <2>2
<1>7. DonesInv'
  BY <1>1, <1>6, DonesKept DEF ResultsInv
<1>8. RetsInv'
  BY <1>1, RetsKept DEF ResultsInv, Moved
<1> QED BY <1>7, <1>8 DEF ResultsInv

LEMMA ChannelsEmptied ==
  \A c \in Channel : \A x : Moved(chan[c], NoChannel[c], GoodDones(x, c))
BY DEF Moved, NoChannel

(* The send loop takes a completion and makes it a reply, or aborts. *)
LEMMA ResultsReplied ==
  ASSUME ResultsInv, TypeInv, NEW c \in Channel, transferReplied(c)
  PROVE  ResultsInv'
<1> DEFINE d == Head(chan[c])
           e == reply(c, d)
<1>1. /\ chan[c] # <<>> /\ chan' = Dequeued(chan, c) /\ lBuf' = Append(lBuf, e)
      /\ UNCHANGED <<toB, lFlush, xfer, hold>> /\ d.res.class # "abortable"
  BY DEF transferReplied, Dequeued, borrowDir, sendKeeps
<1>2. chan \in [Channel -> Seq(Completion)] /\ Advanced(xfer, xfer')
  BY <1>1 DEF TypeInv, TypeOK, LendTypeOK, Advanced
<1>3. d \in GoodDones(xfer, c)
  BY <1>1, QueueTake DEF ResultsInv, DonesInv
<1>4. e \in RetFrames(Seqnum)
  <2>1. d.seq \in Seqnum /\ d.res.err \in ReportableError \cup {"Success"}
    BY <1>1, TakeCompletion, ResultType, SessionAssumption DEF TypeInv, TypeOK
  <2> QED BY <2>1 DEF reply, RetFrame, RetFrames, Status
<1>5. e \in GoodRets(xfer')
  <2>1. /\ d.seq \in DOMAIN xfer /\ xfer[d.seq].res # "none" /\ d.res = resultOf(xfer[d.seq])
        /\ ChannelOf(xfer[d.seq].kind) = c
    BY <1>3 DEF GoodDones, GoodDone
  <2>2. c = "reset" <=> xfer[d.seq].kind = "reset"
    BY <2>1 DEF ChannelOf, Blocking
  <2>3. /\ e.seq = d.seq /\ e.res = d.res.err
        /\ e.cmd = IF c = "reset" THEN "RetPort" ELSE "RetSubmit"
    BY DEF reply, RetFrame
  <2> QED BY <1>1, <1>4, <2>1, <2>2, <2>3 DEF GoodRets, GoodRet
<1> HIDE DEF e, d
<1>6. RetsInv'
  BY <1>1, <1>2, <1>5, RetsKept DEF ResultsInv, Moved
<1>7. \A b \in Channel : Moved(chan[b], chan'[b], GoodDones(xfer', b))
  BY <1>1, <1>2, ChannelShrinks
<1>8. DonesInv'
  BY <1>1, <1>2, <1>7, DonesKept DEF ResultsInv
<1> QED BY <1>6, <1>8 DEF ResultsInv

LEMMA ResultsAbort ==
  ASSUME ResultsInv, TypeInv, NEW c \in Channel, transferAborts(c)
  PROVE  ResultsInv'
<1> DEFINE d == Head(chan[c])
           header == RetFrame("RetSubmit", d.seq, as_proto(d.res.err), "Success")
           torn == Head(lFlush)
<1>1. /\ chan[c] # <<>> /\ chan' = NoChannel /\ lBuf' = <<>> /\ lFlush' = <<>>
      /\ toB' \in onWire(header) /\ d.res.class = "abortable" /\ UNCHANGED <<xfer, hold>>
  BY DEF transferAborts, endSending, sendKeeps
<1>2. Advanced(xfer, xfer') /\ \A b \in Channel : Moved(chan[b], chan'[b], GoodDones(xfer', b))
  BY <1>1, ChannelsEmptied DEF Advanced
<1>3. DonesInv'
  BY <1>1, <1>2, DonesKept DEF ResultsInv
<1>4. d \in GoodDones(xfer, c)
  BY <1>1, QueueTake DEF ResultsInv, DonesInv
<1>5. d.seq \in Seqnum /\ d.res.err \in AbortableError
  BY <1>1, TakeCompletion, ResultType, SessionAssumption DEF TypeInv, TypeOK
<1>6. header \in GoodRets(xfer')
  <2>1. header \in RetFrames(Seqnum) /\ header.status # "Success"
    BY <1>5, StatusType DEF RetFrame, RetFrames, as_proto, AbortableError
  <2>2. /\ d.seq \in DOMAIN xfer /\ xfer[d.seq].res # "none" /\ d.res = resultOf(xfer[d.seq])
    BY <1>4 DEF GoodDones, GoodDone
  <2>3. xfer[d.seq].kind # "reset"
    BY <1>1, <2>2 DEF resultOf, Ok, Asynchronous, Blocking
  <2>4. header.cmd = "RetSubmit" /\ header.seq = d.seq
    BY DEF RetFrame
  <2> QED BY <1>1, <2>1, <2>2, <2>3, <2>4 DEF GoodRets, GoodRet
<1>7. \/ toB' = toB \/ toB' = Append(toB, header)
      \/ /\ lFlush # <<>>
         /\ \/ toB' = Append(toB, [torn EXCEPT !.cmd = "Garbage"])
            \/ toB' = Append(toB, [torn EXCEPT !.whole = FALSE])
  BY <1>1 DEF onWire
<1>8. lFlush # <<>> => /\ [torn EXCEPT !.cmd = "Garbage"] \in GoodRets(xfer')
                       /\ [torn EXCEPT !.whole = FALSE] \in GoodRets(xfer')
  <2> SUFFICES ASSUME lFlush # <<>>
               PROVE  /\ [torn EXCEPT !.cmd = "Garbage"] \in GoodRets(xfer')
                      /\ [torn EXCEPT !.whole = FALSE] \in GoodRets(xfer')
    OBVIOUS
  <2>1. torn \in GoodRets(xfer)
    BY QueueTake DEF ResultsInv, RetsInv
  <2>2. torn \in RetFrames(Seqnum)
    BY <2>1 DEF GoodRets
  <2> DEFINE a == [torn EXCEPT !.cmd = "Garbage"]
             b == [torn EXCEPT !.whole = FALSE]
  <2>3. a \in RetFrames(Seqnum) /\ a.cmd \notin Rets
    BY <2>2 DEF RetFrames, Rets
  <2>4. /\ b \in RetFrames(Seqnum) /\ b.cmd = torn.cmd /\ b.seq = torn.seq
        /\ b.status = torn.status /\ b.res = torn.res
    BY <2>2 DEF RetFrames
  <2> HIDE DEF a, b
  <2>5. a \in GoodRets(xfer')
    BY <2>3 DEF GoodRets, GoodRet
  <2>6. b \in GoodRets(xfer')
    BY <1>1, <2>1, <2>4 DEF GoodRets, GoodRet
  <2> QED BY <2>5, <2>6 DEF a, b
<1> HIDE DEF header
<1>9. Moved(toB, toB', GoodRets(xfer'))
  BY <1>6, <1>7, <1>8 DEF Moved
<1>10. Moved(lFlush, lFlush', GoodRets(xfer')) /\ Moved(lBuf, lBuf', GoodRets(xfer'))
  BY <1>1 DEF Moved
<1>11. RetsInv'
  BY <1>2, <1>9, <1>10, RetsKept DEF ResultsInv
<1> QED BY <1>3, <1>11 DEF ResultsInv

LEMMA ResultsStep ==
  ASSUME ResultsInv, TypeInv, PipeInv, CmdsInv, TransfersInv, [Next]_vars
  PROVE  ResultsInv'
<1>0. Advanced(xfer, xfer')
  BY TransfersStep
<1>1. CASE /\ UNCHANGED <<chan, hold, lFlush, lBuf>>
           /\ UNCHANGED toB \/ toB' = <<>> \/ (toB # <<>> /\ toB' = Tail(toB))
  <2>1. \A d \in Channel : Moved(chan[d], chan'[d], GoodDones(xfer', d))
    BY <1>1 DEF Moved
  <2>2. DonesInv'
    BY <1>0, <1>1, <2>1, DonesKept DEF ResultsInv
  <2>3. Moved(toB, toB', GoodRets(xfer')) /\ Moved(lFlush, lFlush', GoodRets(xfer'))
        /\ Moved(lBuf, lBuf', GoodRets(xfer'))
    BY <1>1 DEF Moved
  <2>4. RetsInv'
    BY <1>0, <2>3, RetsKept DEF ResultsInv
  <2> QED BY <2>2, <2>4 DEF ResultsInv
<1>2. CASE /\ UNCHANGED lendVars
           /\ BorrowSend \/ BorrowRecv \/ BorrowMain \/ CancelBorrow \/ StreamStopped \/ BlockingThread
  <2>1. UNCHANGED <<chan, hold, lFlush, lBuf>>
    BY <1>2 DEF lendVars
  <2>2. UNCHANGED toB \/ toB' = <<>> \/ (toB # <<>> /\ toB' = Tail(toB))
    BY <1>2 DEF BorrowSend, port_stat, set_address, process_urb, cancel_urb, FlushBuf, WriteFrame,
       FlushComplete, EndSendLoop, BorrowRecv, urb_reply, device_reset, RecvPanic, EndRecvLoop,
       CanRead, DrainRead, DrainEnd, BorrowMain, CancelBorrow, RecvJoined, RecvJoinPanic,
       SendJoined, Disconnected, StreamStopped, BlockingThread, streamVars, borrowDir
  <2> QED BY <1>1, <2>1, <2>2
<1>3. CASE UNCHANGED lendVars /\ (ConnectionLost \/ UNCHANGED streamVars)
  <2>1. UNCHANGED <<chan, hold, lFlush, lBuf>> /\ (UNCHANGED toB \/ toB' = <<>>)
    BY <1>3 DEF lendVars, ConnectionLost, streamVars
  <2> QED BY <1>1, <2>1
<1>4. CASE LendRecv
  <2>1. CASE (\E s \in DOMAIN xfer : completed(s)) \/ sendResumes
    BY <1>0, <2>1, ResultsComplete, ResultsResume
  <2>2. CASE UNCHANGED <<chan, hold, lFlush, lBuf, toB>>
    BY <1>1, <2>2
  <2> QED BY <1>4, <2>1, <2>2, LendRecvCases DEF new_transfer, blocking_request, port_reset,
       unlink_urb, recvKeeps, recvPanic, dropHandler, endRecvLoop, drainRead, drainEnd, drainKeeps,
       borrowDir
<1>5. CASE LendSend
  <2>0. CASE UNCHANGED <<xfer, hold>>
    <3>1. CASE lendFlushBuf
      <4>1. UNCHANGED <<chan, toB>> /\ lFlush' = lBuf /\ lBuf' = <<>>
        BY <3>1 DEF lendFlushBuf, lend_flush_buf, borrowDir
      <4>2. GoodRets(xfer) \subseteq GoodRets(xfer')
        BY <1>0, RetsStayGood
      <4>3. RetsInv'
        BY <4>1, <4>2, SeqMonotonic, EmptyQueue DEF ResultsInv, RetsInv
      <4>4. \A d \in Channel : Moved(chan[d], chan'[d], GoodDones(xfer', d))
        BY <4>1 DEF Moved
      <4>5. DonesInv'
        BY <1>0, <2>0, <4>4, DonesKept DEF ResultsInv
      <4> QED BY <4>3, <4>5 DEF ResultsInv
    <3>2. CASE lendWriteFrame
      <4>1. /\ lFlush # <<>> /\ toB' = Append(toB, Head(lFlush)) /\ lFlush' = Tail(lFlush)
            /\ UNCHANGED <<chan, lBuf>>
        BY <3>2 DEF lendWriteFrame
      <4>2. Head(lFlush) \in GoodRets(xfer')
        BY <1>0, <4>1, QueueTake, RetsStayGood DEF ResultsInv, RetsInv
      <4>3. Moved(toB, toB', GoodRets(xfer')) /\ Moved(lFlush, lFlush', GoodRets(xfer'))
            /\ Moved(lBuf, lBuf', GoodRets(xfer'))
        BY <4>1, <4>2 DEF Moved
      <4>4. \A d \in Channel : Moved(chan[d], chan'[d], GoodDones(xfer', d))
        BY <4>1 DEF Moved
      <4>5. RetsInv'
        BY <1>0, <4>3, RetsKept DEF ResultsInv
      <4>6. DonesInv'
        BY <1>0, <2>0, <4>4, DonesKept DEF ResultsInv
      <4> QED BY <4>5, <4>6 DEF ResultsInv
    <3>3. CASE lendFlushComplete
      BY <1>1, <2>0, <3>3 DEF lendFlushComplete, borrowDir
    <3>4. CASE lendEndSend
      <4>1. chan' = NoChannel /\ lFlush' = <<>> /\ lBuf' = <<>> /\ UNCHANGED toB
        BY <3>4 DEF lendEndSend, endSending
      <4>2. \A d \in Channel : Moved(chan[d], chan'[d], GoodDones(xfer', d))
        BY <4>1, ChannelsEmptied
      <4>3. Moved(toB, toB', GoodRets(xfer')) /\ Moved(lFlush, lFlush', GoodRets(xfer'))
            /\ Moved(lBuf, lBuf', GoodRets(xfer'))
        BY <4>1 DEF Moved
      <4>4. RetsInv'
        BY <1>0, <4>3, RetsKept DEF ResultsInv
      <4>5. DonesInv'
        BY <1>0, <2>0, <4>2, DonesKept DEF ResultsInv
      <4> QED BY <4>4, <4>5 DEF ResultsInv
    <3> QED BY <1>5, <3>1, <3>2, <3>3, <3>4, LendSendCases, ResultsReplied, ResultsAbort
  <2>1. UNCHANGED <<xfer, hold>>
    BY <1>5, LendSendCases DEF transferReplied, transferAborts, lendFlushBuf, lendWriteFrame,
       lendFlushComplete, lendEndSend, sendKeeps
  <2> QED BY <2>0, <2>1
<1>6. CASE LendThread \/ Device \/ LendMain \/ CancelLend \/ lendStopped
  BY <1>1, <1>6 DEF LendThread, Device, deviceDone, deviceKeeps, LendMain, lendJoined, libusbJoined,
     CancelLend, lendMainKeeps, lendStopped, sendKeeps, streamVars, borrowDir
<1> QED BY <1>2, <1>3, <1>4, <1>5, <1>6 DEF Next, Borrower, Lender, vars

-----------------------------------------------------------------------------
(* The invariants of this module, with the ones they need. *)
BaseInv == TypeInv /\ BuffersInv /\ OrderInv /\ HandleInv /\ PipeInv
MeaningInv == CmdsInv /\ ResultsInv /\ TransfersInv /\ OwnInv /\ CancelInv

LEMMA InitMeaning == Init => MeaningInv
<1> SUFFICES ASSUME Init PROVE MeaningInv
  OBVIOUS
<1> USE DEF Init, VhciInit, BorrowInit, StreamInit, LendInit
<1>1. CmdsInv
  BY EmptyQueue DEF CmdsInv
<1>2. ResultsInv
  BY EmptyQueue DEF ResultsInv, DonesInv, RetsInv, NoChannel
<1>3. TransfersInv
  BY EmptyIsMap DEF TransfersInv
<1>4. OwnInv
  <2>1. DOMAIN handles = {} /\ DOMAIN seqnums = {}
    BY EmptyIsMap
  <2>2. PortStat(Connected) \in OwnWork(cur)
    BY DEF PortStat, Connected, PortFlag, OwnWork, Work
  <2>3. <<>> \in Seq(OwnWork(cur)) /\ work = Append(<<>>, PortStat(Connected))
    OBVIOUS
  <2>4. work \in Seq(OwnWork(cur))
    BY <2>2, <2>3, QueuePut
  <2> QED BY <2>1, <2>4, EmptyQueue DEF OwnInv, HandleKinds, OwnSent
<1>5. CancelInv
  <2>1. \A i : ~Cancels(i)
    BY DEF Cancels, PortStat
  <2> QED BY <2>1 DEF CancelInv, CancelsBehind, CancelsSent
<1> QED BY <1>1, <1>2, <1>3, <1>4, <1>5 DEF MeaningInv

LEMMA BaseStep == BaseInv /\ [Next]_vars => BaseInv'
BY NextType, BuffersStep, OrderStep, HandlesStep, PipeStep DEF BaseInv

LEMMA InitBase == Init => BaseInv
BY InitType, InitBuffers, InitOrder, InitHandles, InitPipe DEF BaseInv

LEMMA MeaningStep == BaseInv /\ MeaningInv /\ [Next]_vars => MeaningInv'
<1> SUFFICES ASSUME BaseInv, MeaningInv, [Next]_vars PROVE MeaningInv'
  OBVIOUS
<1>1. TypeInv /\ OrderInv /\ HandleInv /\ PipeInv
  BY DEF BaseInv
<1>2. CmdsInv /\ ResultsInv /\ RetsInv /\ TransfersInv /\ OwnInv /\ CancelInv
  BY DEF MeaningInv, ResultsInv
<1>3. CmdsInv'
  BY <1>1, <1>2, CmdsStep
<1>4. TransfersInv'
  BY <1>1, <1>2, TransfersStep
<1>5. ResultsInv'
  BY <1>1, <1>2, ResultsStep
<1>6. OwnInv'
  BY <1>1, <1>2, OwnStep
<1>7. CancelInv'
  BY <1>1, <1>2, CancelStep
<1> QED BY <1>3, <1>4, <1>5, <1>6, <1>7 DEF MeaningInv

LEMMA OwnGivebacks == OwnInv => GivebackMatches
<1> SUFFICES ASSUME OwnInv, NEW i \in DOMAIN tasks, tasks[i].op = "giveback"
             PROVE  tasks[i].h \in DOMAIN cur /\ cur[tasks[i].h] = tasks[i].u
  BY DEF GivebackMatches
<1>1. tasks \in Seq(OwnTasks(cur))
  BY DEF OwnInv
<1>2. tasks[i] \in OwnTasks(cur)
  BY <1>1, Elements
<1> QED BY <1>2 DEF OwnTasks

(* A giveback that waits on the blocking thread still finds the URB it was
   made for behind its handle, although urb_reply made it from a sequence
   number and the controller reuses handles: for every number of URBs,
   unlinks, resets, handles and tokens. *)
THEOREM GivebacksMatch == Spec => []GivebackMatches
<1> DEFINE Inv == BaseInv /\ MeaningInv
<1>1. Init => Inv
  BY InitBase, InitMeaning
<1>2. Inv /\ [Next]_vars => Inv'
  BY BaseStep, MeaningStep
<1>3. Inv => GivebackMatches
  BY OwnGivebacks DEF MeaningInv
<1> QED BY <1>1, <1>2, <1>3, PTL DEF Spec
=============================================================================
