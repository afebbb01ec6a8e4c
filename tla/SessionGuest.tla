---------------------------- MODULE SessionGuest ----------------------------
(***************************************************************************)
(* What the guest sees of a session, for every number of URBs, resets and  *)
(* handles.                                                                *)
(*                                                                         *)
(* First the transfers of the lender.  Cancel tokens are recycled, yet no  *)
(* two transfers ever share one, so that an unlink stops the transfer of   *)
(* the unlinked URB and no other; and transfers reach libusb in the order  *)
(* of their URBs.                                                          *)
(*                                                                         *)
(* Then the port.  A reset is under way in one place at a time, so its     *)
(* completion meets a port that is being reset; the address the borrower   *)
(* follows is the one the guest's URBs carry, across resets and            *)
(* SET_ADDRESS.                                                            *)
(***************************************************************************)
EXTENDS SessionReplies

(* Transfers x whose token may still be cancelled or returned to the cache:
   those in U, among them the active ones.  Each has a token of its own, no
   cached token is one of theirs or cancelled, and every token is named after
   a transfer that was started. *)
ActiveOK(U, x, ac, cn) ==
  /\ U \subseteq DOMAIN x /\ DOMAIN ac \subseteq U
  /\ \A s \in DOMAIN ac : ac[s] = x[s].tok /\ ac[s] # NoToken /\ ac[s] \notin cn
UniqueOK(U, x) == \A s, t \in U : x[s].tok = x[t].tok /\ x[s].tok # NoToken => s = t
CachedOK(U, x, ca, cn) ==
  /\ \A i, j \in DOMAIN ca : ca[i] = ca[j] => i = j
  /\ \A i \in DOMAIN ca : /\ ca[i] \in DOMAIN x /\ ca[i] # NoToken /\ ca[i] \notin cn
                          /\ \A s \in U : x[s].tok # ca[i]
NamedOK(x, cn) ==
  /\ NoToken \notin DOMAIN x /\ cn \subseteq DOMAIN x
  /\ \A s \in DOMAIN x : x[s].tok # NoToken => x[s].tok \in DOMAIN x
TokensOK(U, x, ac, ca, cn) ==
  ActiveOK(U, x, ac, cn) /\ UniqueOK(U, x) /\ CachedOK(U, x, ca, cn) /\ NamedOK(x, cn)

(* A cancelled token stands for an unlinked URB. *)
Justified(U, x, cn, uo, un) == \A s \in U : x[s].tok \in cn => uo[s] \in un

SameTokens(x, y) == DOMAIN y = DOMAIN x /\ \A s \in DOMAIN x : y[s].tok = x[s].tok

LEMMA TokensFewer ==
  ASSUME NEW U, NEW x, NEW ac, NEW ca, NEW cn, TokensOK(U, x, ac, ca, cn),
         NEW V, V \subseteq U, DOMAIN ac \subseteq V, NEW y, SameTokens(x, y)
  PROVE  TokensOK(V, y, ac, ca, cn)
<1>1. ActiveOK(V, y, ac, cn)
  BY DEF TokensOK, ActiveOK, SameTokens
<1>2. UniqueOK(V, y)
  BY DEF TokensOK, ActiveOK, UniqueOK, SameTokens
<1>3. CachedOK(V, y, ca, cn)
  BY DEF TokensOK, ActiveOK, CachedOK, SameTokens
<1>4. NamedOK(y, cn)
  BY DEF TokensOK, NamedOK, SameTokens
<1> QED BY <1>1, <1>2, <1>3, <1>4 DEF TokensOK

(* A transfer without a token starts. *)
LEMMA TokensStart ==
  ASSUME NEW U, NEW x, NEW ac, NEW ca, NEW cn, TokensOK(U, x, ac, ca, cn),
         NEW s \in LendSeqnum, NEW t, t.tok = NoToken, NEW y, Started(x, y, s, t)
  PROVE  TokensOK(U \cup {s}, y, ac, ca, cn)
<1>0. s # NoToken
  BY LendAssumption
<1>1. ActiveOK(U \cup {s}, y, ac, cn)
  BY DEF TokensOK, ActiveOK, Started
<1>2. UniqueOK(U \cup {s}, y)
  BY DEF TokensOK, ActiveOK, UniqueOK, Started
<1>3. CachedOK(U \cup {s}, y, ca, cn)
  BY DEF TokensOK, ActiveOK, CachedOK, Started
<1>4. NamedOK(y, cn)
  BY <1>0 DEF TokensOK, NamedOK, Started
<1> QED BY <1>1, <1>2, <1>3, <1>4 DEF TokensOK

(* register_cancel_token: a new token, or the one that was cached last. *)
LEMMA TokensRegister ==
  ASSUME NEW U, NEW x, NEW ac, NEW ca \in Seq(Token), NEW cn, TokensOK(U, x, ac, ca, cn),
         NEW s \in LendSeqnum, NEW t, NEW y, Started(x, y, s, t),
         NEW ca2, \/ ca = <<>> /\ t.tok = s /\ ca2 = ca
                  \/ ca # <<>> /\ t.tok = ca[Len(ca)] /\ ca2 = SubSeq(ca, 1, Len(ca) - 1),
         NEW ac2, ac2 = Insert(ac, s, t.tok)
  PROVE  TokensOK(U \cup {s}, y, ac2, ca2, cn)
<1>0. s # NoToken /\ s \notin DOMAIN x
  BY LendAssumption DEF Started
<1>1. /\ t.tok # NoToken /\ t.tok \notin cn /\ t.tok \in DOMAIN x \cup {s}
      /\ \A r \in U : x[r].tok # t.tok
      /\ \A i \in DOMAIN ca2 : i \in DOMAIN ca /\ ca2[i] = ca[i] /\ ca2[i] # t.tok
  <2>1. CASE ca = <<>> /\ t.tok = s /\ ca2 = ca
    BY <1>0, <2>1 DEF TokensOK, NamedOK, ActiveOK
  <2>2. CASE ca # <<>> /\ t.tok = ca[Len(ca)] /\ ca2 = SubSeq(ca, 1, Len(ca) - 1)
    <3>1. Len(ca) \in DOMAIN ca
      BY <2>2
    <3>2. \A i \in DOMAIN ca2 : i \in DOMAIN ca /\ ca2[i] = ca[i] /\ i # Len(ca)
      BY <2>2
    <3> QED BY <2>2, <3>1, <3>2 DEF TokensOK, CachedOK
  <2> QED BY <2>1, <2>2
<1>2. DOMAIN ac2 = DOMAIN ac \cup {s} /\ ac2[s] = t.tok /\ \A r \in DOMAIN ac : r # s => ac2[r] = ac[r]
  BY DEF Insert
<1>3. ActiveOK(U \cup {s}, y, ac2, cn)
  BY <1>1, <1>2 DEF TokensOK, ActiveOK, Started
<1>4. UniqueOK(U \cup {s}, y)
  BY <1>1 DEF TokensOK, ActiveOK, UniqueOK, Started
<1>5. CachedOK(U \cup {s}, y, ca2, cn)
  BY <1>1 DEF TokensOK, ActiveOK, CachedOK, Started
<1>6. NamedOK(y, cn)
  BY <1>0, <1>1 DEF TokensOK, NamedOK, Started
<1> QED BY <1>3, <1>4, <1>5, <1>6 DEF TokensOK

(* cancel_transfer: the token of an active transfer, which is no longer one. *)
LEMMA TokensCancel ==
  ASSUME NEW U, NEW x, NEW ac, NEW ca, NEW cn, TokensOK(U, x, ac, ca, cn), NEW s \in DOMAIN ac,
         NEW ac2, ac2 = Remove(ac, s), NEW cn2, cn2 = cn \cup {ac[s]}
  PROVE  TokensOK(U, x, ac2, ca, cn2)
<1>1. DOMAIN ac2 = DOMAIN ac \ {s} /\ \A r \in DOMAIN ac2 : ac2[r] = ac[r]
  BY DEF Remove
<1>2. s \in U /\ ac[s] = x[s].tok /\ ac[s] # NoToken /\ s \in DOMAIN x
  BY DEF TokensOK, ActiveOK
<1>3. ActiveOK(U, x, ac2, cn2)
  BY <1>1, <1>2 DEF TokensOK, ActiveOK, UniqueOK
<1>4. CachedOK(U, x, ca, cn2)
  BY <1>2 DEF TokensOK, CachedOK
<1>5. NamedOK(x, cn2)
  BY <1>2 DEF TokensOK, NamedOK
<1> QED BY <1>3, <1>4, <1>5 DEF TokensOK

(* deregister_token: the token goes back to the cache, and its transfer is no
   longer one that may use it. *)
LEMMA TokensReturn ==
  ASSUME NEW U, NEW x, NEW ac, NEW ca \in Seq(Token), NEW cn, TokensOK(U, x, ac, ca, cn),
         NEW s \in DOMAIN ac, NEW ac2, ac2 = Remove(ac, s),
         NEW ca2, ca2 = Append(ca, ac[s])
  PROVE  TokensOK(U \ {s}, x, ac2, ca2, cn)
<1>1. DOMAIN ac2 = DOMAIN ac \ {s} /\ \A r \in DOMAIN ac2 : ac2[r] = ac[r]
  BY DEF Remove
<1>2. s \in U /\ ac[s] = x[s].tok /\ ac[s] # NoToken /\ s \in DOMAIN x /\ ac[s] \notin cn
  BY DEF TokensOK, ActiveOK
<1>3. ActiveOK(U \ {s}, x, ac2, cn)
  BY <1>1 DEF TokensOK, ActiveOK
<1>4. UniqueOK(U \ {s}, x)
  BY DEF TokensOK, UniqueOK
<1>5. \A i \in DOMAIN ca2 : \/ i \in DOMAIN ca /\ ca2[i] = ca[i]
                            \/ i = Len(ca) + 1 /\ ca2[i] = ac[s]
  BY Added
<1>6. CachedOK(U \ {s}, x, ca2, cn)
  <2>1. ac[s] \in DOMAIN x
    BY <1>2 DEF TokensOK, NamedOK
  <2>2. \A r \in U \ {s} : x[r].tok # ac[s]
    BY <1>2 DEF TokensOK, UniqueOK
  <2>3. \A i \in DOMAIN ca : ca[i] # ac[s]
    BY <1>2 DEF TokensOK, CachedOK
  <2>4. \A i, j \in DOMAIN ca2 : ca2[i] = ca2[j] => i = j
    BY <1>5, <2>3 DEF TokensOK, CachedOK
  <2>5. \A i \in DOMAIN ca2 : /\ ca2[i] \in DOMAIN x /\ ca2[i] # NoToken /\ ca2[i] \notin cn
                              /\ \A r \in U \ {s} : x[r].tok # ca2[i]
    BY <1>2, <1>5, <2>1, <2>2 DEF TokensOK, CachedOK
  <2> QED BY <2>4, <2>5 DEF CachedOK
<1> QED BY <1>3, <1>4, <1>6 DEF TokensOK

-----------------------------------------------------------------------------
(* The transfers whose token is in use: not yet completed, on their way to
   the send loop, or still registered. *)
UsersIn(x, ho, ch, ac) ==
  {s \in DOMAIN x : x[s].st # "gone" \/ Waits(ho, ch, s) \/ s \in DOMAIN ac}
Users == UsersIn(xfer, hold, chan, active)

(* While the receive loop runs; its end gives every transfer up. *)
TokRun == /\ TokensOK(Users, xfer, active, cached, cancelled)
          /\ Justified(Users, xfer, cancelled, urbOf, unlinked)
GivenUp == lRecv # "run" => \A s \in DOMAIN xfer : xfer[s].st = "gone"
StoppedOnlyIfUnlinked == \A s \in DOMAIN xfer : xfer[s].res = "Cancelled" => urbOf[s] \in unlinked
TokInv == GivenUp /\ StoppedOnlyIfUnlinked /\ (lRecv = "run" => TokRun)

LEMMA TokFewer ==
  ASSUME TokRun, PipeInv, UNCHANGED <<active, cached, cancelled>>, SameTokens(xfer, xfer'),
         Users' \subseteq Users, Extended(urbOf, urbOf'), unlinked \subseteq unlinked'
  PROVE  TokRun'
<1>1. DOMAIN active \subseteq Users'
  BY DEF TokRun, TokensOK, ActiveOK, Users, UsersIn, SameTokens
<1>2. TokensOK(Users', xfer', active, cached, cancelled)
  BY <1>1, TokensFewer DEF TokRun
<1>3. Justified(Users', xfer', cancelled, urbOf', unlinked')
  BY DEF TokRun, Justified, SameTokens, Extended, Users, UsersIn, PipeInv, Numbers
<1> QED BY <1>2, <1>3 DEF TokRun

LEMMA TokKept ==
  ASSUME TokRun, PipeInv, UNCHANGED <<active, cached, cancelled, xfer, hold, chan>>,
         Extended(urbOf, urbOf'), unlinked \subseteq unlinked'
  PROVE  TokRun'
<1>1. Users' = Users /\ SameTokens(xfer, xfer')
  BY DEF Users, UsersIn, SameTokens, Waits
<1> QED BY <1>1, TokFewer

(* A transfer starts. *)
LEMMA UsersStart ==
  ASSUME NEW x, NEW y, NEW s, NEW t, Started(x, y, s, t), NEW ho, NEW ch, NEW ac, NEW ac2,
         DOMAIN ac2 \subseteq DOMAIN ac \cup {s}
  PROVE  UsersIn(y, ho, ch, ac2) \subseteq UsersIn(x, ho, ch, ac) \cup {s}
BY DEF UsersIn, Started

LEMMA TokStarts ==
  ASSUME TokRun, TypeInv, PipeInv, UNCHANGED <<urbOf, unlinked>>,
         new_transfer \/ blocking_request \/ port_reset
  PROVE  TokRun'
<1> DEFINE s == Frame.seq
<1>1. /\ toL # <<>> /\ Head(toL).cmd \in Cmds /\ UNCHANGED <<hold, chan, cancelled>>
      /\ \E t : /\ xfer' = Insert(xfer, s, t)
                /\ \/ t.tok = NoToken /\ UNCHANGED <<active, cached>>
                   \/ /\ t.tok = recycled(s) /\ cached' = pop /\ active' = Insert(active, s, t.tok)
  BY DEF new_transfer, blocking_request, port_reset, TakeFrame, Cmds, register_cancel_token, start
<1>2. s \notin DOMAIN xfer /\ s \in LendSeqnum
  <2>1. s \notin DOMAIN xfer
    BY <1>1, CmdTake DEF PipeInv, Commands, Frame
  <2>2. Head(toL) \in CmdFrames(Seqnum)
    BY <1>1, QueueTake DEF TypeInv, TypeOK, StreamTypeOK
  <2> QED BY <2>1, <2>2, SessionAssumption DEF CmdFrames, Frame
<1> HIDE DEF s
<1>3. PICK t : /\ xfer' = Insert(xfer, s, t)
               /\ \/ t.tok = NoToken /\ UNCHANGED <<active, cached>>
                  \/ /\ t.tok = recycled(s) /\ cached' = pop /\ active' = Insert(active, s, t.tok)
  BY <1>1
<1>4. Started(xfer, xfer', s, t)
  BY <1>2, <1>3, StartAdvances
<1>5. TokensOK(Users \cup {s}, xfer', active', cached', cancelled)
  <2>1. CASE t.tok = NoToken /\ UNCHANGED <<active, cached>>
    BY <1>2, <1>4, <2>1, TokensStart DEF TokRun
  <2>2. CASE t.tok = recycled(s) /\ cached' = pop /\ active' = Insert(active, s, t.tok)
    <3>1. cached \in Seq(Token)
      BY DEF TypeInv, TypeOK, LendTypeOK
    <3>2. \/ cached = <<>> /\ t.tok = s /\ cached' = cached
          \/ cached # <<>> /\ t.tok = cached[Len(cached)] /\ cached' = SubSeq(cached, 1, Len(cached) - 1)
      BY <2>2 DEF recycled, pop
    <3>3. active' = Insert(active, s, t.tok)
      BY <2>2
    <3> QED BY <1>2, <1>4, <3>1, <3>2, <3>3, TokensRegister DEF TokRun
  <2> QED BY <1>3, <2>1, <2>2
<1>6. t.tok \notin cancelled
  <2>1. NoToken \notin cancelled
    BY LendAssumption DEF TypeInv, TypeOK, LendTypeOK, Token
  <2>2. ASSUME t.tok = recycled(s) PROVE t.tok \notin cancelled
    <3>1. CASE cached = <<>>
      BY <1>2, <2>2, <3>1 DEF recycled, TokRun, TokensOK, NamedOK
    <3>2. CASE cached # <<>>
      <4>1. Len(cached) \in DOMAIN cached
        BY <3>2 DEF TypeInv, TypeOK, LendTypeOK
      <4> QED BY <2>2, <3>2, <4>1 DEF recycled, TokRun, TokensOK, CachedOK
    <3> QED BY <3>1, <3>2
  <2> QED BY <1>3, <2>1, <2>2
<1>7. Justified(Users \cup {s}, xfer', cancelled, urbOf, unlinked)
  BY <1>4, <1>6 DEF TokRun, Justified, Started, Users, UsersIn
<1>8. Users' \subseteq Users \cup {s}
  <2>1. DOMAIN active' \subseteq DOMAIN active \cup {s}
    BY <1>3 DEF Insert
  <2> QED BY <1>1, <1>4, <2>1, UsersStart DEF Users
<1>9. DOMAIN active' \subseteq Users'
  BY <1>4, <1>5 DEF TokensOK, ActiveOK, Users, UsersIn
<1>10. TokensOK(Users', xfer', active', cached', cancelled)
  BY <1>5, <1>8, <1>9, TokensFewer DEF SameTokens
<1> QED BY <1>1, <1>7, <1>8, <1>10 DEF TokRun, Justified

(* An unlink cancels the token of the transfer it names. *)
LEMMA TokUnlinks ==
  ASSUME TokRun, CmdsInv, UNCHANGED <<urbOf, unlinked>>, unlink_urb
  PROVE  TokRun'
<1> DEFINE s == Frame.seq
<1>1. /\ toL # <<>> /\ Frame.cmd = "CmdUnlink" /\ UNCHANGED <<xfer, cached, chan, hold>>
      /\ cancel_transfer(s)
  BY DEF unlink_urb, TakeFrame, Frame
<1>2. urbOf[s] \in unlinked
  <2>1. Frame \in GoodCmds(urbOf, urbs, unlinked)
    BY <1>1, QueueTake DEF CmdsInv, Frame
  <2> QED BY <1>1, <2>1 DEF GoodCmds, GoodCmd
<1> HIDE DEF s
<1>3. CASE s \notin DOMAIN active
  <2>1. UNCHANGED <<active, cancelled>>
    BY <1>1, <1>3 DEF cancel_transfer
  <2>2. Users' = Users
    BY <1>1, <2>1 DEF Users, UsersIn, Waits
  <2> QED BY <1>1, <2>1, <2>2 DEF TokRun, Justified
<1>4. CASE s \in DOMAIN active
  <2>1. cancelled' = cancelled \cup {active[s]} /\ active' = Remove(active, s)
    BY <1>1, <1>4 DEF cancel_transfer
  <2>2. TokensOK(Users, xfer, active', cached, cancelled')
    BY <1>4, <2>1, TokensCancel DEF TokRun
  <2>3. Users' \subseteq Users
    <3>1. DOMAIN active' \subseteq DOMAIN active
      BY <2>1 DEF Remove
    <3> QED BY <1>1, <3>1 DEF Users, UsersIn, Waits
  <2>4. DOMAIN active' \subseteq Users'
    BY <1>1, <2>2 DEF TokensOK, ActiveOK, Users, UsersIn
  <2>5. TokensOK(Users', xfer', active', cached', cancelled')
    BY <1>1, <2>2, <2>3, <2>4, TokensFewer DEF SameTokens
  <2>6. \A r \in Users : xfer[r].tok = active[s] => r = s
    BY <1>4 DEF TokRun, TokensOK, ActiveOK, UniqueOK
  <2>7. Justified(Users', xfer', cancelled', urbOf', unlinked')
    BY <1>1, <1>2, <2>1, <2>3, <2>6 DEF TokRun, Justified
  <2> QED BY <2>5, <2>7 DEF TokRun
<1> QED BY <1>3, <1>4

(* A future resolves: its transfer is on its way to the send loop, or dropped. *)
LEMMA TokCompletes ==
  ASSUME TokRun, TypeInv, PipeInv, UNCHANGED <<urbOf, unlinked>>, NEW s \in DOMAIN xfer, completed(s)
  PROVE  TokRun'
<1> DEFINE c == ChannelOf(xfer[s].kind)
           e == [seq |-> s, res |-> resultOf(xfer[s])]
<1>1. /\ xfer[s].st = "ready" /\ hold = <<>> /\ UNCHANGED <<active, cached, cancelled>>
      /\ xfer' = StateSet(xfer, s, "gone")
      /\ \/ chan' = Enqueued(chan, c, e) /\ UNCHANGED hold
         \/ hold' = <<e>> /\ UNCHANGED chan
         \/ UNCHANGED <<chan, hold>>
  BY DEF completed, Running, Enqueued, StateSet
<1>2. IsMap(xfer, LendSeqnum, Transfer) /\ xfer[s] \in Transfer /\ s \in LendSeqnum
  BY MapValue DEF TypeInv, TypeOK, LendTypeOK
<1>3. Others(xfer, xfer', s) /\ Same(xfer[s], xfer'[s]) /\ xfer'[s].st = "gone"
  BY <1>1, <1>2, StateAdvances
<1>4. e \in Completion /\ c \in Channel /\ e.seq = s
  <2>1. resultOf(xfer[s]) \in TransferResult
    BY <1>2, ConvertType
  <2>2. c \in Channel
    BY <1>2, ChannelType DEF Transfer
  <2> QED BY <1>2, <2>1, <2>2 DEF Completion
<1>5. DonesOK(hold, chan) /\ ~Waits(hold, chan, s)
  BY <1>1 DEF PipeInv, Replies, RepliesOK, PlacesOK, Gone, GoneIn
<1> HIDE DEF c, e
<1>6. \A r : Waits(hold', chan', r) => Waits(hold, chan, r) \/ r = s
  <2>1. CASE chan' = Enqueued(chan, c, e) /\ UNCHANGED hold
    <3>1. (\A d \in Channel : ~Queued(chan[d], e.seq)) /\ ~Queued(hold, e.seq)
      BY <1>4, <1>5 DEF Waits
    <3>2. \A r : Waits(hold, chan', r) <=> Waits(hold, chan, r) \/ r = e.seq
      BY <1>4, <1>5, <2>1, <3>1, ChannelAdded
    <3> QED BY <1>4, <2>1, <3>2
  <2>2. CASE hold' = <<e>> /\ UNCHANGED chan
    BY <1>4, <2>2, QueuedNone DEF Waits
  <2>3. CASE UNCHANGED <<chan, hold>>
    BY <2>3
  <2> QED BY <1>1, <2>1, <2>2, <2>3
<1>7. SameTokens(xfer, xfer') /\ Users' \subseteq Users
  BY <1>1, <1>3, <1>6 DEF SameTokens, Others, Same, Users, UsersIn
<1> QED BY <1>1, <1>7, Shrunk, TokFewer

LEMMA TokResumes ==
  ASSUME TokRun, TypeInv, PipeInv, UNCHANGED <<urbOf, unlinked>>, sendResumes
  PROVE  TokRun'
<1> DEFINE c == ChannelOf(xfer[hold[1].seq].kind)
<1>1. /\ UNCHANGED <<xfer, active, cached, cancelled>> /\ hold # <<>> /\ hold' = <<>>
      /\ UNCHANGED chan \/ chan' = Enqueued(chan, c, hold[1])
  BY DEF sendResumes, Enqueued
<1>2. c \in Channel
  <2>1. xfer[hold[1].seq] \in Transfer
    BY <1>1, MapValue DEF TypeInv, TypeOK, LendTypeOK, HoldKnown
  <2> QED BY <2>1, ChannelType DEF Transfer
<1>3. 1 \in DOMAIN hold /\ hold[1] \in Completion /\ DonesOK(hold, chan)
  BY <1>1 DEF TypeInv, TypeOK, LendTypeOK, PipeInv, Replies, RepliesOK
<1>4. Queued(hold, hold[1].seq) /\ \A d \in Channel : ~Queued(chan[d], hold[1].seq)
  BY <1>3 DEF Queued, DonesOK, Separate
<1> HIDE DEF c
<1>5. \A r : Waits(hold', chan', r) => Waits(hold, chan, r)
  <2>1. CASE UNCHANGED chan
    BY <1>1, <2>1, QueuedNone DEF Waits
  <2>2. CASE chan' = Enqueued(chan, c, hold[1])
    <3>1. DonesOK(<<>>, chan)
      BY <1>3, QueuedNone, EmptyQueue DEF DonesOK, Separate
    <3>2. ~Queued(<<>>, hold[1].seq)
      BY QueuedNone
    <3>3. \A r : Waits(<<>>, chan', r) <=> Waits(<<>>, chan, r) \/ r = hold[1].seq
      BY <1>2, <1>3, <1>4, <2>2, <3>1, <3>2, ChannelAdded
    <3>4. \A r : Waits(<<>>, chan, r) => Waits(hold, chan, r)
      BY QueuedNone DEF Waits
    <3>5. Waits(hold, chan, hold[1].seq)
      BY <1>4 DEF Waits
    <3> QED BY <1>1, <3>3, <3>4, <3>5
  <2> QED BY <1>1, <2>1, <2>2
<1>6. SameTokens(xfer, xfer') /\ Users' \subseteq Users
  BY <1>1, <1>5 DEF SameTokens, Users, UsersIn
<1> QED BY <1>1, <1>6, Shrunk, TokFewer

(* The send loop takes a completion off its channel; the token of that
   transfer is returned to the cache, unless it was cancelled. *)
LEMMA TokReplies ==
  ASSUME TokRun, TypeInv, PipeInv, UNCHANGED <<urbOf, unlinked, xfer, hold, cancelled>>,
         NEW c \in Channel, chan[c] # <<>>, chan' = Dequeued(chan, c) \/ chan' = NoChannel,
         deregister_token(Head(chan[c]).seq) \/ UNCHANGED <<active, cached>>
  PROVE  TokRun'
<1> DEFINE s == Head(chan[c]).seq
<1>1. DonesOK(hold, chan)
  BY DEF PipeInv, Replies, RepliesOK
<1>2. Waits(hold, chan, s) /\ ~Queued(hold, s)
  <2>1. chan[c] \in Seq(Completion)
    BY <1>1 DEF DonesOK
  <2>2. Queued(chan[c], s)
    BY <2>1 DEF Queued
  <2> QED BY <1>1, <2>2 DEF Waits, DonesOK, Separate
<1>3. xfer[s].st = "gone"
  BY <1>2 DEF PipeInv, Replies, RepliesOK, PlacesOK, Gone, GoneIn
<1> HIDE DEF s
<1>4. ~Waits(hold, chan', s) /\ \A r : Waits(hold, chan', r) => Waits(hold, chan, r)
  <2>1. CASE chan' = Dequeued(chan, c)
    BY <1>1, <2>1, ChannelTaken DEF s
  <2>2. CASE chan' = NoChannel
    <3>1. \A d \in Channel : \A r : ~Queued(chan'[d], r)
      BY <2>2, QueuedNone DEF NoChannel
    <3> QED BY <1>2, <3>1 DEF Waits
  <2> QED BY <2>1, <2>2
<1>5. SameTokens(xfer, xfer')
  BY DEF SameTokens
<1>6. CASE UNCHANGED <<active, cached>>
  <2>1. Users' \subseteq Users
    BY <1>4, <1>6 DEF Users, UsersIn
  <2> QED BY <1>5, <1>6, <2>1, Shrunk, TokFewer
<1>7. CASE s \in DOMAIN active /\ active' = Remove(active, s) /\ cached' = Append(cached, active[s])
  <2>1. cached \in Seq(Token)
    BY DEF TypeInv, TypeOK, LendTypeOK
  <2>2. TokensOK(Users \ {s}, xfer, active', cached', cancelled)
    BY <1>7, <2>1, TokensReturn DEF TokRun
  <2>3. DOMAIN active' = DOMAIN active \ {s}
    BY <1>7 DEF Remove
  <2>4. Users' \subseteq Users \ {s}
    BY <1>3, <1>4, <2>3 DEF Users, UsersIn
  <2>5. DOMAIN active' \subseteq Users'
    BY <2>2 DEF TokensOK, ActiveOK, Users, UsersIn
  <2>6. TokensOK(Users', xfer', active', cached', cancelled)
    BY <1>5, <2>2, <2>4, <2>5, TokensFewer
  <2> QED BY <2>4, <2>6 DEF TokRun, Justified
<1> QED BY <1>6, <1>7 DEF deregister_token, s

LEMMA TokSends ==
  ASSUME TokRun, TypeInv, PipeInv, UNCHANGED <<urbOf, unlinked>>, LendSend
  PROVE  TokRun'
<1>0. UNCHANGED <<xfer, hold, cancelled>>
  BY LendSendCases DEF transferReplied, transferAborts, lendFlushBuf, lendWriteFrame,
     lendFlushComplete, lendEndSend, sendKeeps
<1>1. ASSUME NEW c \in Channel, transferReplied(c) PROVE TokRun'
  <2>1. /\ chan[c] # <<>> /\ chan' = Dequeued(chan, c)
        /\ deregister_token(Head(chan[c]).seq) \/ UNCHANGED <<active, cached>>
    BY <1>1 DEF transferReplied, Dequeued
  <2> QED BY <1>0, <2>1, TokReplies
<1>2. ASSUME NEW c \in Channel, transferAborts(c) PROVE TokRun'
  <2>1. chan[c] # <<>> /\ chan' = NoChannel /\ deregister_token(Head(chan[c]).seq)
    BY <1>2 DEF transferAborts, endSending
  <2> QED BY <1>0, <2>1, TokReplies
<1>3. CASE lendFlushBuf \/ lendWriteFrame \/ lendFlushComplete
  <2>1. UNCHANGED <<chan, active, cached>>
    BY <1>3 DEF lendFlushBuf, lendWriteFrame, lendFlushComplete
  <2> QED BY <1>0, <2>1, Shrunk, TokKept
<1>4. CASE lendEndSend
  <2>1. UNCHANGED <<active, cached>> /\ chan' = NoChannel
    BY <1>4 DEF lendEndSend, endSending
  <2>2. \A d \in Channel : \A r : ~Queued(chan'[d], r)
    BY <2>1, QueuedNone DEF NoChannel
  <2>3. \A r : Waits(hold, chan', r) => Waits(hold, chan, r)
    BY <2>2 DEF Waits
  <2>4. Users' \subseteq Users /\ SameTokens(xfer, xfer')
    BY <1>0, <2>1, <2>3 DEF Users, UsersIn, SameTokens
  <2> QED BY <1>0, <2>1, <2>4, Shrunk, TokFewer
<1> QED BY <1>1, <1>2, <1>3, <1>4, LendSendCases

(* The blocking thread and the device move transfers on. *)
LEMMA TokDevice ==
  ASSUME TokRun, TypeInv, PipeInv, UNCHANGED <<urbOf, unlinked>>, LendThread \/ Device
  PROVE  TokRun'
<1>0. UNCHANGED <<active, cached, cancelled, chan, hold>> /\ IsMap(xfer, LendSeqnum, Transfer)
  BY DEF LendThread, Device, deviceDone, deviceKeeps, TypeInv, TypeOK, LendTypeOK
<1>1. ASSUME NEW s \in DOMAIN xfer, xfer[s].st # "gone", Others(xfer, xfer', s),
             Same(xfer[s], xfer'[s])
      PROVE  TokRun'
  <2>1. SameTokens(xfer, xfer') /\ Users' \subseteq Users
    BY <1>0, <1>1 DEF SameTokens, Others, Same, Users, UsersIn
  <2> QED BY <1>0, <2>1, Shrunk, TokFewer
<1>2. CASE LendThread
  <2> DEFINE s == Head(lTasks)
  <2>1. CASE xfer' = StateSet(xfer, s, "inflight") /\ xfer[s].st = "queued"
    <3>1. CASE s \in DOMAIN xfer
      <4>1. Others(xfer, xfer', s) /\ Same(xfer[s], xfer'[s])
        BY <1>0, <2>1, <3>1, StateAdvances
      <4> QED BY <1>1, <2>1, <3>1, <4>1
    <3>2. CASE s \notin DOMAIN xfer
      <4>1. DOMAIN xfer' = DOMAIN xfer /\ \A r \in DOMAIN xfer : xfer'[r] = xfer[r]
        BY <2>1, <3>2 DEF StateSet
      <4>2. SameTokens(xfer, xfer') /\ Users' \subseteq Users
        BY <1>0, <4>1 DEF SameTokens, Users, UsersIn
      <4> QED BY <1>0, <4>2, Shrunk, TokFewer
    <3> QED BY <3>1, <3>2
  <2>2. CASE UNCHANGED xfer
    BY <1>0, <2>2, Shrunk, TokKept
  <2> QED BY <1>2, <2>1, <2>2 DEF LendThread, StateSet
<1>3. CASE Device
  <2>1. PICK s \in DOMAIN xfer, r \in TransferStatus \cup RusbError : deviceDone(s, r)
    BY <1>3 DEF Device
  <2>2. xfer' = ResultSet(xfer, s, r) /\ xfer[s].st = "inflight"
    BY <2>1 DEF deviceDone, ResultSet
  <2>3. xfer[s] \in Transfer
    BY <1>0, MapValue
  <2>4. Others(xfer, xfer', s) /\ Same(xfer[s], xfer'[s])
    BY <2>2, <2>3 DEF ResultSet, Others, Same, Transfer
  <2> QED BY <1>1, <2>2, <2>4
<1> QED BY <1>2, <1>3

LEMMA TokRunStep ==
  ASSUME TokRun, TypeInv, PipeInv, CmdsInv, lRecv = "run", lRecv' = "run", [Next]_vars
  PROVE  TokRun'
<1>0. Extended(urbOf, urbOf') /\ unlinked \subseteq unlinked'
  BY History
<1>1. CASE UNCHANGED <<active, cached, cancelled, xfer, hold, chan>>
  BY <1>0, <1>1, TokKept
<1>2. CASE UNCHANGED lendVars
  BY <1>1, <1>2 DEF lendVars
<1>3. CASE Lender(LendRecv)
  <2>1. UNCHANGED <<urbOf, unlinked>> /\ LendRecv
    BY <1>3 DEF Lender, vhciVars, borrowVars
  <2>2. CASE \E s \in DOMAIN xfer : completed(s) \/ recvPanic(s)
    BY <2>1, <2>2, TokCompletes DEF recvPanic
  <2>3. CASE endRecvLoop \/ drainRead \/ drainEnd
    BY <2>3 DEF endRecvLoop, drainRead, drainEnd
  <2> QED BY <2>1, <2>2, <2>3, LendRecvCases, TokStarts, TokUnlinks, TokResumes
<1>4. CASE Lender(LendSend)
  <2>1. UNCHANGED <<urbOf, unlinked>> /\ LendSend
    BY <1>4 DEF Lender, vhciVars, borrowVars
  <2> QED BY <2>1, TokSends
<1>5. CASE Lender(LendThread) \/ Lender(Device)
  <2>1. UNCHANGED <<urbOf, unlinked>> /\ (LendThread \/ Device)
    BY <1>5 DEF Lender, vhciVars, borrowVars
  <2> QED BY <2>1, TokDevice
<1>6. CASE Lender(lendStopped) \/ Lender(LendMain) \/ Lender(CancelLend)
  BY <1>1, <1>6 DEF Lender, lendStopped, LendMain, lendJoined, libusbJoined, CancelLend,
     lendMainKeeps, sendKeeps
<1> QED BY <1>2, <1>3, <1>4, <1>5, <1>6 DEF Next, Borrower, vars

(* The receive loop does not come back, and gives up its transfers. *)
LEMMA LoopEnds ==
  ASSUME [Next]_vars, lRecv' # lRecv
  PROVE  lRecv' # "run" /\ (dropHandler \/ (lRecv = "drain" /\ UNCHANGED xfer))
<1>1. CASE UNCHANGED lendVars
  BY <1>1 DEF lendVars
<1>2. CASE Lender(LendRecv)
  BY <1>2, LendRecvCases DEF Lender, new_transfer, blocking_request, port_reset, unlink_urb, completed,
     recvPanic, sendResumes, endRecvLoop, drainRead, drainEnd, drainKeeps
<1>3. CASE Lender(LendSend)
  BY <1>3, LendSendCases DEF Lender, transferReplied, transferAborts, lendFlushBuf, lendWriteFrame,
     lendFlushComplete, lendEndSend, sendKeeps
<1>4. CASE \/ Lender(LendThread) \/ Lender(Device) \/ Lender(lendStopped) \/ Lender(LendMain)
           \/ Lender(CancelLend)
  BY <1>4 DEF Lender, LendThread, Device, deviceDone, deviceKeeps, lendStopped, LendMain, lendJoined,
     libusbJoined, CancelLend, lendMainKeeps, sendKeeps
<1> QED BY <1>1, <1>2, <1>3, <1>4 DEF Next, Borrower, vars

LEMMA GivenUpStep ==
  ASSUME GivenUp, TypeInv, PipeInv, [Next]_vars
  PROVE  GivenUp'
<1> SUFFICES ASSUME lRecv' # "run" PROVE \A s \in DOMAIN xfer' : xfer'[s].st = "gone"
  BY DEF GivenUp
<1>0. IsMap(xfer, LendSeqnum, Transfer)
  BY DEF TypeInv, TypeOK, LendTypeOK
<1>1. CASE dropHandler
  <2>1. xfer' = AllGone(xfer)
    BY <1>1 DEF dropHandler, AllGone
  <2>2. DOMAIN xfer' = DOMAIN xfer /\ \A s \in DOMAIN xfer : xfer'[s].st = "gone"
    BY <1>0, <2>1, DropAdvances
  <2> QED BY <2>2
<1>2. CASE ~dropHandler
  <2>1. lRecv # "run" /\ \A s \in DOMAIN xfer : xfer[s].st = "gone"
    BY <1>2, LoopEnds DEF GivenUp
  <2>2. ~(new_transfer \/ blocking_request \/ port_reset \/ \E s \in DOMAIN xfer : completed(s))
    BY <2>1 DEF new_transfer, blocking_request, port_reset, TakeFrame, completed, Running
  <2>3. ~Device
    BY <2>1 DEF Device, deviceDone
  <2>4. CASE UNCHANGED xfer
    BY <2>1, <2>4
  <2>5. CASE LendThread /\ xfer[Head(lTasks)].st = "queued"
    <3>1. Head(lTasks) \notin DOMAIN xfer
      BY <2>1, <2>5
    <3>2. xfer' = StateSet(xfer, Head(lTasks), "inflight")
      BY <2>5 DEF LendThread, StateSet
    <3>3. DOMAIN xfer' = DOMAIN xfer /\ \A r \in DOMAIN xfer : xfer'[r] = xfer[r]
      BY <3>1, <3>2 DEF StateSet
    <3> QED BY <2>1, <3>3
  <2> QED BY <1>2, <2>2, <2>3, <2>4, <2>5, XferCases
<1> QED BY <1>1, <1>2

(* Only a transfer whose token was cancelled ends as cancelled. *)
LEMMA StoppedStep ==
  ASSUME TokInv, TypeInv, PipeInv, [Next]_vars
  PROVE  StoppedOnlyIfUnlinked'
<1>0. IsMap(xfer, LendSeqnum, Transfer)
  BY DEF TypeInv, TypeOK, LendTypeOK
<1>1. Extended(urbOf, urbOf') /\ unlinked \subseteq unlinked' /\ DOMAIN xfer \subseteq DOMAIN urbOf
  BY History DEF PipeInv, Numbers
<1>2. ASSUME \A s \in DOMAIN xfer' : s \in DOMAIN xfer /\ xfer'[s].res = xfer[s].res
      PROVE  StoppedOnlyIfUnlinked'
  BY <1>1, <1>2 DEF TokInv, StoppedOnlyIfUnlinked, Extended
<1>3. CASE UNCHANGED xfer
  BY <1>2, <1>3
<1>4. CASE UNCHANGED <<urbOf, unlinked>> /\ (new_transfer \/ blocking_request \/ port_reset)
  <2>1. \E t : xfer' = Insert(xfer, Frame.seq, t) /\ t.res # "Cancelled"
    BY <1>4 DEF new_transfer, blocking_request, port_reset, register_cancel_token, start
  <2>2. \A s \in DOMAIN xfer' : \/ s \in DOMAIN xfer /\ xfer'[s] = xfer[s]
                                \/ xfer'[s].res # "Cancelled"
    BY <2>1 DEF Insert
  <2> QED BY <1>4, <2>2 DEF TokInv, StoppedOnlyIfUnlinked
<1>5. ASSUME NEW s \in DOMAIN xfer, completed(s) PROVE StoppedOnlyIfUnlinked'
  <2>1. xfer' = StateSet(xfer, s, "gone")
    BY <1>5 DEF completed, StateSet
  <2>2. Others(xfer, xfer', s) /\ xfer'[s].res = xfer[s].res
    BY <1>0, <2>1, StateAdvances
  <2> QED BY <1>2, <2>2 DEF Others
<1>6. CASE dropHandler
  <2>1. xfer' = AllGone(xfer)
    BY <1>6 DEF dropHandler, AllGone
  <2>2. DOMAIN xfer' = DOMAIN xfer /\ \A s \in DOMAIN xfer : xfer'[s].res = xfer[s].res
    BY <1>0, <2>1, DropAdvances
  <2> QED BY <1>2, <2>2
<1>7. CASE LendThread /\ xfer[Head(lTasks)].st = "queued"
  <2> DEFINE s == Head(lTasks)
  <2>1. xfer' = StateSet(xfer, s, "inflight")
    BY <1>7 DEF LendThread, StateSet
  <2>2. CASE s \in DOMAIN xfer
    <3>1. Others(xfer, xfer', s) /\ xfer'[s].res = xfer[s].res
      BY <1>0, <2>1, <2>2, StateAdvances
    <3> QED BY <1>2, <3>1 DEF Others
  <2>3. CASE s \notin DOMAIN xfer
    <3>1. DOMAIN xfer' = DOMAIN xfer /\ \A q \in DOMAIN xfer : xfer'[q] = xfer[q]
      BY <2>1, <2>3 DEF StateSet
    <3> QED BY <1>2, <3>1
  <2> QED BY <2>2, <2>3
<1>8. CASE UNCHANGED <<urbOf, unlinked>> /\ Device
  <2>1. PICK s \in DOMAIN xfer, r \in TransferStatus \cup RusbError : deviceDone(s, r)
    BY <1>8 DEF Device
  <2>2. /\ xfer' = ResultSet(xfer, s, r) /\ xfer[s].st = "inflight"
        /\ r = "Cancelled" => xfer[s].tok \in cancelled
    BY <2>1, LendAssumption DEF deviceDone, ResultSet, RusbError
  <2>3. r = "Cancelled" => urbOf[s] \in unlinked
    BY <2>2 DEF TokInv, GivenUp, TokRun, Justified, Users, UsersIn
  <2>4. xfer[s] \in Transfer
    BY <1>0, MapValue
  <2>5. Others(xfer, xfer', s) /\ xfer'[s].res = r
    BY <2>2, <2>4 DEF ResultSet, Others, Transfer
  <2> QED BY <1>8, <2>3, <2>5 DEF TokInv, StoppedOnlyIfUnlinked, Others
<1> QED BY <1>3, <1>4, <1>5, <1>6, <1>7, <1>8, XferCases

LEMMA TokStep ==
  ASSUME TokInv, TypeInv, PipeInv, CmdsInv, [Next]_vars
  PROVE  TokInv'
<1>1. GivenUp' /\ StoppedOnlyIfUnlinked'
  BY GivenUpStep, StoppedStep DEF TokInv
<1>2. ASSUME lRecv' = "run" PROVE TokRun'
  <2>1. lRecv = "run"
    BY <1>2, LoopEnds
  <2> QED BY <1>2, <2>1, TokRunStep DEF TokInv
<1> QED BY <1>1, <1>2 DEF TokInv

LEMMA InitTok == Init => TokInv
<1> SUFFICES ASSUME Init PROVE TokInv
  OBVIOUS
<1>1. DOMAIN xfer = {} /\ DOMAIN active = {} /\ cached = <<>> /\ cancelled = {} /\ lRecv = "run"
  BY EmptyIsMap DEF Init, LendInit
<1>2. Users = {}
  BY <1>1 DEF Users, UsersIn
<1>3. TokRun
  BY <1>1, <1>2 DEF TokRun, TokensOK, ActiveOK, UniqueOK, CachedOK, NamedOK, Justified
<1> QED BY <1>1, <1>3 DEF TokInv, GivenUp, StoppedOnlyIfUnlinked

LEMMA LiveUses ==
  ASSUME TypeInv, PipeInv
  PROVE  Live \subseteq Users
<1>1. ASSUME NEW s \in Live
      PROVE  (s \in DOMAIN xfer /\ xfer[s].st # "gone") \/ Waits(hold, chan, s)
  <2>1. CASE s \in {hold[i].seq : i \in DOMAIN hold}
    BY <2>1 DEF Waits, Queued
  <2>2. CASE s \in UNION {{chan[c][i].seq : i \in DOMAIN chan[c]} : c \in Channel}
    <3>1. PICK c \in Channel : s \in {chan[c][i].seq : i \in DOMAIN chan[c]}
      BY <2>2
    <3>2. Queued(chan[c], s)
      BY <3>1 DEF Queued
    <3> QED BY <3>2 DEF Waits
  <2> QED BY <2>1, <2>2 DEF Live
<1>2. \A s : Waits(hold, chan, s) => s \in DOMAIN xfer
  BY DEF PipeInv, Replies, RepliesOK, PlacesOK
<1> QED BY <1>1, <1>2 DEF Users, UsersIn

(* No two transfers of the lender whose completion has not reached the send
   loop share a cancel token, and a token in the cache is neither theirs nor
   cancelled, although register_cancel_token recycles the tokens that
   deregister_token returns while cancel_transfer takes others out. *)
THEOREM TokensAreExclusive == Spec => []TokensExclusive
<1> DEFINE Inv == BaseInv /\ MeaningInv /\ TokInv
<1>1. Init => Inv
  BY InitBase, InitMeaning, InitTok
<1>2. Inv /\ [Next]_vars => Inv'
  BY BaseStep, MeaningStep, TokStep DEF BaseInv, MeaningInv
<1>3. Inv => TokensExclusive
  <2> SUFFICES ASSUME Inv, lRecv = "run"
               PROVE  /\ \A s, t \in Live : xfer[s].tok = xfer[t].tok /\ xfer[s].tok # NoToken => s = t
                      /\ \A i \in DOMAIN cached : /\ cached[i] \notin cancelled
                                                  /\ \A s \in Live : xfer[s].tok # cached[i]
    BY DEF TokensExclusive
  <2>1. Live \subseteq Users /\ TokRun
    BY LiveUses DEF BaseInv, TokInv
  <2> QED BY <2>1 DEF TokRun, TokensOK, UniqueOK, CachedOK
<1> QED BY <1>1, <1>2, <1>3, PTL DEF Spec

-----------------------------------------------------------------------------
(* What comes back as cancelled was unlinked. *)
WantedTasks(un) == {t \in Task : t.op = "giveback" /\ t.res = "Cancelled" => t.u \in un}
OutInv == tasks \in Seq(WantedTasks(unlinked)) /\ CancelledOnlyIfUnlinked

LEMMA OutKept ==
  ASSUME OutInv, unlinked \subseteq unlinked', UNCHANGED outcome,
         Moved(tasks, tasks', WantedTasks(unlinked'))
  PROVE  OutInv'
<1>1. WantedTasks(unlinked) \subseteq WantedTasks(unlinked')
  BY DEF WantedTasks
<1>2. tasks' \in Seq(WantedTasks(unlinked'))
  BY <1>1, MovedIn DEF OutInv
<1> QED BY <1>2 DEF OutInv, CancelledOnlyIfUnlinked

(* A reply with the status of success carries the result of its transfer. *)
LEMMA OutReply ==
  ASSUME OutInv, TypeInv, PipeInv, HandleInv, OwnInv, RetsInv, TransfersInv, TokInv, urb_reply
  PROVE  OutInv'
<1> DEFINE s == Reply.seq
           g == Giveback(handles[s], urbOf[s], Reply.res)
<1>1. /\ CanRead /\ Reply.cmd = "RetSubmit" /\ parse_status(Reply.status) = "frame"
      /\ tasks' = Append(tasks, g) /\ UNCHANGED <<outcome, unlinked>> /\ Expected(s)
  BY DEF urb_reply
<1>2. Reply \in GoodRets(xfer) /\ Reply \in RetFrames(Seqnum)
  BY <1>1, QueueTake DEF CanRead, RetsInv, Reply, GoodRets
<1>3. Reply.status = "Success"
  BY <1>1 DEF parse_status
<1>4. s \in DOMAIN xfer /\ Reply.res = resultOf(xfer[s]).err
  BY <1>1, <1>2, <1>3 DEF GoodRets, GoodRet, Rets
<1>5. xfer[s] \in Transfer
  BY <1>4, MapValue DEF TypeInv, TypeOK, LendTypeOK
<1>6. Reply.res = "Cancelled" => xfer[s].res = "Cancelled"
  BY <1>4, <1>5 DEF resultOf, convert_libusb_to_proto, Ok, Reportable, Abortable, Transfer,
     RemoteKind, Asynchronous, Blocking, TransferStatus, RusbError
<1>7. Reply.res = "Cancelled" => urbOf[s] \in unlinked
  BY <1>4, <1>6 DEF TokInv, StoppedOnlyIfUnlinked
<1>8. g \in WantedTasks(unlinked)
  <2>1. handles[s] \in AnyHandle /\ urbOf[s] \in {0} \cup Urb
    BY <1>1, MapValue DEF Expected, TypeInv, TypeOK, BorrowTypeOK, HandlesKnown
  <2>2. Reply.res \in Outcome
    BY <1>2 DEF RetFrames, Outcome
  <2> QED BY <1>7, <2>1, <2>2 DEF WantedTasks, Giveback, Task
<1> HIDE DEF g
<1>9. Moved(tasks, tasks', WantedTasks(unlinked'))
  BY <1>1, <1>8 DEF Moved
<1> QED BY <1>1, <1>9, OutKept

LEMMA OutThread ==
  ASSUME OutInv, TypeInv, GivebackMatches, BlockingThread
  PROVE  OutInv'
<1>0. /\ tasks # <<>> /\ tasks' = Tail(tasks) /\ UNCHANGED unlinked
      /\ tasks \in Seq(Task) /\ IsMap(outcome, Urb, Outcome)
  BY DEF BlockingThread, RunGiveback, RunDisconnect, TypeInv, TypeOK, VhciTypeOK
<1>1. tasks' \in Seq(WantedTasks(unlinked))
  BY <1>0, QueueTake DEF OutInv
<1>2. CASE RunGiveback
  <2> DEFINE h == Head(tasks).h
  <2>1. /\ Head(tasks).op = "giveback"
        /\ IF h \in DOMAIN cur THEN outcome' = Insert(outcome, cur[h], Head(tasks).res)
                               ELSE UNCHANGED outcome
    BY <1>2 DEF RunGiveback
  <2>2. Head(tasks) = tasks[1] /\ 1 \in DOMAIN tasks /\ Head(tasks) \in WantedTasks(unlinked)
    BY <1>0, QueueTake DEF OutInv
  <2>3. h \in DOMAIN cur => cur[h] = Head(tasks).u
    BY <2>1, <2>2 DEF GivebackMatches
  <2>4. Head(tasks).res = "Cancelled" => Head(tasks).u \in unlinked
    BY <2>1, <2>2 DEF WantedTasks
  <2>5. CancelledOnlyIfUnlinked'
    BY <1>0, <2>1, <2>3, <2>4 DEF OutInv, CancelledOnlyIfUnlinked, Insert
  <2> QED BY <1>0, <1>1, <2>5 DEF OutInv
<1>3. CASE RunDisconnect
  <2>1. outcome' = [u \in DOMAIN outcome \cup {cur[h] : h \in DOMAIN cur} |->
                      IF u \in DOMAIN outcome THEN outcome[u] ELSE "Shutdown"]
    BY <1>3 DEF RunDisconnect
  <2>2. CancelledOnlyIfUnlinked'
    BY <1>0, <2>1 DEF OutInv, CancelledOnlyIfUnlinked
  <2> QED BY <1>0, <1>1, <2>2 DEF OutInv
<1> QED BY <1>2, <1>3 DEF BlockingThread

LEMMA OutStep ==
  ASSUME OutInv, BaseInv, MeaningInv, TokInv, [Next]_vars
  PROVE  OutInv'
<1>0. /\ TypeInv /\ PipeInv /\ HandleInv /\ OwnInv /\ RetsInv /\ TransfersInv
      /\ unlinked \subseteq unlinked' /\ GivebackMatches
  BY History, OwnGivebacks DEF BaseInv, MeaningInv, ResultsInv
<1>1. CASE UNCHANGED <<tasks, outcome>>
  BY <1>0, <1>1, OutKept DEF Moved
<1>2. CASE set_address
  <2> DEFINE w == Head(work)
             g == Giveback(w.h, w.u, "Success")
  <2>1. TakeWork("ProcessUrb") /\ tasks' = Append(tasks, g) /\ UNCHANGED <<outcome, unlinked>>
    BY <1>2 DEF set_address
  <2>2. w.h \in Handles /\ w.u \in Urb
    BY <1>0, <2>1, TakeWorkType DEF BorrowerInv, TypeInv, TypeOK
  <2>3. g \in WantedTasks(unlinked)
    BY <2>2 DEF WantedTasks, Giveback, Task, AnyHandle, Outcome
  <2> HIDE DEF g
  <2> QED BY <1>0, <2>1, <2>3, OutKept DEF Moved
<1>3. CASE SendJoined
  <2>1. tasks' = Append(tasks, Disconnect) /\ UNCHANGED <<outcome, unlinked>>
    BY <1>3 DEF SendJoined, mainUnchanged
  <2>2. Disconnect \in WantedTasks(unlinked)
    BY DEF WantedTasks, Disconnect, Task
  <2> QED BY <1>0, <2>1, <2>2, OutKept DEF Moved
<1>4. CASE Guest
  BY <1>1, <1>4 DEF Guest, Submit, Unlink, ResetPort
<1>5. CASE BorrowSend /\ ~set_address
  BY <1>1, <1>5 DEF BorrowSend, port_stat, process_urb, cancel_urb, FlushBuf, WriteFrame,
     FlushComplete, EndSendLoop, vhciVars
<1>6. CASE BorrowRecv
  BY <1>0, <1>1, <1>6, OutReply DEF BorrowRecv, device_reset, RecvPanic, EndRecvLoop, DrainRead,
     DrainEnd, vhciVars
<1>7. CASE (BorrowMain /\ ~SendJoined) \/ CancelBorrow \/ StreamStopped
  BY <1>1, <1>7 DEF BorrowMain, CancelBorrow, RecvJoined, RecvJoinPanic, Disconnected, mainUnchanged,
     StreamStopped, vhciVars
<1>8. CASE UNCHANGED vhciVars
  BY <1>1, <1>8 DEF vhciVars
<1> QED BY <1>0, <1>2, <1>3, <1>4, <1>5, <1>6, <1>7, <1>8, OutThread
     DEF Next, Borrower, Lender, vars

LEMMA InitOut == Init => OutInv
BY EmptyQueue, EmptyIsMap DEF Init, VhciInit, OutInv, CancelledOnlyIfUnlinked

(* A URB is returned to the guest as cancelled only if the guest unlinked it:
   neither a recycled token nor a reused handle or a late reply passes the
   cancellation of one URB on to another. *)
THEOREM CancelledWereUnlinked == Spec => []CancelledOnlyIfUnlinked
<1> DEFINE Inv == BaseInv /\ MeaningInv /\ TokInv /\ OutInv
<1>1. Init => Inv
  BY InitBase, InitMeaning, InitTok, InitOut
<1>2. Inv /\ [Next]_vars => Inv'
  BY BaseStep, MeaningStep, TokStep, OutStep DEF BaseInv, MeaningInv
<1>3. Inv => CancelledOnlyIfUnlinked
  BY DEF OutInv
<1> QED BY <1>1, <1>2, <1>3, PTL DEF Spec

-----------------------------------------------------------------------------
(* Commands that are on their way to the lender.  The numbers in un were drawn
   and not yet seen by the lender: a command has all of those below its own
   number in front of it. *)
Underway(l, f, b, s) == Has(l, Cmds, s) \/ Has(f, Cmds, s) \/ Has(b, Cmds, s)
InOrder(l, f, b, un) ==
  \A s \in un : \A e : s < e =>
    /\ Has(l, Cmds, e) => Has(l, Cmds, s)
    /\ Has(f, Cmds, e) => Has(l, Cmds, s) \/ Has(f, Cmds, s)
    /\ Has(b, Cmds, e) => Underway(l, f, b, s)

(* A command with the next number joins the buffer. *)
LEMMA OrderCmd ==
  ASSUME NEW l, NEW f, NEW b \in Seq(CmdFrames(Seqnum)), NEW un, InOrder(l, f, b, un),
         \A s \in un : Underway(l, f, b, s),
         NEW c, c.cmd \in Cmds, c.seq \in Nat,
         \A s : Underway(l, f, b, s) => s \in Nat /\ s < c.seq
  PROVE  /\ InOrder(l, f, Append(b, c), un \cup {c.seq})
         /\ \A s \in un \cup {c.seq} : Underway(l, f, Append(b, c), s)
<1>1. \A s : Has(Append(b, c), Cmds, s) <=> Has(b, Cmds, s) \/ c.seq = s
  BY HasPut
<1>2. \A s \in un \cup {c.seq} : Underway(l, f, Append(b, c), s)
  BY <1>1 DEF Underway
<1>3. ASSUME NEW s \in un \cup {c.seq}, NEW e, s < e
      PROVE  /\ Has(l, Cmds, e) => Has(l, Cmds, s)
             /\ Has(f, Cmds, e) => Has(l, Cmds, s) \/ Has(f, Cmds, s)
  BY <1>3 DEF InOrder, Underway
<1> QED BY <1>2, <1>3 DEF InOrder

(* Any other frame joins the buffer. *)
LEMMA OrderOther ==
  ASSUME NEW l, NEW f, NEW b \in Seq(CmdFrames(Seqnum)), NEW un, InOrder(l, f, b, un),
         NEW c, c.cmd \notin Cmds
  PROVE  /\ InOrder(l, f, Append(b, c), un)
         /\ \A s : Underway(l, f, b, s) => Underway(l, f, Append(b, c), s)
<1>1. \A s : Has(Append(b, c), Cmds, s) <=> Has(b, Cmds, s)
  BY HasPut
<1> QED BY <1>1 DEF InOrder, Underway

LEMMA OrderFlush ==
  ASSUME NEW l, NEW b, NEW un, InOrder(l, <<>>, b, un)
  PROVE  /\ InOrder(l, b, <<>>, un)
         /\ \A s : Underway(l, <<>>, b, s) => Underway(l, b, <<>>, s)
BY HasNone DEF InOrder, Underway

LEMMA OrderDrop ==
  ASSUME NEW l, NEW f, NEW b, NEW un, InOrder(l, f, b, un), NEW more,
         \A s \in more \ un : \A e : Has(l, Cmds, e) => ~(s < e)
  PROVE  InOrder(l, <<>>, <<>>, un \cup more)
BY HasNone DEF InOrder

LEMMA OrderWrite ==
  ASSUME NEW l, NEW f, NEW b, NEW un, InOrder(l, f, b, un), un \subseteq Nat,
         NEW sent, NEW known, CmdsOK(l, f, b, sent, known), f # <<>>
  PROVE  /\ InOrder(Append(l, Head(f)), Tail(f), b, un)
         /\ \A s : Underway(l, f, b, s) => Underway(Append(l, Head(f)), Tail(f), b, s)
<1> DEFINE h == Head(f)
           m == Append(l, h)
           g == Tail(f)
<1>0. h.seq \in Nat
  <2>1. h \in CmdFrames(Seqnum)
    BY QueueTake DEF CmdsOK
  <2> HIDE DEF h
  <2>2. h.seq \in Seqnum
    BY <2>1 DEF CmdFrames
  <2> QED BY <2>2, SeqnumNat
<1>1. \A s : Has(m, Cmds, s) <=> Has(l, Cmds, s) \/ (h.cmd \in Cmds /\ h.seq = s)
  BY HasPut DEF CmdsOK
<1>2. \A s : Has(f, Cmds, s) <=> Has(g, Cmds, s) \/ (h.cmd \in Cmds /\ h.seq = s)
  BY HasTake DEF CmdsOK
<1>3. h.cmd \in Cmds => \A s : Has(g, Cmds, s) => h.seq < s
  BY SortedTake DEF CmdsOK
<1> HIDE DEF h, m, g
<1>4. ASSUME NEW s \in un, NEW e, s < e, Has(m, Cmds, e)
      PROVE  Has(m, Cmds, s)
  <2>1. CASE Has(l, Cmds, e)
    BY <1>1, <1>4, <2>1 DEF InOrder
  <2>2. CASE h.cmd \in Cmds /\ h.seq = e
    <3>1. Has(l, Cmds, s) \/ Has(f, Cmds, s)
      BY <1>2, <1>4, <2>2 DEF InOrder
    <3>2. ~Has(g, Cmds, s)
      BY <1>0, <1>3, <1>4, <2>2
    <3> QED BY <1>1, <1>2, <3>1, <3>2
  <2> QED BY <1>1, <1>4, <2>1, <2>2
<1>5. ASSUME NEW s \in un, NEW e, s < e, Has(g, Cmds, e)
      PROVE  Has(m, Cmds, s) \/ Has(g, Cmds, s)
  BY <1>1, <1>2, <1>5 DEF InOrder
<1>6. \A s : Underway(l, f, b, s) <=> Underway(m, g, b, s)
  BY <1>1, <1>2 DEF Underway
<1>7. InOrder(m, g, b, un)
  BY <1>4, <1>5, <1>6 DEF InOrder
<1> QED BY <1>6, <1>7 DEF m, g, h

(* The lender takes the first frame: if it is a command, it is the one with
   the least number. *)
LEMMA OrderTake ==
  ASSUME NEW l, NEW f, NEW b, NEW un, InOrder(l, f, b, un), un \subseteq Nat,
         NEW sent, NEW known, CmdsOK(l, f, b, sent, known), l # <<>>
  PROVE  /\ Head(l).cmd \notin Cmds =>
              /\ InOrder(Tail(l), f, b, un)
              /\ \A s : Underway(l, f, b, s) => Underway(Tail(l), f, b, s)
         /\ Head(l).cmd \in Cmds =>
              /\ InOrder(Tail(l), f, b, un \ {Head(l).seq})
              /\ \A s : Underway(l, f, b, s) => Underway(Tail(l), f, b, s) \/ s = Head(l).seq
              /\ \A s \in un : ~(s < Head(l).seq)
<1> DEFINE h == Head(l)
           m == Tail(l)
<1>0. h.seq \in Nat
  <2>1. h \in CmdFrames(Seqnum)
    BY QueueTake DEF CmdsOK
  <2> HIDE DEF h
  <2>2. h.seq \in Seqnum
    BY <2>1 DEF CmdFrames
  <2> QED BY <2>2, SeqnumNat
<1>1. \A s : Has(l, Cmds, s) <=> Has(m, Cmds, s) \/ (h.cmd \in Cmds /\ h.seq = s)
  BY HasTake DEF CmdsOK
<1>2. h.cmd \in Cmds => \A s : Has(m, Cmds, s) => h.seq < s
  BY SortedTake DEF CmdsOK
<1> HIDE DEF h, m
<1>3. CASE h.cmd \notin Cmds
  BY <1>1, <1>3 DEF InOrder, Underway, h, m
<1>4. CASE h.cmd \in Cmds
  <2>1. InOrder(m, f, b, un \ {h.seq})
    BY <1>1, <1>4 DEF InOrder, Underway
  <2>2. \A s : Underway(l, f, b, s) => Underway(m, f, b, s) \/ s = h.seq
    BY <1>1, <1>4 DEF Underway
  <2>3. ASSUME NEW s \in un, s < h.seq
        PROVE  FALSE
    <3>1. Has(l, Cmds, s)
      BY <1>1, <1>4, <2>3 DEF InOrder
    <3> QED BY <1>0, <1>1, <1>2, <1>4, <2>3, <3>1
  <2> QED BY <1>4, <2>1, <2>2, <2>3 DEF h, m
<1> QED BY <1>3, <1>4

(* The link to the lender: what the lender has not seen is on its way, in the
   order of its numbers, as long as the lender reads and the borrower sends. *)
Unseen == DOMAIN urbOf \ DOMAIN xfer
Linked == lRecv = "run" /\ ~lost
SeenFirst == \A t \in DOMAIN xfer : \A s \in DOMAIN urbOf : s < t => s \in DOMAIN xfer
FlowInv ==
  /\ SeenFirst
  /\ Linked => InOrder(toL, bFlush, bBuf, Unseen)
  /\ Linked /\ Sending => \A s \in Unseen : Underway(toL, bFlush, bBuf, s)

LEMMA FlowKept ==
  ASSUME FlowInv, UNCHANGED <<toL, bFlush, bBuf, urbOf>>, DOMAIN xfer' = DOMAIN xfer,
         Linked' => Linked, Sending' => Sending
  PROVE  FlowInv'
<1>1. UNCHANGED Unseen
  BY DEF Unseen
<1> QED BY <1>1 DEF FlowInv, SeenFirst

LEMMA FlowCut ==
  ASSUME FlowInv, UNCHANGED urbOf, DOMAIN xfer' = DOMAIN xfer, ~Linked'
  PROVE  FlowInv'
BY DEF FlowInv, SeenFirst

LEMMA FlowEnds ==
  ASSUME FlowInv, UNCHANGED <<toL, urbOf, xfer, lRecv, lost>>, bFlush' = <<>>, bBuf' = <<>>, ~Sending'
  PROVE  FlowInv'
<1>1. UNCHANGED <<Unseen, Linked>>
  BY DEF Unseen, Linked
<1>2. Linked => InOrder(toL, <<>>, <<>>, Unseen)
  <2>1. Unseen \cup {} = Unseen
    OBVIOUS
  <2> QED BY <2>1, OrderDrop DEF FlowInv
<1> QED BY <1>1, <1>2 DEF FlowInv, SeenFirst

(* The send loop of the borrower. *)
LEMMA FlowBorrowSend ==
  ASSUME FlowInv, PipeInv, TypeInv, BuffersInv, BorrowSend, UNCHANGED lendVars
  PROVE  FlowInv'
<1>0. UNCHANGED <<xfer, lRecv, lost, Linked>>
  <2>1. UNCHANGED <<xfer, lRecv>>
    BY DEF lendVars
  <2>2. UNCHANGED lost
    BY DEF BorrowSend, port_stat, set_address, process_urb, cancel_urb, FlushBuf, WriteFrame,
       FlushComplete, EndSendLoop, sendUnchanged, streamVars, borrowDir
  <2> QED BY <2>1, <2>2 DEF Linked
<1>a. /\ bBuf \in Seq(CmdFrames(Seqnum)) /\ Unseen \subseteq Nat
      /\ \A s : Underway(toL, bFlush, bBuf, s) => s \in Nat /\ s \in DOMAIN handles
  <2>1. \A s : Underway(toL, bFlush, bBuf, s) => s \in DOMAIN handles
    BY DEF PipeInv, Commands, CmdsOK, Underway
  <2>2. DOMAIN handles \subseteq Seqnum /\ DOMAIN urbOf \subseteq Seqnum /\ bBuf \in Seq(CmdFrames(Seqnum))
    BY DEF TypeInv, TypeOK, BorrowTypeOK, IsMap
  <2> QED BY <2>1, <2>2, SeqnumNat DEF Unseen
<1>b. ASSUME NEW h, NEW u, nextSeqnum(h, u)
      PROVE  /\ SeenFirst' /\ Unseen' = Unseen \cup {curSeq} /\ curSeq \in Nat
             /\ \A s : Underway(toL, bFlush, bBuf, s) => s < curSeq
  <2>1. /\ curSeq \in Seqnum /\ \A t \in DOMAIN xfer : t < curSeq
        /\ \A s \in DOMAIN handles : s < curSeq
    BY <1>0, <1>b, NumberDrawn
  <2>2. DOMAIN urbOf' = DOMAIN urbOf \cup {curSeq}
    BY <1>b DEF nextSeqnum, Insert
  <2>3. curSeq \in Nat /\ DOMAIN xfer \subseteq Nat
    BY <2>1, SeqnumNat, SessionAssumption DEF TypeInv, TypeOK, LendTypeOK, IsMap
  <2>4. SeenFirst'
    BY <1>0, <2>1, <2>2, <2>3 DEF FlowInv, SeenFirst
  <2>5. curSeq \notin DOMAIN xfer
    BY <2>1, <2>3
  <2>6. Unseen' = Unseen \cup {curSeq}
    BY <1>0, <2>2, <2>5 DEF Unseen
  <2> QED BY <1>a, <2>1, <2>3, <2>4, <2>6
<1>1. ASSUME NEW h, NEW u, NEW k, nextSeqnum(h, u), NEW cmd \in Cmds, UNCHANGED <<toL, bFlush>>, Sending,
             bBuf' = Append(bBuf, CmdFrame(cmd, curSeq, k))
      PROVE  FlowInv'
  <2> DEFINE c == CmdFrame(cmd, curSeq, k)
  <2>2. c.cmd \in Cmds /\ c.seq = curSeq
    BY <1>1 DEF CmdFrame
  <2>3. bBuf' = Append(bBuf, c)
    BY <1>1
  <2> HIDE DEF c
  <2>4. ASSUME Linked
        PROVE  /\ InOrder(toL, bFlush, bBuf', Unseen')
               /\ \A s \in Unseen' : Underway(toL, bFlush, bBuf', s)
    <3>1. /\ InOrder(toL, bFlush, bBuf, Unseen)
          /\ \A s \in Unseen : Underway(toL, bFlush, bBuf, s)
      BY <1>1, <2>4 DEF FlowInv
    <3>2. /\ \A s : Underway(toL, bFlush, bBuf, s) => s \in Nat /\ s < c.seq
          /\ Unseen' = Unseen \cup {c.seq} /\ c.seq \in Nat
      BY <1>1, <1>a, <1>b, <2>2
    <3> QED BY <1>a, <2>2, <2>3, <3>1, <3>2, OrderCmd
  <2> QED BY <1>0, <1>1, <1>b, <2>4 DEF FlowInv
<1>2. CASE port_stat
  <2>1. Sending /\ UNCHANGED <<toL, bFlush>>
    BY <1>2 DEF port_stat, TakeWork, streamVars
  <2>2. CASE send_port_reset(Head(work).stat)
    <3>1. PICK h \in ResetHandles : nextSeqnum(h, 0)
      BY <1>2, <2>2 DEF port_stat
    <3>2. bBuf' = Append(bBuf, CmdFrame("CmdPort", curSeq, "none"))
      BY <1>2, <2>2 DEF port_stat
    <3> QED BY <1>1, <2>1, <3>1, <3>2 DEF Cmds
  <2>3. CASE ~send_port_reset(Head(work).stat)
    BY <1>0, <1>2, <2>1, <2>3, FlowKept DEF port_stat
  <2> QED BY <2>2, <2>3
<1>3. CASE set_address
  BY <1>0, <1>3, FlowKept DEF set_address, streamVars, TakeWork
<1>4. CASE process_urb
  <2> DEFINE w == Head(work)
  <2>1. /\ nextSeqnum(w.h, w.u) /\ UNCHANGED toL /\ Sending
        /\ \/ /\ bBuf' = Append(bBuf, CmdFrame("CmdSubmit", curSeq, urbs[w.u].kind))
              /\ UNCHANGED bFlush
           \/ bBuf' = <<>> /\ bFlush' = <<>> /\ bSend' = "closing"
    BY <1>4 DEF process_urb, endSendLoop, TakeWork
  <2>2. CASE bBuf' = Append(bBuf, CmdFrame("CmdSubmit", curSeq, urbs[w.u].kind)) /\ UNCHANGED bFlush
    BY <1>1, <2>1, <2>2 DEF Cmds
  <2>3. CASE bBuf' = <<>> /\ bFlush' = <<>> /\ bSend' = "closing"
    <3>1. ~Sending'
      BY <2>3 DEF Sending
    <3>2. SeenFirst' /\ Unseen' = Unseen \cup {curSeq} /\ curSeq \in Nat
      BY <1>b, <2>1
    <3>3. \A e : Has(toL, Cmds, e) => e \in Nat /\ e < curSeq
      BY <1>a, <1>b, <2>1 DEF Underway
    <3>4. Linked => InOrder(toL, <<>>, <<>>, Unseen')
      <4>1. \A s \in {curSeq} \ Unseen : \A e : Has(toL, Cmds, e) => ~(s < e)
        BY <3>2, <3>3
      <4> QED BY <3>2, <4>1, OrderDrop DEF FlowInv
    <3> QED BY <1>0, <2>1, <2>3, <3>1, <3>2, <3>4 DEF FlowInv
  <2> QED BY <2>1, <2>2, <2>3
<1>5. CASE cancel_urb
  <2>1. /\ UNCHANGED <<toL, bFlush, urbOf>> /\ Sending
        /\ \/ UNCHANGED bBuf
           \/ bBuf' = Append(bBuf, CmdFrame("CmdUnlink", seqnums[Head(work).h], "none"))
    BY <1>5 DEF cancel_urb, streamVars, TakeWork
  <2>2. CASE UNCHANGED bBuf
    BY <1>0, <2>1, <2>2, FlowKept
  <2>3. CASE bBuf' = Append(bBuf, CmdFrame("CmdUnlink", seqnums[Head(work).h], "none"))
    <3> DEFINE c == CmdFrame("CmdUnlink", seqnums[Head(work).h], "none")
    <3>1. c.cmd \notin Cmds
      BY DEF CmdFrame, Cmds
    <3>2. bBuf' = Append(bBuf, c)
      BY <2>3
    <3> HIDE DEF c
    <3>3. UNCHANGED Unseen
      BY <1>0, <2>1 DEF Unseen
    <3>4. ASSUME Linked
          PROVE  /\ InOrder(toL, bFlush, bBuf', Unseen)
                 /\ \A s : Underway(toL, bFlush, bBuf, s) => Underway(toL, bFlush, bBuf', s)
      BY <1>a, <3>1, <3>2, <3>4, OrderOther DEF FlowInv
    <3> QED BY <1>0, <2>1, <3>3, <3>4 DEF FlowInv, SeenFirst
  <2> QED BY <2>1, <2>2, <2>3
<1>6. CASE FlushBuf
  <2>1. /\ UNCHANGED <<urbOf, toL>> /\ bFlush = <<>> /\ bFlush' = bBuf /\ bBuf' = <<>> /\ Sending
    BY <1>6 DEF FlushBuf, sendUnchanged, flush_buf, streamVars, BuffersInv, Sending
  <2>2. UNCHANGED Unseen
    BY <1>0, <2>1 DEF Unseen
  <2>3. ASSUME Linked
        PROVE  /\ InOrder(toL, bFlush', bBuf', Unseen)
               /\ \A s : Underway(toL, bFlush, bBuf, s) => Underway(toL, bFlush', bBuf', s)
    BY <2>1, <2>3, OrderFlush DEF FlowInv
  <2> QED BY <1>0, <2>1, <2>2, <2>3 DEF FlowInv, SeenFirst
<1>7. CASE WriteFrame
  <2>1. /\ UNCHANGED <<urbOf, bBuf, bSend>> /\ bFlush # <<>>
        /\ toL' = Append(toL, Head(bFlush)) /\ bFlush' = Tail(bFlush)
    BY <1>7 DEF WriteFrame, sendUnchanged
  <2>2. UNCHANGED Unseen
    BY <1>0, <2>1 DEF Unseen
  <2>3. ASSUME Linked
        PROVE  /\ InOrder(toL', bFlush', bBuf, Unseen)
               /\ \A s : Underway(toL, bFlush, bBuf, s) => Underway(toL', bFlush', bBuf, s)
    BY <1>a, <2>1, <2>3, OrderWrite DEF FlowInv, PipeInv, Commands
  <2> QED BY <1>0, <2>1, <2>2, <2>3 DEF FlowInv, SeenFirst, Sending
<1>8. CASE FlushComplete
  BY <1>0, <1>8, FlowKept DEF FlushComplete, sendUnchanged, streamVars, Sending
<1>9. CASE EndSendLoop
  BY <1>0, <1>9, FlowEnds DEF EndSendLoop, endSendLoop, sendUnchanged, Sending
<1> QED BY <1>2, <1>3, <1>4, <1>5, <1>6, <1>7, <1>8, <1>9 DEF BorrowSend

(* The lender starts a transfer: it is the next one in order. *)
LEMMA FlowStarts ==
  ASSUME FlowInv, PipeInv, TypeInv, UNCHANGED <<vhciVars, borrowVars>>,
         new_transfer \/ blocking_request \/ port_reset
  PROVE  FlowInv'
<1> DEFINE s == Head(toL).seq
<1>1. /\ Linked /\ UNCHANGED <<bFlush, bBuf, bSend, urbOf, lRecv, lost>>
      /\ toL # <<>> /\ Head(toL).cmd \in Cmds /\ toL' = Tail(toL)
  BY DEF new_transfer, blocking_request, port_reset, TakeFrame, Running, recvKeeps, borrowVars, Cmds,
     Linked
<1>2. \E t : xfer' = Insert(xfer, s, t)
  BY DEF new_transfer, blocking_request, port_reset, register_cancel_token, start, Frame
<1>3. DOMAIN xfer' = DOMAIN xfer \cup {s}
  BY <1>2 DEF Insert
<1>4. Unseen' = Unseen \ {s} /\ Unseen \subseteq Nat
  <2>1. DOMAIN urbOf \subseteq Nat
    BY SeqnumNat DEF TypeInv, TypeOK, BorrowTypeOK, IsMap
  <2> QED BY <1>1, <1>3, <2>1 DEF Unseen
<1>5. /\ InOrder(Tail(toL), bFlush, bBuf, Unseen \ {s})
      /\ \A q : Underway(toL, bFlush, bBuf, q) => Underway(Tail(toL), bFlush, bBuf, q) \/ q = s
      /\ \A q \in Unseen : ~(q < s)
  BY <1>1, <1>4, OrderTake DEF FlowInv, PipeInv, Commands
<1> HIDE DEF s
<1>6. SeenFirst'
  BY <1>1, <1>3, <1>5 DEF FlowInv, SeenFirst, Unseen
<1>7. Sending' => \A q \in Unseen' : Underway(toL', bFlush', bBuf', q)
  BY <1>1, <1>4, <1>5 DEF FlowInv, Sending
<1> QED BY <1>1, <1>4, <1>5, <1>6, <1>7 DEF FlowInv

LEMMA FlowLendRecv ==
  ASSUME FlowInv, PipeInv, TypeInv, UNCHANGED <<vhciVars, borrowVars>>, LendRecv
  PROVE  FlowInv'
<1>0. UNCHANGED <<bFlush, bBuf, bSend, urbOf>> /\ UNCHANGED Sending
  <2>1. UNCHANGED <<bFlush, bBuf, bSend, urbOf>>
    BY DEF borrowVars
  <2> QED BY <2>1 DEF Sending
<1>1. CASE new_transfer \/ blocking_request \/ port_reset
  BY <1>1, FlowStarts
<1>2. CASE unlink_urb
  <2>1. /\ toL # <<>> /\ Head(toL).cmd \notin Cmds /\ toL' = Tail(toL) /\ UNCHANGED <<xfer, lRecv, lost>>
    BY <1>2 DEF unlink_urb, TakeFrame, recvKeeps, Cmds
  <2>2. UNCHANGED <<Unseen, Linked>> /\ Unseen \subseteq Nat
    BY <1>0, <2>1, SeqnumNat DEF Unseen, Linked, TypeInv, TypeOK, BorrowTypeOK, IsMap
  <2>3. ASSUME Linked
        PROVE  /\ InOrder(Tail(toL), bFlush, bBuf, Unseen)
               /\ \A s : Underway(toL, bFlush, bBuf, s) => Underway(Tail(toL), bFlush, bBuf, s)
    BY <2>1, <2>2, <2>3, OrderTake DEF FlowInv, PipeInv, Commands
  <2> QED BY <1>0, <2>1, <2>2, <2>3 DEF FlowInv, SeenFirst
<1>3. CASE \E s \in DOMAIN xfer : completed(s)
  <2>1. PICK s \in DOMAIN xfer : completed(s)
    BY <1>3
  <2>2. UNCHANGED <<toL, lRecv, lost>> /\ xfer' = StateSet(xfer, s, "gone")
    BY <2>1 DEF completed, recvKeeps, StateSet
  <2>3. DOMAIN xfer' = DOMAIN xfer
    BY <2>2 DEF StateSet
  <2> QED BY <1>0, <2>2, <2>3, FlowKept DEF Linked
<1>4. CASE sendResumes
  BY <1>0, <1>4, FlowKept DEF sendResumes, recvKeeps, Linked
<1>5. CASE endRecvLoop \/ \E s \in DOMAIN xfer : recvPanic(s)
  <2>1. dropHandler /\ lRecv' # "run"
    BY <1>5 DEF endRecvLoop, recvPanic
  <2>2. DOMAIN xfer' = DOMAIN xfer
    BY <2>1 DEF dropHandler
  <2> QED BY <1>0, <2>1, <2>2, FlowCut DEF Linked
<1>6. CASE drainRead \/ drainEnd
  BY <1>0, <1>6, FlowCut DEF drainRead, drainEnd, drainKeeps, Linked
<1> QED BY <1>1, <1>2, <1>3, <1>4, <1>5, <1>6, LendRecvCases

LEMMA FlowStep ==
  ASSUME FlowInv, PipeInv, TypeInv, BuffersInv, [Next]_vars
  PROVE  FlowInv'
<1>1. CASE Borrower(BorrowSend)
  BY <1>1, FlowBorrowSend DEF Borrower
<1>2. CASE Lender(LendRecv)
  BY <1>2, FlowLendRecv DEF Lender
<1>3. CASE ConnectionLost /\ UNCHANGED <<vhciVars, borrowVars, lendVars>>
  BY <1>3, FlowCut DEF ConnectionLost, Linked, borrowVars, lendVars
<1>4. CASE Lender(LendThread) \/ Lender(Device)
  <2>1. UNCHANGED <<bFlush, bBuf, bSend, urbOf, toL, lRecv, lost>>
    BY <1>4 DEF Lender, borrowVars, LendThread, Device, deviceDone, deviceKeeps, streamVars
  <2>2. DOMAIN xfer' = DOMAIN xfer
    BY <1>4 DEF Lender, LendThread, Device, deviceDone
  <2> QED BY <2>1, <2>2, FlowKept DEF Linked, Sending
<1>5. CASE BorrowMain /\ UNCHANGED lendVars
  <2>1. UNCHANGED <<toL, urbOf, xfer, lRecv, lost>>
    BY <1>5 DEF BorrowMain, RecvJoined, RecvJoinPanic, SendJoined, Disconnected, mainUnchanged,
       streamVars, lendVars
  <2>2. \/ UNCHANGED <<bFlush, bBuf, bSend>>
        \/ bFlush' = <<>> /\ bBuf' = <<>> /\ bSend' = "done"
    BY <1>5 DEF BorrowMain, RecvJoined, RecvJoinPanic, SendJoined, Disconnected
  <2>3. CASE UNCHANGED <<bFlush, bBuf, bSend>>
    BY <2>1, <2>3, FlowKept DEF Linked, Sending
  <2>4. CASE bFlush' = <<>> /\ bBuf' = <<>> /\ bSend' = "done"
    BY <2>1, <2>4, FlowEnds DEF Sending
  <2> QED BY <2>2, <2>3, <2>4
<1>6. CASE (Guest /\ UNCHANGED <<borrowVars, streamVars, lendVars>>) \/ UNCHANGED vars
  BY <1>6, FlowKept DEF borrowVars, streamVars, lendVars, vars, Linked, Sending
<1>7. CASE UNCHANGED lendVars /\ (BorrowRecv \/ StreamStopped \/ CancelBorrow \/ BlockingThread)
  <2>1. UNCHANGED <<toL, bFlush, bBuf, urbOf, lost>> /\ (UNCHANGED bSend \/ bSend' = "done")
    BY <1>7 DEF BorrowRecv, urb_reply, device_reset, RecvPanic, EndRecvLoop, DrainRead, DrainEnd,
       recvUnchanged, lendDir, StreamStopped, sendUnchanged, streamVars, CancelBorrow, mainUnchanged,
       BlockingThread, borrowVars
  <2> QED BY <1>7, <2>1, FlowKept DEF lendVars, Linked, Sending
<1>8. CASE Lender(LendSend) \/ Lender(lendStopped) \/ Lender(LendMain) \/ Lender(CancelLend)
  <2>1. UNCHANGED <<bFlush, bBuf, bSend, urbOf>>
    BY <1>8 DEF Lender, borrowVars
  <2>2. UNCHANGED <<toL, lost, lRecv, xfer>>
    BY <1>8, LendSendCases DEF Lender, lendStopped, LendMain, lendJoined, libusbJoined, CancelLend,
       lendMainKeeps, sendKeeps, streamVars, transferReplied, transferAborts, lendFlushBuf,
       lendWriteFrame, lendFlushComplete, lendEndSend, lendDir
  <2> QED BY <2>1, <2>2, FlowKept DEF Linked, Sending
<1> QED BY <1>1, <1>2, <1>3, <1>4, <1>5, <1>6, <1>7, <1>8 DEF Next, Borrower

LEMMA InitFlow == Init => FlowInv
<1> SUFFICES ASSUME Init PROVE FlowInv
  OBVIOUS
<1>1. DOMAIN urbOf = {} /\ DOMAIN xfer = {}
  BY DEF Init, BorrowInit, LendInit, EmptyMap
<1> QED BY <1>1 DEF FlowInv, SeenFirst, Unseen, InOrder

-----------------------------------------------------------------------------
(* Closures q of the blocking thread for transfers x: they are run in the
   order of their numbers, and a transfer that libusb has is not behind one
   that is still queued. *)
Submitted(v) == v.kind \in Asynchronous /\ v.st \in {"inflight", "ready"}
QueueOK(x, q) ==
  /\ \A i \in DOMAIN q : q[i] \in DOMAIN x
  /\ \A i, j \in DOMAIN q : i < j => q[i] < q[j]
  /\ \A s \in DOMAIN x : x[s].st = "queued" => \E i \in DOMAIN q : q[i] = s
  /\ \A t \in DOMAIN x : Submitted(x[t]) => \A i \in DOMAIN q : t <= q[i]

LEMMA QueueSpawn ==
  ASSUME NEW x, DOMAIN x \subseteq Nat, NEW q \in Seq(Nat), QueueOK(x, q), NEW s \in Nat,
         \A t \in DOMAIN x : t < s, NEW v, v.st = "queued", NEW y, Started(x, y, s, v)
  PROVE  QueueOK(y, Append(q, s))
<1> DEFINE p == Append(q, s)
<1>1. /\ DOMAIN p = 1..(Len(q) + 1) /\ DOMAIN q = 1..Len(q) /\ Len(q) \in Nat
      /\ \A i \in DOMAIN q : p[i] = q[i] /\ q[i] \in Nat
      /\ p[Len(q) + 1] = s
  OBVIOUS
<1>2. DOMAIN y = DOMAIN x \cup {s} /\ y[s] = v /\ \A t \in DOMAIN x : y[t] = x[t]
  BY DEF Started
<1> HIDE DEF p
<1>a. \A i \in DOMAIN p : i \in DOMAIN q \/ i = Len(q) + 1
  BY <1>1
<1>3. \A i \in DOMAIN p : p[i] \in DOMAIN y
  BY <1>1, <1>2, <1>a DEF QueueOK
<1>4. \A i, j \in DOMAIN p : i < j => p[i] < p[j]
  <2> SUFFICES ASSUME NEW i \in DOMAIN p, NEW j \in DOMAIN p, i < j PROVE p[i] < p[j]
    OBVIOUS
  <2>1. i \in DOMAIN q
    BY <1>1
  <2>2. q[i] < s
    BY <2>1 DEF QueueOK
  <2> QED BY <1>1, <1>a, <2>1, <2>2 DEF QueueOK
<1>5. \A t \in DOMAIN y : y[t].st = "queued" => \E i \in DOMAIN p : p[i] = t
  <2> SUFFICES ASSUME NEW t \in DOMAIN y, y[t].st = "queued" PROVE \E i \in DOMAIN p : p[i] = t
    OBVIOUS
  <2>1. CASE t = s
    BY <1>1, <2>1
  <2>2. CASE t \in DOMAIN x
    <3>1. PICK i \in DOMAIN q : q[i] = t
      BY <1>2, <2>2 DEF QueueOK
    <3> QED BY <1>1, <3>1
  <2> QED BY <1>2, <2>1, <2>2
<1>6. \A t \in DOMAIN y : Submitted(y[t]) => \A i \in DOMAIN p : t <= p[i]
  <2> SUFFICES ASSUME NEW t \in DOMAIN y, Submitted(y[t]), NEW i \in DOMAIN p PROVE t <= p[i]
    OBVIOUS
  <2>1. t \in DOMAIN x /\ Submitted(x[t])
    BY <1>2 DEF Submitted
  <2>2. CASE i \in DOMAIN q
    BY <1>1, <2>1, <2>2 DEF QueueOK
  <2>3. CASE i = Len(q) + 1
    BY <1>1, <2>1, <2>3
  <2> QED BY <1>a, <2>2, <2>3
<1> QED BY <1>3, <1>4, <1>5, <1>6 DEF QueueOK, p

(* Transfers that were neither queued nor submitted before, or that advance. *)
LEMMA QueueKept ==
  ASSUME NEW x, NEW q, QueueOK(x, q), NEW y, DOMAIN x \subseteq DOMAIN y,
         \A s \in DOMAIN y : y[s].st = "queued" => s \in DOMAIN x /\ x[s].st = "queued",
         \A s \in DOMAIN y : Submitted(y[s]) =>
           (s \in DOMAIN x /\ Submitted(x[s])) \/ \A i \in DOMAIN q : s <= q[i]
  PROVE  QueueOK(y, q)
BY DEF QueueOK

LEMMA QueueRun ==
  ASSUME NEW x, NEW q \in Seq(Nat), QueueOK(x, q), q # <<>>
  PROVE  /\ Head(q) \in DOMAIN x /\ \A i \in DOMAIN q : Head(q) <= q[i]
         /\ x[Head(q)].st # "queued" => QueueOK(x, Tail(q))
<1> DEFINE p == Tail(q)
<1>1. /\ DOMAIN q = 1..Len(q) /\ Len(q) \in Nat \ {0} /\ Head(q) = q[1] /\ 1 \in DOMAIN q
      /\ DOMAIN p = 1..(Len(q) - 1) /\ \A i \in DOMAIN p : p[i] = q[i + 1] /\ i + 1 \in DOMAIN q
      /\ \A i \in DOMAIN q : q[i] \in Nat
  OBVIOUS
<1> HIDE DEF p
<1>2. Head(q) \in DOMAIN x /\ \A i \in DOMAIN q : Head(q) <= q[i]
  BY <1>1 DEF QueueOK
<1>3. ASSUME x[Head(q)].st # "queued" PROVE QueueOK(x, p)
  <2>1. \A i \in DOMAIN p : p[i] \in DOMAIN x
    BY <1>1 DEF QueueOK
  <2>2. \A i, j \in DOMAIN p : i < j => p[i] < p[j]
    BY <1>1 DEF QueueOK
  <2>3. ASSUME NEW s \in DOMAIN x, x[s].st = "queued" PROVE \E i \in DOMAIN p : p[i] = s
    <3>1. PICK i \in DOMAIN q : q[i] = s
      BY <2>3 DEF QueueOK
    <3>2. i # 1
      BY <1>1, <1>3, <2>3, <3>1
    <3>3. i - 1 \in DOMAIN p /\ p[i - 1] = s
      BY <1>1, <3>1, <3>2
    <3> QED BY <3>3
  <2>4. \A t \in DOMAIN x : Submitted(x[t]) => \A i \in DOMAIN p : t <= p[i]
    BY <1>1 DEF QueueOK
  <2> QED BY <2>1, <2>2, <2>3, <2>4 DEF QueueOK
<1> QED BY <1>2, <1>3 DEF p

QueueInv == QueueOK(xfer, lTasks)

LEMMA TasksKept ==
  ASSUME TypeInv, PipeInv, [Next]_vars
  PROVE  \/ UNCHANGED lTasks
         \/ new_transfer
         \/ LendThread /\ UNCHANGED xfer /\ lTasks' = Tail(lTasks)
<1>1. CASE UNCHANGED lendVars
  BY <1>1 DEF lendVars
<1>2. CASE Lender(LendRecv)
  BY <1>2, LendRecvCases DEF Lender, blocking_request, port_reset, unlink_urb, completed,
     recvPanic, sendResumes, endRecvLoop, drainRead, drainEnd, drainKeeps, dropHandler
<1>3. CASE Lender(LendSend)
  BY <1>3, LendSendCases DEF Lender, transferReplied, transferAborts, lendFlushBuf, lendWriteFrame,
     lendFlushComplete, lendEndSend, sendKeeps
<1>4. CASE \/ Lender(LendThread) \/ Lender(Device) \/ Lender(lendStopped) \/ Lender(LendMain)
           \/ Lender(CancelLend)
  BY <1>4 DEF Lender, LendThread, Device, deviceDone, lendStopped, LendMain, lendJoined,
     libusbJoined, CancelLend, lendMainKeeps, sendKeeps
<1> QED BY <1>1, <1>2, <1>3, <1>4 DEF Next, Borrower, vars

LEMMA QueueStep ==
  ASSUME QueueInv, TypeInv, PipeInv, [Next]_vars
  PROVE  QueueInv'
<1>0. IsMap(xfer, LendSeqnum, Transfer) /\ DOMAIN xfer \subseteq Nat /\ lTasks \in Seq(Nat)
  <2>1. IsMap(xfer, LendSeqnum, Transfer) /\ lTasks \in Seq(LendSeqnum)
    BY DEF TypeInv, TypeOK, LendTypeOK
  <2>2. LendSeqnum \subseteq Nat
    BY SeqnumNat, SessionAssumption
  <2>3. DOMAIN xfer \subseteq LendSeqnum
    BY <2>1 DEF IsMap
  <2>4. lTasks \in Seq(Nat)
    BY <2>1, <2>2, Elements
  <2> QED BY <2>1, <2>2, <2>3, <2>4
<1>s. ASSUME new_transfer \/ blocking_request \/ port_reset
      PROVE  /\ Frame.seq \in Nat /\ \A t \in DOMAIN xfer : t < Frame.seq
             /\ \E v : /\ Started(xfer, xfer', Frame.seq, v)
                       /\ \/ v.st = "queued" /\ lTasks' = Append(lTasks, Frame.seq)
                          \/ v.st # "queued" /\ v.kind \notin Asynchronous /\ UNCHANGED lTasks
  <2> DEFINE s == Frame.seq
  <2>1. toL # <<>> /\ Head(toL).cmd \in Cmds
    BY <1>s DEF new_transfer, blocking_request, port_reset, TakeFrame, Cmds
  <2>2. Head(toL) \in CmdFrames(Seqnum) /\ Has(toL, Cmds, s)
    <3>1. Head(toL) \in CmdFrames(Seqnum)
      BY <2>1, QueueTake DEF TypeInv, TypeOK, StreamTypeOK
    <3>2. Has(toL, Cmds, s)
      BY <2>1, HasTake DEF TypeInv, TypeOK, StreamTypeOK, Frame
    <3> QED BY <3>1, <3>2
  <2>3. \A t \in DOMAIN xfer : t < s
    BY <2>2 DEF PipeInv, Commands, CmdsOK
  <2>4. s \in Nat
    <3>1. s \in Seqnum
      BY <2>2 DEF CmdFrames, Frame
    <3> QED BY <3>1, SeqnumNat
  <2>5. s \notin DOMAIN xfer
    BY <2>3, <2>4
  <2>6. \E v : /\ xfer' = Insert(xfer, s, v)
               /\ \/ v.st = "queued" /\ lTasks' = Append(lTasks, s)
                  \/ v.st # "queued" /\ v.kind \notin Asynchronous /\ UNCHANGED lTasks
    BY <1>s DEF new_transfer, blocking_request, port_reset, register_cancel_token, start,
       spawn_blocking, Asynchronous, Blocking
  <2> HIDE DEF s
  <2>7. PICK v : /\ xfer' = Insert(xfer, s, v)
                 /\ \/ v.st = "queued" /\ lTasks' = Append(lTasks, s)
                    \/ v.st # "queued" /\ v.kind \notin Asynchronous /\ UNCHANGED lTasks
    BY <2>6
  <2>8. Started(xfer, xfer', s, v)
    BY <2>5, <2>7, StartAdvances
  <2> QED BY <2>3, <2>4, <2>7, <2>8 DEF s
<1>1. CASE new_transfer \/ blocking_request \/ port_reset
  <2> DEFINE s == Frame.seq
  <2>1. PICK v : /\ Started(xfer, xfer', s, v)
                 /\ \/ v.st = "queued" /\ lTasks' = Append(lTasks, s)
                    \/ v.st # "queued" /\ v.kind \notin Asynchronous /\ UNCHANGED lTasks
    BY <1>1, <1>s
  <2>2. s \in Nat /\ \A t \in DOMAIN xfer : t < s
    BY <1>1, <1>s
  <2> HIDE DEF s
  <2>3. CASE v.st = "queued" /\ lTasks' = Append(lTasks, s)
    BY <1>0, <2>1, <2>2, <2>3, QueueSpawn DEF QueueInv
  <2>4. CASE v.st # "queued" /\ v.kind \notin Asynchronous /\ UNCHANGED lTasks
    <3>1. DOMAIN xfer' = DOMAIN xfer \cup {s} /\ xfer'[s] = v /\ \A t \in DOMAIN xfer : xfer'[t] = xfer[t]
      BY <2>1 DEF Started
    <3>2. ~Submitted(v)
      BY <2>4 DEF Submitted
    <3>3. QueueOK(xfer', lTasks)
      BY <2>4, <3>1, <3>2, QueueKept DEF QueueInv
    <3> QED BY <2>4, <3>3 DEF QueueInv
  <2> QED BY <2>1, <2>3, <2>4
<1>2. ASSUME UNCHANGED lTasks, DOMAIN xfer' = DOMAIN xfer,
             \A s \in DOMAIN xfer : xfer'[s].st = "queued" => xfer[s].st = "queued",
             \A s \in DOMAIN xfer : Submitted(xfer'[s]) =>
                Submitted(xfer[s]) \/ \A i \in DOMAIN lTasks : s <= lTasks[i]
      PROVE  QueueInv'
  <2>1. QueueOK(xfer', lTasks)
    BY <1>2, QueueKept DEF QueueInv
  <2> QED BY <1>2, <2>1 DEF QueueInv
<1>3. ASSUME NEW s \in DOMAIN xfer, completed(s)
      PROVE  QueueInv'
  <2>1. xfer' = StateSet(xfer, s, "gone") /\ UNCHANGED lTasks
    BY <1>3 DEF completed, StateSet
  <2>2. Others(xfer, xfer', s) /\ xfer'[s].st = "gone"
    BY <1>0, <2>1, StateAdvances
  <2> QED BY <1>2, <2>1, <2>2 DEF Others, Submitted
<1>4. CASE dropHandler
  <2>1. xfer' = AllGone(xfer) /\ UNCHANGED lTasks
    BY <1>4 DEF dropHandler, AllGone
  <2>2. DOMAIN xfer' = DOMAIN xfer /\ \A s \in DOMAIN xfer : xfer'[s].st = "gone"
    BY <1>0, <2>1, DropAdvances
  <2> QED BY <1>2, <2>1, <2>2 DEF Submitted
<1>5. CASE LendThread
  <2> DEFINE h == Head(lTasks)
  <2>1. lTasks # <<>>
    BY <1>5 DEF LendThread
  <2>2. /\ h \in DOMAIN xfer /\ \A i \in DOMAIN lTasks : h <= lTasks[i]
        /\ xfer[h].st # "queued" => QueueOK(xfer, Tail(lTasks))
    BY <1>0, <2>1, QueueRun DEF QueueInv
  <2>3. CASE xfer[h].st = "queued"
    <3>1. xfer' = StateSet(xfer, h, "inflight") /\ UNCHANGED lTasks
      BY <1>5, <2>3 DEF LendThread, StateSet
    <3> HIDE DEF h
    <3>2. Others(xfer, xfer', h) /\ xfer'[h].st = "inflight"
      BY <1>0, <2>2, <3>1, StateAdvances
    <3> QED BY <1>2, <2>2, <3>1, <3>2 DEF Others
  <2>4. CASE xfer[h].st # "queued"
    BY <1>5, <2>2, <2>4 DEF LendThread, QueueInv
  <2> QED BY <2>3, <2>4
<1>6. CASE Device
  <2>1. PICK s \in DOMAIN xfer, r \in TransferStatus \cup RusbError : deviceDone(s, r)
    BY <1>6 DEF Device
  <2>2. xfer' = ResultSet(xfer, s, r) /\ UNCHANGED lTasks /\ xfer[s].st = "inflight"
    BY <2>1 DEF deviceDone, ResultSet
  <2>3. DOMAIN xfer' = DOMAIN xfer /\ xfer'[s].st = "ready" /\ xfer'[s].kind = xfer[s].kind
    BY <1>0, <2>2 DEF ResultSet, IsMap, Transfer
  <2>4. \A t \in DOMAIN xfer : t # s => xfer'[t] = xfer[t]
    BY <1>0, <2>2 DEF ResultSet, IsMap
  <2>5. Submitted(xfer'[s]) => Submitted(xfer[s])
    BY <2>2, <2>3 DEF Submitted
  <2> QED BY <1>2, <2>2, <2>3, <2>4, <2>5
<1>7. CASE UNCHANGED xfer
  BY <1>0, <1>1, <1>5, <1>7, TasksKept DEF QueueInv
<1> QED BY <1>1, <1>3, <1>4, <1>5, <1>6, <1>7, XferCases

LEMMA InitQueue == Init => QueueInv
<1> SUFFICES ASSUME Init PROVE QueueInv
  OBVIOUS
<1>1. DOMAIN xfer = {} /\ lTasks = <<>>
  BY DEF Init, LendInit, EmptyMap
<1> QED BY <1>1 DEF QueueInv, QueueOK

(* SubmittedInOrder: process_urb and the reset draw numbers in the order of
   the work items, send buffer, stream and blocking thread are FIFO, so a
   transfer reaches libusb after all that the guest submitted before it. *)
THEOREM TransfersInOrder == Spec => []SubmittedInOrder
<1> DEFINE Inv == BaseInv /\ FlowInv /\ QueueInv
<1>1. Init => Inv
  BY InitBase, InitFlow, InitQueue
<1>2. Inv /\ [Next]_vars => Inv'
  BY BaseStep, FlowStep, QueueStep DEF BaseInv
<1>3. Inv => SubmittedInOrder
  <2> SUFFICES ASSUME Inv, NEW t \in DOMAIN xfer, NEW s \in DOMAIN urbOf, s < t
               PROVE  s \in DOMAIN xfer /\ (Submitted(xfer[t]) => xfer[s].st # "queued")
    BY DEF SubmittedInOrder, Submitted
  <2>1. s \in DOMAIN xfer
    BY DEF FlowInv, SeenFirst
  <2>2. s \in Nat /\ t \in Nat
    BY SeqnumNat, SessionAssumption DEF BaseInv, TypeInv, TypeOK, LendTypeOK, BorrowTypeOK, IsMap
  <2>3. ASSUME Submitted(xfer[t]), xfer[s].st = "queued" PROVE FALSE
    <3>1. PICK i \in DOMAIN lTasks : lTasks[i] = s
      BY <2>1, <2>3 DEF QueueInv, QueueOK
    <3>2. t <= s
      BY <2>3, <3>1 DEF QueueInv, QueueOK
    <3> QED BY <2>2, <3>2
  <2> QED BY <2>1, <2>3
<1> QED BY <1>1, <1>2, <1>3, PTL DEF Spec

-----------------------------------------------------------------------------
(* A queue q of work items, of which e enters at the end or the first leaves:
   which of its items are equal to w. *)
LEMMA ItemPut ==
  ASSUME NEW S, NEW q \in Seq(S), NEW e
  PROVE  /\ Append(q, e)[Len(q) + 1] = e /\ Len(q) + 1 \in DOMAIN Append(q, e)
         /\ \A i \in DOMAIN q : i \in DOMAIN Append(q, e) /\ Append(q, e)[i] = q[i] /\ i < Len(q) + 1
         /\ \A i \in DOMAIN Append(q, e) : i \in DOMAIN q \/ i = Len(q) + 1
OBVIOUS

LEMMA ItemTake ==
  ASSUME NEW S, NEW q \in Seq(S), q # <<>>
  PROVE  /\ 1 \in DOMAIN q /\ Head(q) = q[1]
         /\ \A i \in DOMAIN Tail(q) : /\ i \in Nat /\ i >= 1 /\ i + 1 \in DOMAIN q
                                      /\ Tail(q)[i] = q[i + 1]
         /\ \A i \in DOMAIN q : /\ i \in Nat /\ i >= 1
                                /\ i # 1 => i - 1 \in DOMAIN Tail(q) /\ Tail(q)[i - 1] = q[i]
OBVIOUS

(* Work items whose port status is one the controller reports. *)
KnownWork == {w \in Work : w.op = "PortStat" => w.stat \in {Connected, Resetting, ResetDone}}
Holds(q, w) == \E i \in DOMAIN q : q[i] = w
OnlyOnce(q, w) == \A i, j \in DOMAIN q : q[i] = w /\ q[j] = w => i = j
ResetAsked(q) == Holds(q, PortStat(Resetting))

LEMMA HoldsPut ==
  ASSUME NEW S, NEW q \in Seq(S), NEW e, NEW w
  PROVE  /\ Holds(Append(q, e), w) <=> Holds(q, w) \/ e = w
         /\ OnlyOnce(q, w) /\ (Holds(q, w) => e # w) => OnlyOnce(Append(q, e), w)
<1>1. Holds(Append(q, e), w) <=> Holds(q, w) \/ e = w
  BY ItemPut DEF Holds
<1>2. ASSUME OnlyOnce(q, w), Holds(q, w) => e # w PROVE OnlyOnce(Append(q, e), w)
  <2> SUFFICES ASSUME NEW i \in DOMAIN Append(q, e), NEW j \in DOMAIN Append(q, e),
                      Append(q, e)[i] = w, Append(q, e)[j] = w
               PROVE  i = j
    BY DEF OnlyOnce
  <2>1. CASE i \in DOMAIN q /\ j \in DOMAIN q
    BY <1>2, <2>1, ItemPut DEF OnlyOnce
  <2>2. CASE i = Len(q) + 1 /\ j \in DOMAIN q
    BY <1>2, <2>2, ItemPut DEF Holds
  <2>3. CASE j = Len(q) + 1 /\ i \in DOMAIN q
    BY <1>2, <2>3, ItemPut DEF Holds
  <2>4. (i \in DOMAIN q \/ i = Len(q) + 1) /\ (j \in DOMAIN q \/ j = Len(q) + 1)
    BY ItemPut
  <2> QED BY <2>1, <2>2, <2>3, <2>4
<1> QED BY <1>1, <1>2

LEMMA HoldsTake ==
  ASSUME NEW S, NEW q \in Seq(S), q # <<>>, NEW w
  PROVE  /\ Holds(q, w) <=> Holds(Tail(q), w) \/ Head(q) = w
         /\ OnlyOnce(q, w) => OnlyOnce(Tail(q), w) /\ (Head(q) = w => ~Holds(Tail(q), w))
<1>1. Holds(Tail(q), w) \/ Head(q) = w => Holds(q, w)
  BY ItemTake DEF Holds
<1>2. ASSUME Holds(q, w), Head(q) # w PROVE Holds(Tail(q), w)
  <2>1. PICK i \in DOMAIN q : q[i] = w
    BY <1>2 DEF Holds
  <2>2. i # 1
    BY <1>2, <2>1, ItemTake
  <2>3. i - 1 \in DOMAIN Tail(q) /\ Tail(q)[i - 1] = w
    BY <2>1, <2>2, ItemTake
  <2> QED BY <2>3 DEF Holds
<1>3. ASSUME OnlyOnce(q, w) PROVE OnlyOnce(Tail(q), w) /\ (Head(q) = w => ~Holds(Tail(q), w))
  <2>1. ASSUME NEW i \in DOMAIN Tail(q), NEW j \in DOMAIN Tail(q), Tail(q)[i] = w, Tail(q)[j] = w
        PROVE  i = j
    <3>1. i \in Nat /\ j \in Nat /\ i + 1 = j + 1
      BY <1>3, <2>1, ItemTake DEF OnlyOnce
    <3> QED BY <3>1
  <2>2. ASSUME Head(q) = w, NEW i \in DOMAIN Tail(q), Tail(q)[i] = w PROVE FALSE
    <3>1. i \in Nat /\ i >= 1 /\ i + 1 = 1
      BY <1>3, <2>2, ItemTake DEF OnlyOnce
    <3> QED BY <3>1
  <2> QED BY <2>1, <2>2 DEF OnlyOnce, Holds
<1> QED BY <1>1, <1>2, <1>3

(* What the borrower reads out of the three port status reports. *)
LEMMA StatsTell ==
  /\ \A stat \in {Connected, Resetting, ResetDone} :
       /\ address_invalidated(stat) <=> stat = Connected
       /\ reset_successful(stat) <=> stat = ResetDone
       /\ send_port_reset(stat) => stat = Resetting
  /\ Connected # Resetting /\ Connected # ResetDone /\ Resetting # ResetDone
  /\ {Connected, Resetting, ResetDone} \subseteq SUBSET PortFlag
<1>1. /\ "C_CONNECTION" \in Connected /\ "C_CONNECTION" \notin Resetting
      /\ "C_CONNECTION" \notin ResetDone
      /\ "C_RESET" \notin Connected /\ "C_RESET" \notin Resetting /\ "C_RESET" \in ResetDone
      /\ "RESET" \notin ResetDone /\ "ENABLE" \in ResetDone
      /\ "RESET" \notin Connected
  BY DEF Connected, Resetting, ResetDone
<1>2. Connected # Resetting /\ Connected # ResetDone /\ Resetting # ResetDone
  BY <1>1
<1>3. \A stat \in {Connected, Resetting, ResetDone} : address_invalidated(stat) <=> stat = Connected
  BY <1>1 DEF address_invalidated
<1>4. \A stat \in {Connected, Resetting, ResetDone} : reset_successful(stat) <=> stat = ResetDone
  BY <1>1 DEF reset_successful
<1>5. \A stat \in {Connected, Resetting, ResetDone} : send_port_reset(stat) => stat = Resetting
  BY <1>3, <1>4 DEF send_port_reset
<1>6. {Connected, Resetting, ResetDone} \subseteq SUBSET PortFlag
  BY DEF Connected, Resetting, ResetDone, PortFlag
<1> QED BY <1>2, <1>3, <1>4, <1>5, <1>6

LEMMA ItemsDiffer ==
  /\ \A s, t : PortStat(s) = PortStat(t) <=> s = t
  /\ \A s, h, u, a : PortStat(s) # ProcessUrb(h, u, a) /\ PortStat(s) # CancelUrb(h)
  /\ \A w \in KnownWork : w.op = "PortStat" => w = PortStat(w.stat)
  /\ \A s \in {Connected, Resetting, ResetDone} : PortStat(s) \in KnownWork
<1>1. \A s, t : PortStat(s) = PortStat(t) <=> s = t
  BY DEF PortStat
<1>2. ASSUME NEW s, NEW h, NEW u, NEW a PROVE PortStat(s) # ProcessUrb(h, u, a) /\ PortStat(s) # CancelUrb(h)
  <2>1. PortStat(s).op = "PortStat" /\ ProcessUrb(h, u, a).op = "ProcessUrb" /\ CancelUrb(h).op = "CancelUrb"
    BY DEF PortStat, ProcessUrb, CancelUrb
  <2> QED BY <2>1
<1>3. ASSUME NEW w \in KnownWork, w.op = "PortStat" PROVE w = PortStat(w.stat)
  <2>1. w \in [op : {"PortStat"}, stat : SUBSET PortFlag]
    BY <1>3 DEF KnownWork, Work
  <2> QED BY <2>1 DEF PortStat
<1>4. \A s \in {Connected, Resetting, ResetDone} : PortStat(s) \in KnownWork
  BY StatsTell DEF PortStat, KnownWork, Work
<1> QED BY <1>1, <1>2, <1>3, <1>4

-----------------------------------------------------------------------------
(* Sequence numbers of resets that wait for their reply. *)
ResetsIn(hs, uo) == {s \in DOMAIN hs : uo[s] = 0}
Resets == ResetsIn(handles, urbOf)

(* One reset at a time: either the report that starts it is still in the work
   queue, or its command waits for the reply; and the port is being reset. *)
ResetInv ==
  /\ work \in Seq(KnownWork)
  /\ OnlyOnce(work, PortStat(Resetting))
  /\ ResetAsked(work) => Resets = {}
  /\ \A s, t \in Resets : s = t
  /\ ResetAsked(work) \/ Resets # {} => port \in {"resetting", "gone"}

LEMMA ResetKept ==
  ASSUME ResetInv, UNCHANGED port \/ port' = "gone", Resets' \subseteq Resets,
         \/ UNCHANGED work
         \/ work # <<>> /\ work' = Tail(work)
         \/ \E e \in KnownWork : work' = Append(work, e) /\ e # PortStat(Resetting)
  PROVE  ResetInv'
<1>1. work' \in Seq(KnownWork)
  BY QueuePut, QueueTake DEF ResetInv
<1>2. OnlyOnce(work', PortStat(Resetting)) /\ (ResetAsked(work') => ResetAsked(work))
  <2>1. CASE UNCHANGED work
    BY <2>1 DEF ResetInv
  <2>2. CASE work # <<>> /\ work' = Tail(work)
    BY <2>2, HoldsTake DEF ResetInv, ResetAsked
  <2>3. CASE \E e \in KnownWork : work' = Append(work, e) /\ e # PortStat(Resetting)
    BY <2>3, HoldsPut DEF ResetInv, ResetAsked
  <2> QED BY <2>1, <2>2, <2>3
<1> QED BY <1>1, <1>2 DEF ResetInv

(* The guest. *)
LEMMA ResetGuest ==
  ASSUME ResetInv, TypeInv, Guest, UNCHANGED borrowVars
  PROVE  ResetInv'
<1>0. UNCHANGED Resets
  BY DEF Resets, borrowVars
<1>1. ASSUME NEW h \in Handles, NEW shape \in Shapes, Submit(h, shape)
      PROVE  ResetInv'
  <2> DEFINE e == ProcessUrb(h, Len(urbs) + 1, kaddr)
  <2>1. work' = Append(work, e) /\ UNCHANGED port
    BY <1>1 DEF Submit
  <2>2. e \in KnownWork
    <3>1. Len(urbs) + 1 \in Urb /\ kaddr \in {0, 1}
      BY <1>1, VhciAssumption DEF Submit, TypeInv, TypeOK, VhciTypeOK, Urb
    <3>2. e \in [op : {"ProcessUrb"}, h : Handles, u : Urb, addr : {0, 1}] /\ e.op = "ProcessUrb"
      BY <3>1 DEF ProcessUrb
    <3> HIDE DEF e
    <3> QED BY <3>2 DEF KnownWork, Work
  <2>3. e # PortStat(Resetting)
    BY ItemsDiffer
  <2> HIDE DEF e
  <2> QED BY <1>0, <2>1, <2>2, <2>3, ResetKept
<1>2. ASSUME NEW h \in Handles, Unlink(h)
      PROVE  ResetInv'
  <2>1. work' = Append(work, CancelUrb(h)) /\ UNCHANGED port
    BY <1>2 DEF Unlink
  <2>2. CancelUrb(h) \in KnownWork
    BY DEF CancelUrb, KnownWork, Work
  <2>3. CancelUrb(h) # PortStat(Resetting)
    BY ItemsDiffer
  <2> QED BY <1>0, <2>1, <2>2, <2>3, ResetKept
<1>3. CASE ResetPort
  <2>1. work' = Append(work, PortStat(Resetting)) /\ port' = "resetting" /\ port \notin {"resetting", "gone"}
    BY <1>3 DEF ResetPort
  <2>2. ~ResetAsked(work) /\ Resets = {} /\ work \in Seq(KnownWork) /\ OnlyOnce(work, PortStat(Resetting))
    BY <2>1 DEF ResetInv
  <2>3. OnlyOnce(work', PortStat(Resetting))
    BY <2>1, <2>2, HoldsPut DEF ResetAsked
  <2>4. work' \in Seq(KnownWork)
    BY <2>1, <2>2, ItemsDiffer, QueuePut
  <2> QED BY <1>0, <2>1, <2>2, <2>3, <2>4 DEF ResetInv
<1> QED BY <1>1, <1>2, <1>3 DEF Guest

(* Drawing a number for u adds it to the resets only if u is none. *)
LEMMA ResetsDrawn ==
  ASSUME PipeInv, TypeInv, NEW h, NEW u, nextSeqnum(h, u)
  PROVE  Resets' = IF u = 0 THEN Resets \cup {curSeq} ELSE Resets
<1>1. curSeq \notin DOMAIN urbOf /\ DOMAIN handles \subseteq DOMAIN urbOf
  <2>1. \A s \in DOMAIN urbOf : s < curSeq
    BY DEF PipeInv, Numbers
  <2>2. curSeq \in Nat
    BY BorrowAssumption DEF TypeInv, TypeOK, BorrowTypeOK
  <2> QED BY <2>1, <2>2 DEF TypeInv, HandlesKnown
<1>2. handles' = Insert(handles, curSeq, h) /\ urbOf' = Insert(urbOf, curSeq, u)
  BY DEF nextSeqnum
<1> QED BY <1>1, <1>2 DEF Resets, ResetsIn, Insert

LEMMA ResetBorrowSend ==
  ASSUME ResetInv, PipeInv, TypeInv, BorrowSend
  PROVE  ResetInv'
<1>0. UNCHANGED port
  BY DEF BorrowSend, port_stat, set_address, process_urb, cancel_urb, FlushBuf, WriteFrame,
     FlushComplete, EndSendLoop, vhciVars
<1>1. CASE port_stat
  <2>1. work # <<>> /\ Head(work).op = "PortStat" /\ work' = Tail(work)
    BY <1>1 DEF port_stat, TakeWork
  <2>2. Head(work) \in KnownWork /\ work \in Seq(KnownWork)
    BY <2>1, QueueTake DEF ResetInv
  <2>3. CASE send_port_reset(Head(work).stat)
    <3>1. Head(work) = PortStat(Resetting)
      BY <2>1, <2>2, <2>3, StatsTell, ItemsDiffer DEF KnownWork
    <3>2. ~ResetAsked(Tail(work)) /\ Resets = {} /\ port \in {"resetting", "gone"}
          /\ OnlyOnce(Tail(work), PortStat(Resetting))
      BY <2>1, <2>2, <3>1, HoldsTake DEF ResetInv, ResetAsked
    <3>3. PICK h \in ResetHandles : nextSeqnum(h, 0)
      BY <1>1, <2>3 DEF port_stat
    <3>4. Resets' = {curSeq}
      BY <3>2, <3>3, ResetsDrawn
    <3>5. work' \in Seq(KnownWork)
      BY <2>1, <2>2, QueueTake
    <3> QED BY <1>0, <2>1, <3>2, <3>4, <3>5 DEF ResetInv
  <2>4. CASE ~send_port_reset(Head(work).stat)
    <3>1. UNCHANGED Resets
      BY <1>1, <2>4 DEF port_stat, Resets
    <3> QED BY <1>0, <2>1, <3>1, ResetKept
  <2> QED BY <2>3, <2>4
<1>2. CASE process_urb
  <2>1. work # <<>> /\ work' = Tail(work) /\ nextSeqnum(Head(work).h, Head(work).u)
    BY <1>2 DEF process_urb, TakeWork
  <2>2. Head(work).u # 0
    <3>1. Head(work).u \in Urb
      BY <1>2, TakeWorkType DEF process_urb, BorrowerInv, TypeInv, TypeOK
    <3> QED BY <3>1 DEF Urb
  <2>3. UNCHANGED Resets
    BY <2>1, <2>2, ResetsDrawn
  <2> QED BY <1>0, <2>1, <2>3, ResetKept
<1>3. CASE set_address \/ cancel_urb
  BY <1>0, <1>3, ResetKept DEF set_address, cancel_urb, TakeWork, Resets
<1>4. CASE FlushBuf \/ WriteFrame \/ FlushComplete \/ EndSendLoop
  BY <1>0, <1>4, ResetKept DEF FlushBuf, WriteFrame, FlushComplete, EndSendLoop, sendUnchanged,
     vhciVars, Resets
<1> QED BY <1>1, <1>2, <1>3, <1>4 DEF BorrowSend

(* The reply to a reset ends the one that is under way. *)
LEMMA ReplyToReset ==
  ASSUME ResetInv, OrderInv, TypeInv, PipeInv, RetsInv, TransfersInv, OwnInv, HandleInv,
         CanRead, Reply.cmd = "RetPort"
  PROVE  Reply.seq \in Resets /\ port = "resetting" /\ ~ResetAsked(work)
<1>1. Reply.seq \in Resets
  BY ReplyKinds DEF Rets, Resets, ResetsIn
<1>2. port # "gone"
  BY DEF OrderInv, Unplugging, CanRead
<1> QED BY <1>1, <1>2 DEF ResetInv

LEMMA ResetBorrowRecv ==
  ASSUME ResetInv, OrderInv, TypeInv, PipeInv, RetsInv, TransfersInv, OwnInv, HandleInv, BorrowRecv
  PROVE  ResetInv'
<1>1. CASE device_reset
  <2>1. /\ CanRead /\ Reply.cmd = "RetPort" /\ handles' = Remove(handles, Reply.seq) /\ UNCHANGED urbOf
        /\ port' = "enabled" /\ work' = Append(work, PortStat(ResetDone))
    BY <1>1 DEF device_reset, forget, recvUnchanged, PortResetDone
  <2>2. Reply.seq \in Resets /\ ~ResetAsked(work)
    BY <2>1, ReplyToReset
  <2>3. Resets' = {}
    BY <2>1, <2>2 DEF Resets, ResetsIn, Remove, ResetInv
  <2>4. PortStat(ResetDone) # PortStat(Resetting) /\ PortStat(ResetDone) \in KnownWork
    BY ItemsDiffer, StatsTell
  <2>5. ~ResetAsked(work') /\ OnlyOnce(work', PortStat(Resetting)) /\ work' \in Seq(KnownWork)
    BY <2>1, <2>2, <2>4, HoldsPut, QueuePut DEF ResetInv, ResetAsked
  <2> QED BY <2>3, <2>5 DEF ResetInv
<1>2. CASE urb_reply
  <2>1. UNCHANGED <<port, work, urbOf>> /\ handles' = Remove(handles, Reply.seq)
    BY <1>2 DEF urb_reply, forget, recvUnchanged
  <2>2. Resets' \subseteq Resets
    BY <2>1 DEF Resets, ResetsIn, Remove
  <2> QED BY <2>1, <2>2, ResetKept
<1>3. CASE RecvPanic \/ EndRecvLoop \/ DrainRead \/ DrainEnd
  BY <1>3, ResetKept DEF RecvPanic, EndRecvLoop, DrainRead, DrainEnd, recvUnchanged, vhciVars, Resets
<1> QED BY <1>1, <1>2, <1>3 DEF BorrowRecv

LEMMA ResetStep ==
  ASSUME ResetInv, BaseInv, MeaningInv, [Next]_vars
  PROVE  ResetInv'
<1> USE DEF BaseInv, MeaningInv, ResultsInv
<1>1. CASE Guest /\ UNCHANGED <<borrowVars, streamVars, lendVars>>
  BY <1>1, ResetGuest
<1>2. CASE Borrower(BorrowSend)
  BY <1>2, ResetBorrowSend DEF Borrower
<1>3. CASE Borrower(BorrowRecv)
  BY <1>3, ResetBorrowRecv DEF Borrower
<1>4. CASE BorrowMain \/ CancelBorrow \/ BlockingThread \/ StreamStopped
  BY <1>4, ResetKept DEF BorrowMain, RecvJoined, RecvJoinPanic, SendJoined, Disconnected, CancelBorrow,
     mainUnchanged, BlockingThread, RunGiveback, RunDisconnect, borrowVars, StreamStopped, sendUnchanged,
     vhciVars, Resets
<1>5. CASE UNCHANGED <<vhciVars, borrowVars>>
  BY <1>5, ResetKept DEF vhciVars, borrowVars, Resets
<1> QED BY <1>1, <1>2, <1>3, <1>4, <1>5 DEF Next, Borrower, Lender, vars

LEMMA InitReset == Init => ResetInv
<1> SUFFICES ASSUME Init PROVE ResetInv
  OBVIOUS
<1>1. work = <<PortStat(Connected)>> /\ DOMAIN handles = {}
  BY DEF Init, VhciInit, BorrowInit, EmptyMap
<1>2. PortStat(Connected) \in KnownWork /\ PortStat(Connected) # PortStat(Resetting)
  BY ItemsDiffer, StatsTell
<1> QED BY <1>1, <1>2 DEF ResetInv, OnlyOnce, ResetAsked, Holds, Resets, ResetsIn

(* ResetDoneInTime: device_reset calls port_reset_done for a port that is
   being reset, whatever the guest, the other loop and the lender do meanwhile. *)
THEOREM ResetsEndInTime == Spec => []ResetDoneInTime
<1> DEFINE Inv == BaseInv /\ MeaningInv /\ ResetInv
<1>1. Init => Inv
  BY InitBase, InitMeaning, InitReset
<1>2. Inv /\ [Next]_vars => Inv'
  BY BaseStep, MeaningStep, ResetStep
<1>3. Inv => ResetDoneInTime
  BY ReplyToReset DEF ResetDoneInTime, BaseInv, MeaningInv, ResultsInv
<1> QED BY <1>1, <1>2, <1>3, PTL DEF Spec

-----------------------------------------------------------------------------
(* Addresses.  Work items wk, shapes us of the URBs, and the address a that
   the borrower follows: an item carries the address the borrower will have
   when it takes the item.  SET_ADDRESS is alone in the queue, and behind any
   reset. *)
AsksUrb(w) == w.op = "ProcessUrb"
SetsAddr(w, us) == AsksUrb(w) /\ us[w.u].kind = "setaddr"
DoneIn(wk) == Holds(wk, PortStat(ResetDone))
DoneBefore(wk, i) == \E j \in DOMAIN wk : j < i /\ wk[j] = PortStat(ResetDone)
NoneAsks(wk) == \A i \in DOMAIN wk : ~AsksUrb(wk[i])
NoneSets(wk, us) == \A i \in DOMAIN wk : ~SetsAddr(wk[i], us)
SetsAlone(wk, us) ==
  \A i, j \in DOMAIN wk : SetsAddr(wk[i], us) =>
    (AsksUrb(wk[j]) => i = j) /\ (wk[j] = PortStat(ResetDone) => j < i)
Carries(wk, us, a) ==
  \A i \in DOMAIN wk : AsksUrb(wk[i]) /\ ~SetsAddr(wk[i], us) =>
    wk[i].addr = IF DoneBefore(wk, i) THEN 0 ELSE a
AddrWork(wk, us, a) == SetsAlone(wk, us) /\ Carries(wk, us, a)

LEMMA AddrTake ==
  ASSUME NEW wk \in Seq(Work), wk # <<>>, NEW us, NEW a, AddrWork(wk, us, a), NEW b,
         \/ Head(wk) = PortStat(ResetDone) /\ b = 0
         \/ Head(wk) # PortStat(ResetDone) /\ (b = a \/ NoneAsks(Tail(wk)))
  PROVE  AddrWork(Tail(wk), us, b)
<1> DEFINE q == Tail(wk)
<1>1. /\ 1 \in DOMAIN wk /\ Head(wk) = wk[1]
      /\ \A i \in DOMAIN q : i \in Nat /\ i >= 1 /\ i + 1 \in DOMAIN wk /\ q[i] = wk[i + 1]
      /\ \A i \in DOMAIN wk : /\ i \in Nat /\ i >= 1
                              /\ i # 1 => i - 1 \in DOMAIN q /\ q[i - 1] = wk[i]
  BY ItemTake
<1> HIDE DEF q
<1>2. SetsAlone(q, us)
  <2> SUFFICES ASSUME NEW i \in DOMAIN q, NEW j \in DOMAIN q, SetsAddr(q[i], us)
               PROVE  (AsksUrb(q[j]) => i = j) /\ (q[j] = PortStat(ResetDone) => j < i)
    BY DEF SetsAlone
  <2>1. i \in Nat /\ j \in Nat /\ i + 1 \in DOMAIN wk /\ j + 1 \in DOMAIN wk
        /\ q[i] = wk[i + 1] /\ q[j] = wk[j + 1]
    BY <1>1
  <2>2. (AsksUrb(q[j]) => i + 1 = j + 1) /\ (q[j] = PortStat(ResetDone) => j + 1 < i + 1)
    BY <2>1 DEF AddrWork, SetsAlone
  <2> QED BY <2>1, <2>2
<1>3. Carries(q, us, b)
  <2> SUFFICES ASSUME NEW i \in DOMAIN q, AsksUrb(q[i]), ~SetsAddr(q[i], us)
               PROVE  q[i].addr = IF DoneBefore(q, i) THEN 0 ELSE b
    BY DEF Carries
  <2>1. i \in Nat /\ i >= 1 /\ i + 1 \in DOMAIN wk /\ q[i] = wk[i + 1]
    BY <1>1
  <2>2. q[i].addr = IF DoneBefore(wk, i + 1) THEN 0 ELSE a
    BY <2>1 DEF AddrWork, Carries
  <2>3. DoneBefore(q, i) => DoneBefore(wk, i + 1)
    <3> SUFFICES ASSUME NEW j \in DOMAIN q, j < i, q[j] = PortStat(ResetDone)
                 PROVE  DoneBefore(wk, i + 1)
      BY DEF DoneBefore
    <3>1. j + 1 \in DOMAIN wk /\ wk[j + 1] = PortStat(ResetDone) /\ j + 1 < i + 1
      BY <1>1, <2>1
    <3> QED BY <3>1 DEF DoneBefore
  <2>4. ASSUME DoneBefore(wk, i + 1), Head(wk) # PortStat(ResetDone) PROVE DoneBefore(q, i)
    <3>1. PICK j \in DOMAIN wk : j < i + 1 /\ wk[j] = PortStat(ResetDone)
      BY <2>4 DEF DoneBefore
    <3>2. j # 1
      BY <1>1, <2>4, <3>1
    <3>3. j - 1 \in DOMAIN q /\ q[j - 1] = PortStat(ResetDone) /\ j - 1 < i
      BY <1>1, <2>1, <3>1, <3>2
    <3> QED BY <3>3 DEF DoneBefore
  <2>5. CASE Head(wk) = PortStat(ResetDone) /\ b = 0
    <3>1. DoneBefore(wk, i + 1)
      BY <1>1, <2>1, <2>5 DEF DoneBefore
    <3> QED BY <2>2, <2>5, <3>1
  <2>6. CASE Head(wk) # PortStat(ResetDone) /\ b = a
    BY <2>2, <2>3, <2>4, <2>6
  <2>7. CASE NoneAsks(Tail(wk))
    BY <2>7 DEF NoneAsks, q
  <2> QED BY <2>5, <2>6, <2>7
<1> QED BY <1>2, <1>3 DEF AddrWork, q

LEMMA AddrPut ==
  ASSUME NEW wk \in Seq(Work), NEW us, NEW a, AddrWork(wk, us, a), NEW e,
         e = PortStat(ResetDone) => NoneSets(wk, us),
         AsksUrb(e) => NoneSets(wk, us),
         SetsAddr(e, us) => NoneAsks(wk),
         AsksUrb(e) /\ ~SetsAddr(e, us) => e.addr = IF DoneIn(wk) THEN 0 ELSE a
  PROVE  AddrWork(Append(wk, e), us, a)
<1> DEFINE q == Append(wk, e)
           n == Len(wk) + 1
<1>1. /\ q[n] = e /\ n \in DOMAIN q /\ n \in Nat
      /\ \A i \in DOMAIN wk : i \in Nat /\ i \in DOMAIN q /\ q[i] = wk[i] /\ i < n
      /\ \A i \in DOMAIN q : i \in DOMAIN wk \/ i = n
  OBVIOUS
<1>0. ~AsksUrb(PortStat(ResetDone))
  BY DEF AsksUrb, PortStat
<1> HIDE DEF q, n
<1>2. SetsAlone(q, us)
  <2> SUFFICES ASSUME NEW i \in DOMAIN q, NEW j \in DOMAIN q, SetsAddr(q[i], us)
               PROVE  (AsksUrb(q[j]) => i = j) /\ (q[j] = PortStat(ResetDone) => j < i)
    BY DEF SetsAlone
  <2>1. CASE i \in DOMAIN wk /\ j \in DOMAIN wk
    BY <1>1, <2>1 DEF AddrWork, SetsAlone
  <2>2. CASE i = n /\ j \in DOMAIN wk
    BY <1>1, <2>2 DEF NoneAsks
  <2>3. CASE i \in DOMAIN wk /\ j = n
    BY <1>1, <2>3 DEF NoneSets
  <2>4. CASE i = n /\ j = n
    BY <1>0, <1>1, <2>4 DEF SetsAddr
  <2> QED BY <1>1, <2>1, <2>2, <2>3, <2>4
<1>3. \A i \in DOMAIN wk : DoneBefore(q, i) <=> DoneBefore(wk, i)
  BY <1>1 DEF DoneBefore
<1>4. DoneBefore(q, n) <=> DoneIn(wk)
  BY <1>1 DEF DoneBefore, DoneIn, Holds
<1>5. Carries(q, us, a)
  <2> SUFFICES ASSUME NEW i \in DOMAIN q, AsksUrb(q[i]), ~SetsAddr(q[i], us)
               PROVE  q[i].addr = IF DoneBefore(q, i) THEN 0 ELSE a
    BY DEF Carries
  <2>1. CASE i \in DOMAIN wk
    BY <1>1, <1>3, <2>1 DEF AddrWork, Carries
  <2>2. CASE i = n
    BY <1>1, <1>4, <2>2
  <2> QED BY <1>1, <2>1, <2>2
<1> QED BY <1>2, <1>5 DEF AddrWork, q

(* The work items name URBs that were submitted. *)
AsksKnown(wk, us) == \A i \in DOMAIN wk : AsksUrb(wk[i]) => wk[i].u \in DOMAIN us

LEMMA AddrMore ==
  ASSUME NEW wk, NEW us, NEW a, AddrWork(wk, us, a), AsksKnown(wk, us), NEW vs, Extended(us, vs)
  PROVE  AddrWork(wk, vs, a)
<1>1. \A i \in DOMAIN wk : SetsAddr(wk[i], vs) <=> SetsAddr(wk[i], us)
  BY DEF SetsAddr, AsksKnown, Extended
<1> QED BY <1>1 DEF AddrWork, SetsAlone, Carries

(* The first report of a plugged-in port is the first item, and nothing but a
   request to reset the port follows it. *)
ConnFirst(wk) ==
  \A i \in DOMAIN wk : wk[i] = PortStat(Connected) =>
    i = 1 /\ ~DoneIn(wk) /\ NoneAsks(wk)
ConnIn(wk) == Holds(wk, PortStat(Connected))

LEMMA ConnTake ==
  ASSUME NEW wk \in Seq(Work), wk # <<>>, ConnFirst(wk)
  PROVE  ~ConnIn(Tail(wk)) /\ ConnFirst(Tail(wk))
<1>1. ASSUME NEW i \in DOMAIN Tail(wk), Tail(wk)[i] = PortStat(Connected) PROVE FALSE
  <2>1. i \in Nat /\ i >= 1 /\ i + 1 \in DOMAIN wk /\ wk[i + 1] = PortStat(Connected)
    BY <1>1, ItemTake
  <2>2. i + 1 = 1
    BY <2>1 DEF ConnFirst
  <2> QED BY <2>1, <2>2
<1> QED BY <1>1 DEF ConnIn, Holds, ConnFirst

LEMMA ConnPut ==
  ASSUME NEW wk \in Seq(Work), ConnFirst(wk), NEW e, e # PortStat(Connected),
         ConnIn(wk) => e # PortStat(ResetDone) /\ ~AsksUrb(e)
  PROVE  ConnFirst(Append(wk, e)) /\ (ConnIn(Append(wk, e)) <=> ConnIn(wk))
<1>1. ConnIn(Append(wk, e)) <=> ConnIn(wk)
  BY HoldsPut DEF ConnIn
<1>2. ASSUME ConnIn(wk) PROVE ~DoneIn(Append(wk, e)) /\ NoneAsks(Append(wk, e))
  <2>1. ~DoneIn(wk) /\ NoneAsks(wk)
    BY <1>2 DEF ConnFirst, ConnIn, Holds
  <2>2. ~DoneIn(Append(wk, e))
    BY <1>2, <2>1, HoldsPut DEF DoneIn
  <2>3. NoneAsks(Append(wk, e))
    BY <1>2, <2>1, ItemPut DEF NoneAsks
  <2> QED BY <2>2, <2>3
<1>3. ASSUME NEW i \in DOMAIN Append(wk, e), Append(wk, e)[i] = PortStat(Connected)
      PROVE  i = 1 /\ ~DoneIn(Append(wk, e)) /\ NoneAsks(Append(wk, e))
  <2>1. i \in DOMAIN wk /\ wk[i] = PortStat(Connected)
    BY <1>3, ItemPut
  <2> QED BY <1>2, <2>1 DEF ConnFirst, ConnIn, Holds
<1> QED BY <1>1, <1>3 DEF ConnFirst

(* A SET_ADDRESS the guest waits for: URBs cu by handle, givebacks ts. *)
PendingIn(cu, us) == \E h \in DOMAIN cu : us[cu[h]].kind = "setaddr"
Gives(t, us) == t.op = "giveback" /\ us[t.u].kind = "setaddr"
GivenIn(ts, us) == \E i \in DOMAIN ts : Gives(ts[i], us)
Given == GivenIn(tasks, urbs)

LEMMA GivenPends ==
  ASSUME NEW cu, NEW us, NEW ts \in Seq(OwnTasks(cu)), GivenIn(ts, us)
  PROVE  PendingIn(cu, us)
<1>1. PICK i \in DOMAIN ts : Gives(ts[i], us)
  BY DEF GivenIn
<1>2. ts[i] \in OwnTasks(cu)
  BY <1>1, Elements
<1> QED BY <1>1, <1>2 DEF OwnTasks, PendingIn, Gives

LEMMA AsksPend ==
  ASSUME NEW cu, NEW us, NEW wk \in Seq(OwnWork(cu))
  PROVE  /\ ~PendingIn(cu, us) => NoneSets(wk, us)
         /\ DOMAIN cu = {} => NoneAsks(wk)
<1>1. \A i \in DOMAIN wk : wk[i] \in OwnWork(cu)
  BY Elements
<1> QED BY <1>1 DEF OwnWork, PendingIn, NoneSets, NoneAsks, SetsAddr, AsksUrb

LEMMA GivenPut ==
  ASSUME NEW ts \in Seq(Task), NEW t, NEW us
  PROVE  GivenIn(Append(ts, t), us) <=> GivenIn(ts, us) \/ Gives(t, us)
BY ItemPut DEF GivenIn

LEMMA GivenTake ==
  ASSUME NEW ts \in Seq(Task), ts # <<>>, NEW us
  PROVE  GivenIn(ts, us) <=> GivenIn(Tail(ts), us) \/ Gives(Head(ts), us)
<1>1. GivenIn(Tail(ts), us) \/ Gives(Head(ts), us) => GivenIn(ts, us)
  BY ItemTake DEF GivenIn
<1>2. ASSUME GivenIn(ts, us), ~Gives(Head(ts), us) PROVE GivenIn(Tail(ts), us)
  <2>1. PICK i \in DOMAIN ts : Gives(ts[i], us)
    BY <1>2 DEF GivenIn
  <2>2. i # 1
    BY <1>2, <2>1, ItemTake
  <2>3. i - 1 \in DOMAIN Tail(ts) /\ Gives(Tail(ts)[i - 1], us)
    BY <2>1, <2>2, ItemTake
  <2> QED BY <2>3 DEF GivenIn
<1> QED BY <1>1, <1>2

(* The guest waits for a SET_ADDRESS alone, on a port without an address. *)
CurInv ==
  /\ \A h \in DOMAIN cur : cur[h] \in DOMAIN urbs
  /\ \A h, g \in DOMAIN cur : urbs[cur[h]].kind = "setaddr" => g = h
  /\ PendingIn(cur, urbs) => port = "enabled" /\ kaddr = 0
ConnInv == ConnFirst(work) /\ (ConnIn(work) => port # "enabled" /\ Resets = {})

(* The controller's address is the borrower's, once what is in the two queues
   between them has been done. *)
BookInv ==
  /\ port = "enabled" /\ ~Given => kaddr = IF DoneIn(work) THEN 0 ELSE bAddr
  /\ Given => bAddr = 1 /\ ~DoneIn(work)
AddrInv == CurInv /\ ConnInv /\ BookInv /\ AddrWork(work, urbs, bAddr)

LEMMA AddrKept ==
  ASSUME AddrInv, UNCHANGED <<port, kaddr, urbs, cur, tasks, work, bAddr>>, Resets' \subseteq Resets
  PROVE  AddrInv'
<1>1. CurInv'
  BY DEF AddrInv, CurInv
<1>2. ConnInv'
  BY DEF AddrInv, ConnInv
<1>3. BookInv'
  BY DEF AddrInv, BookInv, Given
<1> QED BY <1>1, <1>2, <1>3 DEF AddrInv

(* Nothing of the SET_ADDRESS, of its work item or of its giveback is there
   when the guest waits for none. *)
LEMMA NothingPends ==
  ASSUME OwnInv, port # "gone", ~PendingIn(cur, urbs)
  PROVE  ~Given /\ NoneSets(work, urbs)
BY GivenPends, AsksPend DEF OwnInv, Given

LEMMA AddrSubmit ==
  ASSUME AddrInv, TypeInv, OwnInv, NEW h \in Handles, NEW shape \in Shapes, Submit(h, shape),
         UNCHANGED borrowVars
  PROVE  AddrInv'
<1> DEFINE u == Len(urbs) + 1
           e == ProcessUrb(h, u, kaddr)
<1>0. /\ urbs \in Seq(Shapes) /\ tasks \in Seq(Task) /\ work \in Seq(Work)
  BY DEF TypeInv, TypeOK, VhciTypeOK
<1>1. /\ port = "enabled" /\ ~PendingIn(cur, urbs) /\ h \notin DOMAIN cur
      /\ shape.kind = "setaddr" => kaddr = 0 /\ DOMAIN cur = {}
      /\ UNCHANGED <<port, kaddr, tasks>>
  BY EmptyIsMap DEF Submit, AddressPending, PendingIn
<1>2. urbs' = Append(urbs, shape) /\ cur' = Insert(cur, h, u) /\ work' = Append(work, e)
  BY DEF Submit
<1>3. UNCHANGED <<bAddr, Resets>>
  BY DEF borrowVars, Resets
<1>4. /\ e.op = "ProcessUrb" /\ e.u = u /\ e.addr = kaddr
      /\ e # PortStat(Connected) /\ e # PortStat(ResetDone)
  BY ItemsDiffer DEF ProcessUrb
<1>5. u \in DOMAIN urbs' /\ u \notin DOMAIN urbs /\ urbs'[u] = shape /\ Extended(urbs, urbs')
  BY <1>0, <1>2 DEF Extended
<1>6. DOMAIN cur' = DOMAIN cur \cup {h} /\ cur'[h] = u /\ \A g \in DOMAIN cur : cur'[g] = cur[g]
  BY <1>1, <1>2 DEF Insert
<1> HIDE DEF u, e
<1>7. \A g \in DOMAIN cur : cur'[g] \in DOMAIN urbs /\ urbs'[cur'[g]] = urbs[cur[g]]
  BY <1>5, <1>6 DEF AddrInv, CurInv, Extended
<1>8. \A g \in DOMAIN cur : urbs'[cur'[g]].kind # "setaddr"
  BY <1>1, <1>7 DEF PendingIn
<1>9. CurInv'
  <2>1. \A g \in DOMAIN cur' : g \in DOMAIN cur \/ g = h
    BY <1>6
  <2>2. \A g \in DOMAIN cur' : cur'[g] \in DOMAIN urbs'
    BY <1>5, <1>6, <1>7, <2>1 DEF Extended
  <2>3. \A g \in DOMAIN cur' : urbs'[cur'[g]].kind = "setaddr" => g = h /\ shape.kind = "setaddr"
    BY <1>5, <1>6, <1>8, <2>1
  <2>4. shape.kind = "setaddr" => DOMAIN cur' = {h} /\ port' = "enabled" /\ kaddr' = 0
    BY <1>1, <1>6
  <2>5. PendingIn(cur', urbs') => shape.kind = "setaddr"
    BY <2>3 DEF PendingIn
  <2>6. \A g, k \in DOMAIN cur' : urbs'[cur'[g]].kind = "setaddr" => k = g
    BY <2>3, <2>4
  <2> QED BY <2>2, <2>4, <2>5, <2>6 DEF CurInv
<1>10. ~Given /\ NoneSets(work, urbs)
  BY <1>1, NothingPends
<1>11. ~Given' /\ work \in Seq(OwnWork(cur)) /\ tasks \in Seq(OwnTasks(cur))
  <2>1. work \in Seq(OwnWork(cur)) /\ tasks \in Seq(OwnTasks(cur))
    BY <1>1 DEF OwnInv
  <2>2. ASSUME NEW i \in DOMAIN tasks, Gives(tasks[i], urbs') PROVE FALSE
    <3>1. tasks[i] \in OwnTasks(cur)
      BY <2>1, Elements
    <3>2. urbs'[tasks[i].u] = urbs[tasks[i].u]
      BY <1>6, <1>7, <2>2, <3>1 DEF OwnTasks, Gives
    <3> QED BY <1>10, <2>2, <3>2 DEF Given, GivenIn, Gives
  <2> QED BY <1>1, <2>1, <2>2 DEF Given, GivenIn
<1>12. ConnInv'
  <2>1. ~ConnIn(work)
    BY <1>1 DEF AddrInv, ConnInv
  <2>2. ConnFirst(work') /\ ~ConnIn(work')
    BY <1>0, <1>2, <1>4, <2>1, ConnPut DEF AddrInv, ConnInv
  <2> QED BY <2>2 DEF ConnInv
<1>13. kaddr = IF DoneIn(work) THEN 0 ELSE bAddr
  BY <1>1, <1>10 DEF AddrInv, BookInv
<1>14. DoneIn(work') <=> DoneIn(work)
  BY <1>0, <1>2, <1>4, HoldsPut DEF DoneIn
<1>15. BookInv'
  BY <1>1, <1>3, <1>11, <1>13, <1>14 DEF BookInv
<1>16. AddrWork(work', urbs', bAddr')
  <2>1. AsksKnown(work, urbs)
    BY DEF TypeInv, WorkOK, AsksKnown, AsksUrb
  <2>2. AddrWork(work, urbs', bAddr)
    BY <1>5, <2>1, AddrMore DEF AddrInv
  <2>3. NoneSets(work, urbs')
    BY <1>5, <1>10, <2>1 DEF NoneSets, SetsAddr, AsksKnown, Extended
  <2>4. SetsAddr(e, urbs') => NoneAsks(work)
    BY <1>1, <1>4, <1>5, <1>11, AsksPend DEF SetsAddr
  <2> QED BY <1>0, <1>2, <1>3, <1>4, <1>13, <2>2, <2>3, <2>4, AddrPut
<1> QED BY <1>9, <1>12, <1>15, <1>16 DEF AddrInv

LEMMA AddrGuest ==
  ASSUME AddrInv, TypeInv, OwnInv, Guest, UNCHANGED borrowVars
  PROVE  AddrInv'
<1>0. UNCHANGED <<bAddr, Resets>> /\ work \in Seq(Work)
  BY DEF borrowVars, Resets, TypeInv, TypeOK, VhciTypeOK
<1>1. ASSUME NEW e, work' = Append(work, e), e \notin {PortStat(Connected), PortStat(ResetDone)},
             ~AsksUrb(e), UNCHANGED <<kaddr, urbs, cur, tasks>>,
             UNCHANGED port \/ (port' = "resetting" /\ ~PendingIn(cur, urbs))
      PROVE  AddrInv'
  <2>1. CurInv'
    BY <1>1 DEF AddrInv, CurInv
  <2>2. ConnInv'
    BY <1>0, <1>1, ConnPut DEF AddrInv, ConnInv
  <2>3. DoneIn(work') <=> DoneIn(work)
    BY <1>0, <1>1, HoldsPut DEF DoneIn
  <2>4. UNCHANGED Given
    BY <1>1 DEF Given
  <2>5. BookInv'
    BY <1>0, <1>1, <2>3, <2>4 DEF AddrInv, BookInv
  <2>6. AddrWork(work', urbs, bAddr)
    BY <1>0, <1>1, AddrPut DEF AddrInv, SetsAddr
  <2> QED BY <1>0, <1>1, <2>1, <2>2, <2>5, <2>6 DEF AddrInv
<1>2. ASSUME NEW h \in Handles, Unlink(h) PROVE AddrInv'
  <2>1. work' = Append(work, CancelUrb(h)) /\ UNCHANGED <<port, kaddr, urbs, cur, tasks>>
    BY <1>2 DEF Unlink
  <2>2. CancelUrb(h) \notin {PortStat(Connected), PortStat(ResetDone)} /\ ~AsksUrb(CancelUrb(h))
    BY ItemsDiffer DEF AsksUrb, CancelUrb
  <2> QED BY <1>1, <2>1, <2>2
<1>3. CASE ResetPort
  <2>1. /\ work' = Append(work, PortStat(Resetting)) /\ UNCHANGED <<kaddr, urbs, cur, tasks>>
        /\ port' = "resetting" /\ ~PendingIn(cur, urbs)
    BY <1>3 DEF ResetPort, AddressPending, PendingIn
  <2>2. PortStat(Resetting) \notin {PortStat(Connected), PortStat(ResetDone)}
    BY ItemsDiffer, StatsTell
  <2>3. ~AsksUrb(PortStat(Resetting))
    BY DEF AsksUrb, PortStat
  <2> QED BY <1>1, <2>1, <2>2, <2>3
<1> QED BY <1>2, <1>3, AddrSubmit DEF Guest

(* The borrower takes a work item. *)
LEMMA AddrTaken ==
  ASSUME AddrInv, TypeInv, work # <<>>, work' = Tail(work), UNCHANGED <<port, kaddr, urbs, cur>>,
         BookInv',
         \/ Head(work) = PortStat(ResetDone) /\ bAddr' = 0
         \/ Head(work) # PortStat(ResetDone) /\ (UNCHANGED bAddr \/ NoneAsks(Tail(work)))
  PROVE  AddrInv'
<1>0. work \in Seq(Work)
  BY DEF TypeInv, TypeOK, VhciTypeOK
<1>1. CurInv'
  BY DEF AddrInv, CurInv
<1>2. ConnInv'
  BY <1>0, ConnTake DEF AddrInv, ConnInv
<1>3. AddrWork(Tail(work), urbs, bAddr')
  BY <1>0, AddrTake DEF AddrInv
<1> QED BY <1>1, <1>2, <1>3 DEF AddrInv

LEMMA AddrStat ==
  ASSUME AddrInv, ResetInv, TypeInv, OwnInv, port_stat
  PROVE  AddrInv'
<1> DEFINE next == Head(work).stat
<1>0. work \in Seq(Work)
  BY DEF TypeInv, TypeOK, VhciTypeOK
<1>1. /\ work # <<>> /\ Head(work).op = "PortStat" /\ work' = Tail(work)
      /\ UNCHANGED <<port, kaddr, urbs, cur, tasks>>
      /\ bAddr' = IF address_invalidated(next) THEN NoAddress
                  ELSE IF reset_successful(next) THEN 0 ELSE bAddr
  BY DEF port_stat, TakeWork
<1>2. Head(work) = PortStat(next) /\ next \in {Connected, Resetting, ResetDone}
  <2>1. Head(work) \in KnownWork
    BY <1>1, QueueTake DEF ResetInv
  <2> QED BY <1>1, <2>1, ItemsDiffer DEF KnownWork
<1>3. UNCHANGED Given
  BY <1>1 DEF Given
<1>4. DoneIn(work) <=> DoneIn(work') \/ Head(work) = PortStat(ResetDone)
  BY <1>0, <1>1, HoldsTake DEF DoneIn
<1>a. 1 \in DOMAIN work /\ Head(work) = work[1]
  BY <1>0, <1>1, ItemTake
<1> HIDE DEF next
<1>5. CASE next = Connected
  <2>1. ConnIn(work) /\ NoneAsks(work) /\ port # "enabled"
    BY <1>2, <1>5, <1>a DEF AddrInv, ConnInv, ConnIn, Holds, ConnFirst
  <2>2. NoneAsks(Tail(work))
    BY <1>0, <1>1, <2>1, ItemTake DEF NoneAsks
  <2>3. ~Given
    <3>1. ~PendingIn(cur, urbs)
      BY <2>1 DEF AddrInv, CurInv
    <3>2. CASE port = "gone"
      BY <3>2 DEF OwnInv, Given, GivenIn
    <3> QED BY <3>1, <3>2, NothingPends
  <2>4. BookInv'
    BY <1>1, <1>3, <2>1, <2>3 DEF BookInv
  <2>5. Head(work) # PortStat(ResetDone)
    BY <1>2, <1>5, ItemsDiffer, StatsTell
  <2> QED BY <1>1, <2>2, <2>4, <2>5, AddrTaken
<1>6. CASE next = Resetting
  <2>1. Head(work) # PortStat(ResetDone)
    BY <1>2, <1>6, ItemsDiffer, StatsTell
  <2>2. UNCHANGED bAddr
    BY <1>1, <1>2, <1>6, StatsTell
  <2>3. BookInv'
    BY <1>1, <1>3, <1>4, <2>1, <2>2 DEF AddrInv, BookInv
  <2> QED BY <1>1, <2>1, <2>2, <2>3, AddrTaken
<1>7. CASE next = ResetDone
  <2>1. Head(work) = PortStat(ResetDone) /\ DoneIn(work)
    BY <1>2, <1>4, <1>7
  <2>2. bAddr' = 0
    BY <1>1, <1>2, <1>7, StatsTell
  <2>3. BookInv'
    BY <1>1, <1>3, <2>1, <2>2 DEF AddrInv, BookInv
  <2> QED BY <1>1, <2>1, <2>2, <2>3, AddrTaken
<1> QED BY <1>2, <1>5, <1>6, <1>7

LEMMA AddrSet ==
  ASSUME AddrInv, TypeInv, set_address
  PROVE  AddrInv'
<1> DEFINE w == Head(work)
           t == Giveback(w.h, w.u, "Success")
<1>0. work \in Seq(Work) /\ tasks \in Seq(Task)
  BY DEF TypeInv, TypeOK, VhciTypeOK
<1>1. /\ work # <<>> /\ work' = Tail(work) /\ UNCHANGED <<port, kaddr, urbs, cur>>
      /\ bAddr' = 1 /\ SetsAddr(w, urbs)
  BY DEF set_address, TakeWork, SetsAddr, AsksUrb
<1>2. tasks' = Append(tasks, t) /\ Gives(t, urbs)
  BY <1>1 DEF set_address, Gives, Giveback, SetsAddr
<1>3. 1 \in DOMAIN work /\ w = work[1]
  BY <1>0, <1>1, ItemTake
<1>4. w # PortStat(ResetDone)
  BY <1>1 DEF SetsAddr, AsksUrb, PortStat
<1> HIDE DEF w, t
<1>5. NoneAsks(Tail(work)) /\ ~DoneIn(Tail(work))
  <2> SUFFICES ASSUME NEW i \in DOMAIN Tail(work)
               PROVE  ~AsksUrb(Tail(work)[i]) /\ Tail(work)[i] # PortStat(ResetDone)
    BY DEF NoneAsks, DoneIn, Holds
  <2>1. i \in Nat /\ i >= 1 /\ i + 1 \in DOMAIN work /\ Tail(work)[i] = work[i + 1]
    BY <1>0, <1>1, ItemTake
  <2>2. (AsksUrb(work[i + 1]) => 1 = i + 1) /\ (work[i + 1] = PortStat(ResetDone) => i + 1 < 1)
    BY <1>1, <1>3, <2>1 DEF AddrInv, AddrWork, SetsAlone
  <2> QED BY <2>1, <2>2
<1>6. Given'
  BY <1>0, <1>1, <1>2, GivenPut DEF Given
<1>7. BookInv'
  BY <1>1, <1>5, <1>6 DEF BookInv
<1> QED BY <1>1, <1>4, <1>5, <1>7, AddrTaken DEF w

LEMMA AddrBorrowSend ==
  ASSUME AddrInv, ResetInv, TypeInv, OwnInv, PipeInv, BorrowSend
  PROVE  AddrInv'
<1>1. CASE process_urb \/ cancel_urb
  <2>0. work \in Seq(Work)
    BY DEF TypeInv, TypeOK, VhciTypeOK
  <2>1. /\ work # <<>> /\ work' = Tail(work) /\ UNCHANGED <<port, kaddr, urbs, cur, tasks, bAddr>>
        /\ Head(work).op # "PortStat"
    BY <1>1 DEF process_urb, cancel_urb, TakeWork
  <2>2. Head(work) # PortStat(ResetDone)
    BY <2>1 DEF PortStat
  <2>3. UNCHANGED Given /\ (DoneIn(work') <=> DoneIn(work))
    BY <2>0, <2>1, <2>2, HoldsTake DEF Given, DoneIn
  <2>4. BookInv'
    BY <2>1, <2>3 DEF AddrInv, BookInv
  <2> QED BY <2>1, <2>2, <2>4, AddrTaken
<1>2. CASE FlushBuf \/ WriteFrame \/ FlushComplete \/ EndSendLoop
  BY <1>2, AddrKept DEF FlushBuf, WriteFrame, FlushComplete, EndSendLoop, sendUnchanged, vhciVars, Resets
<1> QED BY <1>1, <1>2, AddrStat, AddrSet DEF BorrowSend

(* A giveback that is not one of a SET_ADDRESS is queued. *)
LEMMA AddrQueued ==
  ASSUME AddrInv, TypeInv, UNCHANGED <<port, kaddr, urbs, cur, work, bAddr>>, Resets' \subseteq Resets,
         NEW t, tasks' = Append(tasks, t), ~Gives(t, urbs)
  PROVE  AddrInv'
<1>1. CurInv'
  BY DEF AddrInv, CurInv
<1>2. ConnInv'
  BY DEF AddrInv, ConnInv
<1>3. Given' <=> Given
  <2>1. tasks \in Seq(Task)
    BY DEF TypeInv, TypeOK, VhciTypeOK
  <2>2. GivenIn(Append(tasks, t), urbs) <=> GivenIn(tasks, urbs)
    BY <2>1, GivenPut
  <2> QED BY <2>2 DEF Given
<1>4. BookInv'
  BY <1>3 DEF AddrInv, BookInv
<1> QED BY <1>1, <1>2, <1>4 DEF AddrInv

LEMMA AddrBorrowRecv ==
  ASSUME AddrInv, ResetInv, OrderInv, TypeInv, PipeInv, RetsInv, TransfersInv, OwnInv, HandleInv,
         BorrowRecv
  PROVE  AddrInv'
<1>1. CASE urb_reply
  <2> DEFINE s == Reply.seq
             t == Giveback(handles[s], urbOf[s], Reply.res)
  <2>1. /\ CanRead /\ Reply.cmd = "RetSubmit" /\ tasks' = Append(tasks, t)
        /\ UNCHANGED <<port, kaddr, urbs, cur, work, bAddr, urbOf>> /\ handles' = Remove(handles, s)
    BY <1>1 DEF urb_reply, forget, recvUnchanged
  <2>2. Resets' \subseteq Resets
    BY <2>1 DEF Resets, ResetsIn, Remove
  <2>3. s \in DOMAIN xfer /\ urbOf[s] # 0
    <3>1. Reply \in GoodRets(xfer) /\ Reply.cmd \in Rets
      BY <2>1, QueueTake DEF CanRead, RetsInv, Reply, Rets
    <3>2. s \in DOMAIN xfer
      BY <2>1, <3>1 DEF GoodRets, GoodRet, Rets
    <3> QED BY <2>1, <3>1, <3>2, ReplyKinds
  <2>4. urbs[urbOf[s]].kind = xfer[s].kind
    BY <2>3 DEF TransfersInv, GoodTransfer
  <2>5. xfer[s].kind # "setaddr"
    <3>1. xfer[s] \in Transfer
      BY <2>3, MapValue DEF TypeInv, TypeOK, LendTypeOK
    <3> QED BY <3>1 DEF Transfer, RemoteKind, Asynchronous, Blocking
  <2>6. ~Gives(t, urbs)
    BY <2>4, <2>5 DEF Gives, Giveback
  <2> HIDE DEF t
  <2> QED BY <2>1, <2>2, <2>6, AddrQueued
<1>2. CASE device_reset
  <2> DEFINE e == PortStat(ResetDone)
  <2>0. work \in Seq(Work)
    BY DEF TypeInv, TypeOK, VhciTypeOK
  <2>1. /\ CanRead /\ Reply.cmd = "RetPort" /\ port' = "enabled" /\ kaddr' = 0
        /\ work' = Append(work, e) /\ UNCHANGED <<urbs, cur, tasks, bAddr>>
    BY <1>2 DEF device_reset, recvUnchanged, PortResetDone
  <2>2. Resets # {} /\ port = "resetting"
    BY <2>1, ReplyToReset
  <2>3. ~PendingIn(cur, urbs) /\ ~ConnIn(work)
    BY <2>2 DEF AddrInv, CurInv, ConnInv
  <2>4. ~Given /\ NoneSets(work, urbs)
    BY <2>2, <2>3, NothingPends
  <2>5. e # PortStat(Connected) /\ ~AsksUrb(e)
    BY ItemsDiffer, StatsTell DEF AsksUrb, PortStat
  <2>6. CurInv'
    BY <2>1, <2>3 DEF AddrInv, CurInv
  <2>7. DoneIn(work')
    BY <2>0, <2>1, HoldsPut DEF DoneIn
  <2> HIDE DEF e
  <2>8. ConnInv'
    BY <2>0, <2>1, <2>3, <2>5, ConnPut DEF AddrInv, ConnInv
  <2>9. UNCHANGED Given
    BY <2>1 DEF Given
  <2>10. BookInv'
    BY <2>1, <2>4, <2>7, <2>9 DEF BookInv
  <2>11. AddrWork(work', urbs, bAddr)
    BY <2>0, <2>1, <2>4, <2>5, AddrPut DEF AddrInv, SetsAddr
  <2> QED BY <2>1, <2>6, <2>8, <2>10, <2>11 DEF AddrInv
<1>3. CASE RecvPanic \/ EndRecvLoop \/ DrainRead \/ DrainEnd
  BY <1>3, AddrKept DEF RecvPanic, EndRecvLoop, DrainRead, DrainEnd, recvUnchanged, vhciVars, Resets
<1> QED BY <1>1, <1>2, <1>3 DEF BorrowRecv

LEMMA AddrThread ==
  ASSUME AddrInv, TypeInv, OwnInv, OwnInv', BlockingThread
  PROVE  AddrInv'
<1>0. /\ UNCHANGED <<urbs, work, bAddr, Resets>> /\ tasks # <<>> /\ tasks' = Tail(tasks)
      /\ tasks \in Seq(Task)
  BY DEF BlockingThread, borrowVars, RunGiveback, RunDisconnect, TypeInv, TypeOK, VhciTypeOK, Resets
<1>1. CASE RunDisconnect
  <2>1. port' = "gone" /\ DOMAIN cur' = {}
    BY <1>1, EmptyIsMap DEF RunDisconnect
  <2>2. CurInv'
    BY <2>1 DEF CurInv, PendingIn
  <2>3. ConnInv'
    BY <1>0, <2>1 DEF AddrInv, ConnInv
  <2>4. ~Given'
    BY <2>1 DEF OwnInv, Given, GivenIn
  <2>5. BookInv'
    BY <2>1, <2>4 DEF BookInv
  <2> QED BY <1>0, <2>2, <2>3, <2>5 DEF AddrInv
<1>2. CASE RunGiveback
  <2> DEFINE h == Head(tasks).h
             t == Head(tasks)
  <2>1. port # "gone" /\ UNCHANGED port /\ t.op = "giveback"
    BY <1>0, <1>2 DEF OwnInv, RunGiveback
  <2>2. h \in DOMAIN cur /\ cur[h] = t.u
    <3>1. t \in OwnTasks(cur)
      BY <1>0, <2>1, QueueTake DEF OwnInv
    <3> QED BY <2>1, <3>1 DEF OwnTasks
  <2>3. cur' = Remove(cur, h) /\ kaddr' = IF urbs[cur[h]].kind = "setaddr" THEN 1 ELSE kaddr
    BY <1>2, <2>2 DEF RunGiveback
  <2>4. DOMAIN cur' = DOMAIN cur \ {h} /\ \A g \in DOMAIN cur' : cur'[g] = cur[g]
    BY <2>3 DEF Remove
  <2>5. Given <=> Given' \/ Gives(t, urbs)
    BY <1>0, GivenTake DEF Given
  <2> HIDE DEF h, t
  <2>6. ConnInv'
    BY <1>0, <2>1 DEF AddrInv, ConnInv
  <2>7. CASE Gives(t, urbs)
    <3>1. urbs[cur[h]].kind = "setaddr"
      BY <2>2, <2>7 DEF Gives
    <3>2. DOMAIN cur' = {}
      BY <2>2, <2>4, <3>1 DEF AddrInv, CurInv
    <3>3. CurInv'
      BY <3>2 DEF CurInv, PendingIn
    <3>4. ~Given'
      <4>1. tasks' \in Seq(OwnTasks(cur'))
        BY <2>1 DEF OwnInv
      <4>2. ~PendingIn(cur', urbs')
        BY <3>2 DEF PendingIn
      <4> QED BY <4>1, <4>2, GivenPends DEF Given
    <3>5. bAddr = 1 /\ ~DoneIn(work)
      BY <2>5, <2>7 DEF AddrInv, BookInv
    <3>6. BookInv'
      BY <1>0, <2>3, <3>1, <3>4, <3>5 DEF BookInv
    <3> QED BY <1>0, <2>6, <3>3, <3>6 DEF AddrInv
  <2>8. CASE ~Gives(t, urbs)
    <3>1. UNCHANGED kaddr
      BY <2>1, <2>2, <2>3, <2>8 DEF Gives
    <3>2. CurInv'
      BY <1>0, <2>1, <2>4, <3>1 DEF AddrInv, CurInv, PendingIn
    <3>3. BookInv'
      BY <1>0, <2>1, <2>5, <2>8, <3>1 DEF AddrInv, BookInv
    <3> QED BY <1>0, <2>6, <3>2, <3>3 DEF AddrInv
  <2> QED BY <2>7, <2>8
<1> QED BY <1>1, <1>2 DEF BlockingThread

LEMMA AddrStep ==
  ASSUME AddrInv, ResetInv, BaseInv, MeaningInv, [Next]_vars
  PROVE  AddrInv'
<1> USE DEF BaseInv, MeaningInv, ResultsInv
<1>1. CASE Guest /\ UNCHANGED <<borrowVars, streamVars, lendVars>>
  BY <1>1, AddrGuest
<1>2. CASE Borrower(BorrowSend)
  BY <1>2, AddrBorrowSend DEF Borrower
<1>3. CASE Borrower(BorrowRecv)
  BY <1>3, AddrBorrowRecv DEF Borrower
<1>4. CASE BlockingThread
  BY <1>4, AddrThread, OwnStep
<1>5. CASE SendJoined
  <2>1. /\ UNCHANGED <<port, kaddr, urbs, cur, work, bAddr, Resets>>
        /\ tasks' = Append(tasks, Disconnect)
    BY <1>5 DEF SendJoined, mainUnchanged, Resets
  <2>2. ~Gives(Disconnect, urbs)
    BY DEF Gives, Disconnect
  <2> QED BY <2>1, <2>2, AddrQueued
<1>6. CASE RecvJoined \/ RecvJoinPanic \/ Disconnected \/ CancelBorrow \/ StreamStopped
  BY <1>6, AddrKept DEF RecvJoined, RecvJoinPanic, Disconnected, CancelBorrow, mainUnchanged,
     StreamStopped, sendUnchanged, vhciVars, Resets
<1>7. CASE UNCHANGED <<vhciVars, borrowVars>>
  BY <1>7, AddrKept DEF vhciVars, borrowVars, Resets
<1> QED BY <1>1, <1>2, <1>3, <1>4, <1>5, <1>6, <1>7 DEF Next, Borrower, Lender, vars, BorrowMain

LEMMA InitAddr == Init => AddrInv
<1> SUFFICES ASSUME Init PROVE AddrInv
  OBVIOUS
<1>1. /\ work = <<PortStat(Connected)>> /\ DOMAIN handles = {} /\ DOMAIN cur = {} /\ tasks = <<>>
      /\ port = "connected"
  BY DEF Init, VhciInit, BorrowInit, EmptyMap
<1>2. /\ PortStat(Connected) # PortStat(ResetDone) /\ ~AsksUrb(PortStat(Connected))
  BY ItemsDiffer, StatsTell DEF AsksUrb, PortStat
<1>3. ConnInv
  BY <1>1, <1>2 DEF ConnInv, ConnFirst, ConnIn, DoneIn, NoneAsks, Holds, Resets, ResetsIn
<1>4. CurInv
  BY <1>1 DEF CurInv, PendingIn
<1>5. BookInv
  BY <1>1 DEF BookInv, Given, GivenIn
<1>6. AddrWork(work, urbs, bAddr)
  BY <1>1, <1>2 DEF AddrWork, SetsAlone, Carries, SetsAddr
<1> QED BY <1>3, <1>4, <1>5, <1>6 DEF AddrInv

(* AddressAgrees, process_urb's debug_assert: the borrower works the address
   out from port status reports and the SET_ADDRESS it answers itself, and
   the controller from the completions the borrower sends it; a URB that the
   send loop takes carries the address that the loop has. *)
THEOREM AddressesAgree == Spec => []AddressAgrees
<1> DEFINE Inv == BaseInv /\ MeaningInv /\ ResetInv /\ AddrInv
<1>1. Init => Inv
  BY InitBase, InitMeaning, InitReset, InitAddr
<1>2. Inv /\ [Next]_vars => Inv'
  BY BaseStep, MeaningStep, ResetStep, AddrStep
<1>3. Inv => AddressAgrees
  <2> SUFFICES ASSUME Inv, work # <<>>, Head(work).op = "ProcessUrb", urbs[Head(work).u].kind # "setaddr"
               PROVE  Head(work).addr = bAddr
    BY DEF AddressAgrees
  <2>1. work \in Seq(Work)
    BY DEF BaseInv, TypeInv, TypeOK, VhciTypeOK
  <2>2. 1 \in DOMAIN work /\ Head(work) = work[1] /\ \A j \in DOMAIN work : j \in Nat /\ j >= 1
    BY <2>1, ItemTake
  <2>3. ~DoneBefore(work, 1)
    BY <2>2 DEF DoneBefore
  <2> QED BY <2>2, <2>3 DEF AddrInv, AddrWork, Carries, AsksUrb, SetsAddr
<1> QED BY <1>1, <1>2, <1>3, PTL DEF Spec

-----------------------------------------------------------------------------
(* The session as a service to the guest. *)

(* The maps of the service are the maps of the session. *)
LEMMA ServiceMaps ==
  /\ Service!EmptyMap = EmptyMap
  /\ \A f, k, v : Service!Insert(f, k, v) = Insert(f, k, v)
BY DEF Service!EmptyMap, EmptyMap, Service!Insert, Insert

LEMMA InitService == Init => Service!ServiceInit
<1> SUFFICES ASSUME Init PROVE Service!ServiceInit
  OBVIOUS
<1>1. urbs = <<>> /\ outcome = EmptyMap /\ unlinked = {} /\ port = "connected" /\ DOMAIN xfer = {}
  BY EmptyIsMap DEF Init, VhciInit, LendInit
<1>2. DOMAIN outcome = {} /\ DOMAIN urbs = {}
  BY <1>1, EmptyIsMap
<1>3. requested = EmptyMap
  BY <1>2 DEF requested, EmptyMap
<1>4. carriedOut = EmptyMap
  <2>1. executed = {} /\ addressed = {}
    BY <1>1, <1>2 DEF executed, addressed
  <2> QED BY <2>1 DEF carriedOut, EmptyMap
<1>5. (port # "gone") = TRUE
  BY <1>1
<1> QED BY <1>1, <1>3, <1>4, <1>5, ServiceMaps DEF Service!ServiceInit

-----------------------------------------------------------------------------
(* What was carried out, for transfers x, their URBs uo, shapes us of the URBs
   and outcomes oc: d holds the result of each, if no URB has two transfers
   and the borrower keeps every SET_ADDRESS to itself. *)
ExecutedIn(x) == {s \in DOMAIN x : x[s].kind # "reset" /\ x[s].res # "none"}
AddressedIn(us, oc) == {u \in DOMAIN oc : us[u].kind = "setaddr" /\ oc[u] # "Shutdown"}
CarriedOut(x, uo, us, oc) ==
  [u \in {uo[s] : s \in ExecutedIn(x)} \cup AddressedIn(us, oc) |->
     IF u \in AddressedIn(us, oc) THEN oc[u]
     ELSE reported(resultOf(x[CHOOSE s \in ExecutedIn(x) : uo[s] = u]))]
OneEach(x, uo, us) ==
  /\ \A s, t \in ExecutedIn(x) : uo[s] = uo[t] => s = t
  /\ \A s \in ExecutedIn(x) : us[uo[s]].kind # "setaddr"
Tells(d, x, uo, us, oc) ==
  /\ d = [u \in DOMAIN d |-> d[u]]
  /\ DOMAIN d = {uo[s] : s \in ExecutedIn(x)} \cup AddressedIn(us, oc)
  /\ \A s \in ExecutedIn(x) : d[uo[s]] = reported(resultOf(x[s]))
  /\ \A u \in AddressedIn(us, oc) : d[u] = oc[u]

LEMMA CarriedOutTells ==
  ASSUME NEW x, NEW uo, NEW us, NEW oc, OneEach(x, uo, us)
  PROVE  Tells(CarriedOut(x, uo, us, oc), x, uo, us, oc)
<1> DEFINE E == ExecutedIn(x)
           A == AddressedIn(us, oc)
           D == {uo[s] : s \in E} \cup A
           d == CarriedOut(x, uo, us, oc)
<1>1. /\ d = [u \in DOMAIN d |-> d[u]] /\ DOMAIN d = D
      /\ \A u \in D : d[u] = IF u \in A THEN oc[u] ELSE reported(resultOf(x[CHOOSE s \in E : uo[s] = u]))
  BY DEF CarriedOut
<1>2. ASSUME NEW s \in E PROVE uo[s] \in D /\ uo[s] \notin A /\ (CHOOSE t \in E : uo[t] = uo[s]) = s
  <2>1. uo[s] \in D
    OBVIOUS
  <2>2. uo[s] \notin A
    BY DEF OneEach, AddressedIn
  <2>3. \A t \in E : uo[t] = uo[s] => t = s
    BY DEF OneEach
  <2> HIDE DEF E, A, D
  <2>4. (CHOOSE t \in E : uo[t] = uo[s]) \in E /\ uo[CHOOSE t \in E : uo[t] = uo[s]] = uo[s]
    OBVIOUS
  <2> QED BY <2>1, <2>2, <2>3, <2>4
<1> HIDE DEF E, D, d
<1>3. \A s \in E : d[uo[s]] = reported(resultOf(x[s]))
  BY <1>1, <1>2
<1>4. \A u \in A : d[u] = oc[u]
  BY <1>1 DEF D
<1> QED BY <1>1, <1>3, <1>4 DEF E, D, d, Tells

(* Nothing more was carried out, or one more URB. *)
LEMMA TellsSame ==
  ASSUME NEW d, NEW x, NEW uo, NEW us, NEW oc, Tells(d, x, uo, us, oc),
         NEW e, NEW y, NEW vo, NEW vs, NEW pc, Tells(e, y, vo, vs, pc),
         ExecutedIn(y) = ExecutedIn(x), AddressedIn(vs, pc) = AddressedIn(us, oc),
         \A s \in ExecutedIn(x) : vo[s] = uo[s] /\ resultOf(y[s]) = resultOf(x[s]),
         \A u \in AddressedIn(us, oc) : pc[u] = oc[u]
  PROVE  e = d
<1>1. DOMAIN e = DOMAIN d
  BY DEF Tells
<1>2. \A u \in DOMAIN d : e[u] = d[u]
  BY DEF Tells
<1> QED BY <1>1, <1>2 DEF Tells

LEMMA TellsMore ==
  ASSUME NEW d, NEW x, NEW uo, NEW us, NEW oc, Tells(d, x, uo, us, oc),
         NEW e, NEW y, Tells(e, y, uo, us, oc), OneEach(y, uo, us),
         NEW s, s \notin ExecutedIn(x), ExecutedIn(y) = ExecutedIn(x) \cup {s},
         \A t \in ExecutedIn(x) : resultOf(y[t]) = resultOf(x[t])
  PROVE  /\ e = Insert(d, uo[s], reported(resultOf(y[s])))
         /\ uo[s] \notin DOMAIN d
<1> DEFINE i == Insert(d, uo[s], reported(resultOf(y[s])))
<1>1. uo[s] \notin DOMAIN d
  BY DEF Tells, OneEach, AddressedIn
<1>2. DOMAIN i = DOMAIN d \cup {uo[s]} /\ i[uo[s]] = reported(resultOf(y[s]))
      /\ \A u \in DOMAIN d : i[u] = d[u]
  BY <1>1 DEF Insert
<1>3. i = [u \in DOMAIN i |-> i[u]]
  BY DEF Insert
<1> HIDE DEF i
<1>4. DOMAIN e = DOMAIN i
  BY <1>2 DEF Tells
<1>5. \A u \in DOMAIN i : e[u] = i[u]
  BY <1>2 DEF Tells
<1> QED BY <1>1, <1>3, <1>4, <1>5 DEF Tells, i

LEMMA TellsAddressed ==
  ASSUME NEW d, NEW x, NEW uo, NEW us, NEW oc, Tells(d, x, uo, us, oc), OneEach(x, uo, us),
         NEW e, NEW pc, Tells(e, x, uo, us, pc),
         NEW u, u \notin DOMAIN oc, us[u].kind = "setaddr",
         pc = Insert(oc, u, "Success")
  PROVE  e = Insert(d, u, "Success") /\ u \notin DOMAIN d
<1> DEFINE i == Insert(d, u, "Success")
<1>1. u \notin DOMAIN d
  BY DEF Tells, OneEach, AddressedIn
<1>2. DOMAIN i = DOMAIN d \cup {u} /\ i[u] = "Success" /\ \A v \in DOMAIN d : i[v] = d[v]
  BY <1>1 DEF Insert
<1>3. i = [v \in DOMAIN i |-> i[v]]
  BY DEF Insert
<1>4. AddressedIn(us, pc) = AddressedIn(us, oc) \cup {u} /\ pc[u] = "Success"
      /\ \A v \in AddressedIn(us, oc) : pc[v] = oc[v]
  BY DEF AddressedIn, Insert
<1> HIDE DEF i
<1>5. DOMAIN e = DOMAIN i
  BY <1>2, <1>4 DEF Tells
<1>6. \A v \in DOMAIN i : e[v] = i[v]
  BY <1>2, <1>4 DEF Tells
<1> QED BY <1>1, <1>3, <1>5, <1>6 DEF Tells, i
-----------------------------------------------------------------------------
(* A URB is asked for once and has one sequence number. *)
SoleUrbs(uo, us) ==
  /\ \A s, t \in DOMAIN uo : uo[s] = uo[t] /\ uo[s] # 0 => s = t
  /\ \A s \in DOMAIN uo : uo[s] # 0 => uo[s] \in DOMAIN us
SoleWork(wk, uo) ==
  /\ \A i, j \in DOMAIN wk : AsksUrb(wk[i]) /\ AsksUrb(wk[j]) /\ wk[i].u = wk[j].u => i = j
  /\ \A i \in DOMAIN wk : AsksUrb(wk[i]) => \A s \in DOMAIN uo : uo[s] # wk[i].u
SoleInv == SoleUrbs(urbOf, urbs) /\ SoleWork(work, urbOf)

LEMMA SolePut ==
  ASSUME NEW wk \in Seq(Work), NEW uo, SoleWork(wk, uo), NEW e,
         AsksUrb(e) => /\ \A i \in DOMAIN wk : AsksUrb(wk[i]) => wk[i].u # e.u
                       /\ \A s \in DOMAIN uo : uo[s] # e.u
  PROVE  SoleWork(Append(wk, e), uo)
<1> DEFINE q == Append(wk, e)
<1>1. /\ \A i \in DOMAIN q : (i \in DOMAIN wk /\ q[i] = wk[i]) \/ (i = Len(wk) + 1 /\ q[i] = e)
  BY ItemPut
<1> HIDE DEF q
<1>2. \A i, j \in DOMAIN q : AsksUrb(q[i]) /\ AsksUrb(q[j]) /\ q[i].u = q[j].u => i = j
  BY <1>1 DEF SoleWork
<1>3. \A i \in DOMAIN q : AsksUrb(q[i]) => \A s \in DOMAIN uo : uo[s] # q[i].u
  BY <1>1 DEF SoleWork
<1> QED BY <1>2, <1>3 DEF SoleWork, q

LEMMA SoleTake ==
  ASSUME NEW wk \in Seq(Work), wk # <<>>, NEW uo, SoleWork(wk, uo)
  PROVE  /\ SoleWork(Tail(wk), uo)
         /\ AsksUrb(Head(wk)) =>
              /\ \A s \in DOMAIN uo : uo[s] # Head(wk).u
              /\ \A i \in DOMAIN Tail(wk) : AsksUrb(Tail(wk)[i]) => Tail(wk)[i].u # Head(wk).u
<1> DEFINE q == Tail(wk)
<1>1. /\ 1 \in DOMAIN wk /\ Head(wk) = wk[1]
      /\ \A i \in DOMAIN q : i \in Nat /\ i >= 1 /\ i + 1 \in DOMAIN wk /\ q[i] = wk[i + 1]
  BY ItemTake
<1> HIDE DEF q
<1>2. ASSUME NEW i \in DOMAIN q, NEW j \in DOMAIN q, AsksUrb(q[i]), AsksUrb(q[j]), q[i].u = q[j].u
      PROVE  i = j
  <2>1. i + 1 = j + 1 /\ i \in Nat /\ j \in Nat
    BY <1>1, <1>2 DEF SoleWork
  <2> QED BY <2>1
<1>3. \A i \in DOMAIN q : AsksUrb(q[i]) => \A s \in DOMAIN uo : uo[s] # q[i].u
  BY <1>1 DEF SoleWork
<1>4. ASSUME AsksUrb(Head(wk)), NEW i \in DOMAIN q, AsksUrb(q[i]), q[i].u = Head(wk).u PROVE FALSE
  <2>1. i + 1 = 1 /\ i \in Nat /\ i >= 1
    BY <1>1, <1>4 DEF SoleWork
  <2> QED BY <2>1
<1>5. AsksUrb(Head(wk)) => \A s \in DOMAIN uo : uo[s] # Head(wk).u
  BY <1>1 DEF SoleWork
<1> QED BY <1>2, <1>3, <1>4, <1>5 DEF SoleWork, q

(* Number n is drawn for u. *)
LEMMA SoleDrawn ==
  ASSUME NEW uo, NEW us, SoleUrbs(uo, us), NEW n, n \notin DOMAIN uo, NEW u,
         u = 0 \/ (u \in DOMAIN us /\ \A s \in DOMAIN uo : uo[s] # u)
  PROVE  SoleUrbs(Insert(uo, n, u), us)
<1> DEFINE vo == Insert(uo, n, u)
<1>1. DOMAIN vo = DOMAIN uo \cup {n} /\ vo[n] = u /\ \A s \in DOMAIN uo : vo[s] = uo[s]
  BY DEF Insert
<1> HIDE DEF vo
<1> QED BY <1>1 DEF SoleUrbs, vo

LEMMA SoleWorkDrawn ==
  ASSUME NEW wk, NEW uo, SoleWork(wk, uo), NEW n, n \notin DOMAIN uo, NEW u,
         \A i \in DOMAIN wk : AsksUrb(wk[i]) => wk[i].u # u
  PROVE  SoleWork(wk, Insert(uo, n, u))
<1> DEFINE vo == Insert(uo, n, u)
<1>1. DOMAIN vo = DOMAIN uo \cup {n} /\ vo[n] = u /\ \A s \in DOMAIN uo : vo[s] = uo[s]
  BY DEF Insert
<1> HIDE DEF vo
<1> QED BY <1>1 DEF SoleWork, vo

LEMMA SoleGuest ==
  ASSUME SoleInv, TypeInv, Guest, UNCHANGED borrowVars
  PROVE  SoleInv'
<1>0. /\ work \in Seq(Work) /\ urbs \in Seq(Shapes) /\ UNCHANGED urbOf
      /\ \A i \in DOMAIN work : AsksUrb(work[i]) => work[i].u \in DOMAIN urbs
  BY DEF TypeInv, TypeOK, VhciTypeOK, WorkOK, AsksUrb, borrowVars
<1>1. ASSUME NEW h \in Handles, NEW shape \in Shapes, Submit(h, shape) PROVE SoleInv'
  <2> DEFINE u == Len(urbs) + 1
             e == ProcessUrb(h, u, kaddr)
  <2>1. urbs' = Append(urbs, shape) /\ work' = Append(work, e)
    BY <1>1 DEF Submit
  <2>2. DOMAIN urbs \subseteq DOMAIN urbs' /\ u \notin DOMAIN urbs /\ u # 0
    BY <1>0, <2>1
  <2>3. e.u = u
    BY DEF ProcessUrb
  <2> HIDE DEF u, e
  <2>4. \A s \in DOMAIN urbOf : urbOf[s] # u
    BY <2>2 DEF SoleInv, SoleUrbs
  <2>5. SoleWork(work', urbOf)
    BY <1>0, <2>1, <2>2, <2>3, <2>4, SolePut DEF SoleInv
  <2>6. SoleUrbs(urbOf, urbs')
    BY <2>2 DEF SoleInv, SoleUrbs
  <2> QED BY <1>0, <2>5, <2>6 DEF SoleInv
<1>2. ASSUME NEW h \in Handles, Unlink(h) PROVE SoleInv'
  <2>1. work' = Append(work, CancelUrb(h)) /\ UNCHANGED urbs
    BY <1>2 DEF Unlink
  <2>2. ~AsksUrb(CancelUrb(h))
    BY DEF AsksUrb, CancelUrb
  <2> QED BY <1>0, <2>1, <2>2, SolePut DEF SoleInv
<1>3. CASE ResetPort
  <2>1. work' = Append(work, PortStat(Resetting)) /\ UNCHANGED urbs
    BY <1>3 DEF ResetPort
  <2>2. ~AsksUrb(PortStat(Resetting))
    BY DEF AsksUrb, PortStat
  <2> QED BY <1>0, <2>1, <2>2, SolePut DEF SoleInv
<1> QED BY <1>1, <1>2, <1>3 DEF Guest

LEMMA SoleBorrowSend ==
  ASSUME SoleInv, TypeInv, PipeInv, BorrowSend
  PROVE  SoleInv'
<1>0. /\ work \in Seq(Work)
      /\ \A i \in DOMAIN work : AsksUrb(work[i]) => work[i].u \in DOMAIN urbs /\ work[i].u # 0
  <2>1. work \in Seq(Work) /\ urbs \in Seq(Shapes)
    BY DEF TypeInv, TypeOK, VhciTypeOK
  <2>2. \A i \in DOMAIN work : AsksUrb(work[i]) => work[i].u \in DOMAIN urbs
    BY DEF TypeInv, WorkOK, AsksUrb
  <2> QED BY <2>1, <2>2
<1>1. curSeq \notin DOMAIN urbOf
  <2>1. \A s \in DOMAIN urbOf : s < curSeq
    BY DEF PipeInv, Numbers
  <2>2. curSeq \in Nat
    BY BorrowAssumption DEF TypeInv, TypeOK, BorrowTypeOK
  <2> QED BY <2>1, <2>2
<1>2. UNCHANGED urbs
  BY DEF BorrowSend, port_stat, set_address, process_urb, cancel_urb, FlushBuf, WriteFrame,
     FlushComplete, EndSendLoop, vhciVars
<1>3. ASSUME work # <<>>, work' = Tail(work), NEW u, NEW h, nextSeqnum(h, u),
             u = 0 \/ (AsksUrb(Head(work)) /\ u = Head(work).u)
      PROVE  SoleInv'
  <2>1. urbOf' = Insert(urbOf, curSeq, u)
    BY <1>3 DEF nextSeqnum
  <2>2. /\ SoleWork(Tail(work), urbOf)
        /\ AsksUrb(Head(work)) =>
              /\ \A s \in DOMAIN urbOf : urbOf[s] # Head(work).u
              /\ \A i \in DOMAIN Tail(work) : AsksUrb(Tail(work)[i]) => Tail(work)[i].u # Head(work).u
    BY <1>0, <1>3, SoleTake DEF SoleInv
  <2>3. /\ Head(work) = work[1] /\ 1 \in DOMAIN work
        /\ \A i \in DOMAIN Tail(work) : i + 1 \in DOMAIN work /\ Tail(work)[i] = work[i + 1]
    BY <1>0, <1>3, ItemTake
  <2>4. u = 0 \/ (u \in DOMAIN urbs /\ \A s \in DOMAIN urbOf : urbOf[s] # u)
    BY <1>0, <1>3, <2>2, <2>3
  <2>5. \A i \in DOMAIN Tail(work) : AsksUrb(Tail(work)[i]) => Tail(work)[i].u # u
    BY <1>0, <1>3, <2>2, <2>3
  <2>6. SoleUrbs(urbOf', urbs)
    BY <1>1, <2>1, <2>4, SoleDrawn DEF SoleInv
  <2>7. SoleWork(work', urbOf')
    BY <1>1, <1>3, <2>1, <2>2, <2>5, SoleWorkDrawn
  <2> QED BY <1>2, <2>6, <2>7 DEF SoleInv
<1>4. CASE port_stat
  <2>1. work # <<>> /\ work' = Tail(work)
    BY <1>4 DEF port_stat, TakeWork
  <2>2. CASE UNCHANGED urbOf
    BY <1>0, <1>2, <2>1, <2>2, SoleTake DEF SoleInv
  <2>3. CASE \E h : nextSeqnum(h, 0)
    BY <1>3, <2>1, <2>3
  <2> QED BY <1>4, <2>2, <2>3 DEF port_stat
<1>5. CASE process_urb
  <2>1. work # <<>> /\ work' = Tail(work) /\ AsksUrb(Head(work)) /\ nextSeqnum(Head(work).h, Head(work).u)
    BY <1>5 DEF process_urb, TakeWork, AsksUrb
  <2> QED BY <1>3, <2>1
<1>6. CASE set_address \/ cancel_urb
  <2>1. work # <<>> /\ work' = Tail(work) /\ UNCHANGED urbOf
    BY <1>6 DEF set_address, cancel_urb, TakeWork
  <2> QED BY <1>0, <1>2, <2>1, SoleTake DEF SoleInv
<1>7. CASE FlushBuf \/ WriteFrame \/ FlushComplete \/ EndSendLoop
  <2>1. UNCHANGED <<work, urbOf>>
    BY <1>7 DEF FlushBuf, WriteFrame, FlushComplete, EndSendLoop, sendUnchanged, vhciVars
  <2> QED BY <1>2, <2>1 DEF SoleInv
<1> QED BY <1>4, <1>5, <1>6, <1>7 DEF BorrowSend

LEMMA SoleStep ==
  ASSUME SoleInv, BaseInv, [Next]_vars
  PROVE  SoleInv'
<1> USE DEF BaseInv
<1>1. CASE Guest /\ UNCHANGED <<borrowVars, streamVars, lendVars>>
  BY <1>1, SoleGuest
<1>2. CASE Borrower(BorrowSend)
  BY <1>2, SoleBorrowSend DEF Borrower
<1>3. CASE device_reset
  <2>1. work' = Append(work, PortStat(ResetDone)) /\ UNCHANGED <<urbs, urbOf>>
    BY <1>3 DEF device_reset, PortResetDone, recvUnchanged
  <2>2. ~AsksUrb(PortStat(ResetDone)) /\ work \in Seq(Work)
    BY DEF AsksUrb, PortStat, TypeInv, TypeOK, VhciTypeOK
  <2> QED BY <2>1, <2>2, SolePut DEF SoleInv
<1>4. CASE UNCHANGED <<work, urbs, urbOf>>
  BY <1>4 DEF SoleInv
<1>5. CASE BorrowRecv /\ ~device_reset
  BY <1>4, <1>5 DEF BorrowRecv, urb_reply, RecvPanic, EndRecvLoop, DrainRead, DrainEnd, recvUnchanged, vhciVars
<1>6. CASE BorrowMain \/ CancelBorrow \/ BlockingThread \/ StreamStopped
  BY <1>4, <1>6 DEF BorrowMain, RecvJoined, RecvJoinPanic, SendJoined, Disconnected, CancelBorrow,
     mainUnchanged, BlockingThread, RunGiveback, RunDisconnect, borrowVars, StreamStopped, sendUnchanged,
     vhciVars
<1>7. CASE UNCHANGED <<vhciVars, borrowVars>>
  BY <1>4, <1>7 DEF vhciVars, borrowVars
<1> QED BY <1>1, <1>2, <1>3, <1>5, <1>6, <1>7 DEF Next, Borrower, Lender, vars

LEMMA InitSole == Init => SoleInv
<1> SUFFICES ASSUME Init PROVE SoleInv
  OBVIOUS
<1>1. work = <<PortStat(Connected)>> /\ DOMAIN urbOf = {}
  BY EmptyIsMap DEF Init, VhciInit, BorrowInit
<1> QED BY <1>1 DEF SoleInv, SoleUrbs, SoleWork
-----------------------------------------------------------------------------
(* A URB that was submitted has one handle, or it was returned. *)
Curs(cu) == {cu[h] : h \in DOMAIN cu}
Placed(us, oc, cu) ==
  /\ DOMAIN us = DOMAIN oc \cup Curs(cu)
  /\ \A h \in DOMAIN cu : cu[h] \notin DOMAIN oc
  /\ \A h, g \in DOMAIN cu : cu[h] = cu[g] => h = g
PlaceInv == Placed(urbs, outcome, cur)

LEMMA PlaceStep ==
  ASSUME PlaceInv, TypeInv, GivebackMatches, [Next]_vars
  PROVE  PlaceInv'
<1>1. CASE UNCHANGED <<urbs, outcome, cur>>
  BY <1>1 DEF PlaceInv
<1>2. ASSUME NEW h \in Handles, NEW shape \in Shapes, Submit(h, shape) PROVE PlaceInv'
  <2> DEFINE u == Len(urbs) + 1
  <2>1. /\ urbs' = Append(urbs, shape) /\ cur' = Insert(cur, h, u) /\ h \notin DOMAIN cur
        /\ UNCHANGED outcome /\ urbs \in Seq(Shapes)
    BY <1>2 DEF Submit, TypeInv, TypeOK, VhciTypeOK
  <2>2. DOMAIN urbs' = DOMAIN urbs \cup {u} /\ u \notin DOMAIN urbs
    BY <2>1
  <2>3. DOMAIN cur' = DOMAIN cur \cup {h} /\ cur'[h] = u /\ \A g \in DOMAIN cur : cur'[g] = cur[g]
    BY <2>1 DEF Insert
  <2> HIDE DEF u
  <2>4. Curs(cur') = Curs(cur) \cup {u}
    BY <2>1, <2>3 DEF Curs
  <2>5. u \notin DOMAIN outcome /\ u \notin Curs(cur)
    BY <2>2 DEF PlaceInv, Placed
  <2>6. \A g \in DOMAIN cur : cur[g] \in Curs(cur)
    BY DEF Curs
  <2> QED BY <2>1, <2>2, <2>3, <2>4, <2>5, <2>6 DEF PlaceInv, Placed
<1>3. CASE RunGiveback
  <2> DEFINE h == Head(tasks).h
             r == Head(tasks).res
  <2>1. h \in DOMAIN cur
    BY <1>3, ItemTake DEF RunGiveback, GivebackMatches, TypeInv, TypeOK, VhciTypeOK
  <2>2. cur' = Remove(cur, h) /\ outcome' = Insert(outcome, cur[h], r) /\ UNCHANGED urbs
    BY <1>3, <2>1 DEF RunGiveback
  <2> HIDE DEF h, r
  <2>3. DOMAIN cur' = DOMAIN cur \ {h} /\ \A g \in DOMAIN cur' : cur'[g] = cur[g]
    BY <2>2 DEF Remove
  <2>4. DOMAIN outcome' = DOMAIN outcome \cup {cur[h]}
    BY <2>2 DEF Insert
  <2>5. Curs(cur) = Curs(cur') \cup {cur[h]}
    BY <2>1, <2>3 DEF Curs
  <2>6. \A g \in DOMAIN cur' : cur'[g] # cur[h]
    BY <2>1, <2>3 DEF PlaceInv, Placed
  <2> QED BY <2>2, <2>3, <2>4, <2>5, <2>6 DEF PlaceInv, Placed
<1>4. CASE RunDisconnect
  <2>1. DOMAIN cur' = {} /\ DOMAIN outcome' = DOMAIN outcome \cup Curs(cur) /\ UNCHANGED urbs
    BY <1>4, EmptyIsMap DEF RunDisconnect, Curs
  <2>2. Curs(cur') = {}
    BY <2>1 DEF Curs
  <2> QED BY <2>1, <2>2 DEF PlaceInv, Placed
<1>6. CASE Guest
  <2>1. (\E h \in Handles, shape \in Shapes : Submit(h, shape)) \/ UNCHANGED <<urbs, outcome, cur>>
    BY <1>6 DEF Guest, Unlink, ResetPort
  <2> QED BY <1>1, <1>2, <2>1
<1>7. CASE BorrowSend \/ StreamStopped
  BY <1>1, <1>7 DEF BorrowSend, port_stat, set_address, process_urb, cancel_urb, FlushBuf, WriteFrame,
     FlushComplete, EndSendLoop, StreamStopped, vhciVars
<1>8. CASE BorrowRecv
  BY <1>1, <1>8 DEF BorrowRecv, urb_reply, device_reset, RecvPanic, EndRecvLoop, DrainRead, DrainEnd, vhciVars
<1>9. CASE BorrowMain \/ CancelBorrow
  BY <1>1, <1>9 DEF BorrowMain, RecvJoined, RecvJoinPanic, SendJoined, Disconnected, CancelBorrow,
     mainUnchanged
<1>10. CASE UNCHANGED vhciVars
  BY <1>1, <1>10 DEF vhciVars
<1> QED BY <1>3, <1>4, <1>6, <1>7, <1>8, <1>9, <1>10 DEF Next, Borrower, Lender, BlockingThread, vars

LEMMA InitPlace == Init => PlaceInv
<1> SUFFICES ASSUME Init PROVE PlaceInv
  OBVIOUS
<1>1. DOMAIN urbs = {} /\ DOMAIN outcome = {} /\ DOMAIN cur = {}
  BY EmptyIsMap DEF Init, VhciInit
<1>2. Curs(cur) = {}
  BY <1>1 DEF Curs
<1> QED BY <1>1, <1>2 DEF PlaceInv, Placed

-----------------------------------------------------------------------------
(* A giveback that waits on the blocking thread carries the result of the one
   execution of its URB. *)
Earned(t, x, uo, us) ==
  t.op = "giveback" =>
    /\ t.u \in DOMAIN us
    /\ us[t.u].kind = "setaddr" => t.res = "Success"
    /\ us[t.u].kind # "setaddr" =>
         \E s \in ExecutedIn(x) : /\ uo[s] = t.u /\ resultOf(x[s]).class # "abortable"
                                  /\ t.res = resultOf(x[s]).err
EarnedTasks(x, uo, us) == {t \in Task : Earned(t, x, uo, us)}
EarnedInv == tasks \in Seq(EarnedTasks(xfer, urbOf, urbs))

(* What was executed stays so. *)
LEMMA ExecutedStays ==
  ASSUME NEW x, NEW y, Advanced(x, y)
  PROVE  \A s \in ExecutedIn(x) : s \in ExecutedIn(y) /\ resultOf(y[s]) = resultOf(x[s])
<1> SUFFICES ASSUME NEW s \in ExecutedIn(x)
             PROVE  s \in ExecutedIn(y) /\ resultOf(y[s]) = resultOf(x[s])
  OBVIOUS
<1>1. s \in DOMAIN y /\ x[s].kind = y[s].kind /\ x[s].res = y[s].res
  BY DEF Advanced, ExecutedIn
<1> QED BY <1>1, ResultSame DEF ExecutedIn

LEMMA EarnedStays ==
  ASSUME NEW x, NEW y, NEW uo, NEW vo, NEW us, NEW vs, Advanced(x, y), Extended(uo, vo),
         Extended(us, vs), DOMAIN x \subseteq DOMAIN uo
  PROVE  EarnedTasks(x, uo, us) \subseteq EarnedTasks(y, vo, vs)
<1> SUFFICES ASSUME NEW t \in EarnedTasks(x, uo, us), t.op = "giveback" PROVE Earned(t, y, vo, vs)
  BY DEF EarnedTasks, Earned
<1>1. t.u \in DOMAIN vs /\ vs[t.u] = us[t.u] /\ (us[t.u].kind = "setaddr" => t.res = "Success")
  BY DEF EarnedTasks, Earned, Extended
<1>2. ASSUME us[t.u].kind # "setaddr"
      PROVE  \E s \in ExecutedIn(y) : /\ vo[s] = t.u /\ resultOf(y[s]).class # "abortable"
                                      /\ t.res = resultOf(y[s]).err
  <2>1. PICK s \in ExecutedIn(x) : /\ uo[s] = t.u /\ resultOf(x[s]).class # "abortable"
                                   /\ t.res = resultOf(x[s]).err
    BY <1>2 DEF EarnedTasks, Earned
  <2>2. vo[s] = uo[s]
    BY DEF ExecutedIn, Extended
  <2> QED BY <2>1, <2>2, ExecutedStays
<1> QED BY <1>1, <1>2 DEF Earned
LEMMA EarnedKept ==
  ASSUME EarnedInv, TypeInv, PipeInv, CmdsInv, TransfersInv, [Next]_vars,
         Moved(tasks, tasks', EarnedTasks(xfer', urbOf', urbs'))
  PROVE  EarnedInv'
<1>1. Advanced(xfer, xfer') /\ Extended(urbOf, urbOf') /\ Extended(urbs, urbs')
      /\ DOMAIN xfer \subseteq DOMAIN urbOf
  BY TransfersStep, History DEF PipeInv, Numbers
<1>2. EarnedTasks(xfer, urbOf, urbs) \subseteq EarnedTasks(xfer', urbOf', urbs')
  BY <1>1, EarnedStays
<1> QED BY <1>2, MovedIn DEF EarnedInv

(* SET_ADDRESS succeeds. *)
LEMMA EarnedLocally ==
  ASSUME TypeInv, set_address
  PROVE  UNCHANGED <<xfer, urbOf, urbs>> => Moved(tasks, tasks', EarnedTasks(xfer', urbOf', urbs'))
<1> DEFINE w == Head(work)
           g == Giveback(w.h, w.u, "Success")
<1>1. TakeWork("ProcessUrb") /\ urbs[w.u].kind = "setaddr" /\ tasks' = Append(tasks, g)
  BY DEF set_address
<1>2. w.h \in Handles /\ w.u \in Urb /\ w.u \in DOMAIN urbs
  BY <1>1, TakeWorkType DEF BorrowerInv, TypeInv, TypeOK
<1>3. g \in Task /\ g.op = "giveback" /\ g.u = w.u /\ g.res = "Success"
  BY <1>2 DEF Giveback, Task, AnyHandle, Outcome
<1> HIDE DEF g, w
<1>4. g \in EarnedTasks(xfer, urbOf, urbs)
  BY <1>1, <1>2, <1>3 DEF EarnedTasks, Earned
<1> QED BY <1>1, <1>4 DEF Moved

(* A reply carries what became of its transfer. *)
LEMMA EarnedRemotely ==
  ASSUME TypeInv, PipeInv, OwnInv, HandleInv, RetsInv, TransfersInv, urb_reply
  PROVE  UNCHANGED <<xfer, urbOf, urbs>> => Moved(tasks, tasks', EarnedTasks(xfer', urbOf', urbs'))
<1> DEFINE s == Reply.seq
           g == Giveback(handles[s], urbOf[s], Reply.res)
<1>1. /\ CanRead /\ Reply.cmd = "RetSubmit" /\ parse_status(Reply.status) = "frame"
      /\ tasks' = Append(tasks, g) /\ Expected(s)
  BY DEF urb_reply
<1>2. Reply \in GoodRets(xfer) /\ Reply \in RetFrames(Seqnum)
  BY <1>1, QueueTake DEF CanRead, RetsInv, Reply, GoodRets
<1>3. Reply.status = "Success"
  BY <1>1 DEF parse_status
<1>4. /\ s \in DOMAIN xfer /\ Reply.res = resultOf(xfer[s]).err /\ resultOf(xfer[s]).class # "abortable"
      /\ s \in ExecutedIn(xfer)
  BY <1>1, <1>2, <1>3 DEF GoodRets, GoodRet, Rets, ExecutedIn
<1>5. urbOf[s] # 0
  BY <1>1, ReplyKinds DEF Rets
<1>6. urbOf[s] \in DOMAIN urbs /\ urbs[urbOf[s]].kind = xfer[s].kind
  BY <1>4, <1>5 DEF TransfersInv, GoodTransfer
<1>7. xfer[s].kind # "setaddr"
  <2>1. xfer[s] \in Transfer
    BY <1>4, MapValue DEF TypeInv, TypeOK, LendTypeOK
  <2> QED BY <2>1 DEF Transfer, RemoteKind, Asynchronous, Blocking
<1>8. g \in Task /\ g.op = "giveback" /\ g.u = urbOf[s] /\ g.res = Reply.res
  <2>1. handles[s] \in AnyHandle /\ urbOf[s] \in {0} \cup Urb
    BY <1>1, MapValue DEF Expected, TypeInv, TypeOK, BorrowTypeOK, HandlesKnown
  <2>2. Reply.res \in Outcome
    BY <1>2 DEF RetFrames, Outcome
  <2> QED BY <2>1, <2>2 DEF Giveback, Task
<1> HIDE DEF g, s
<1>9. g \in EarnedTasks(xfer, urbOf, urbs)
  BY <1>4, <1>6, <1>7, <1>8 DEF EarnedTasks, Earned
<1> QED BY <1>1, <1>9 DEF Moved

LEMMA EarnedStep ==
  ASSUME EarnedInv, BaseInv, MeaningInv, [Next]_vars
  PROVE  EarnedInv'
<1> DEFINE E == EarnedTasks(xfer', urbOf', urbs')
<1>0. /\ TypeInv /\ PipeInv /\ HandleInv /\ CmdsInv /\ RetsInv /\ TransfersInv /\ OwnInv
  BY DEF BaseInv, MeaningInv, ResultsInv
<1> SUFFICES Moved(tasks, tasks', E)
  BY <1>0, EarnedKept
<1>1. CASE UNCHANGED tasks
  BY <1>1 DEF Moved
<1>2. CASE Borrower(BorrowSend)
  <2>1. UNCHANGED xfer
    BY <1>2 DEF Borrower, lendVars
  <2>2. CASE set_address
    <3>1. UNCHANGED <<urbOf, urbs>>
      BY <2>2 DEF set_address
    <3> QED BY <1>0, <2>1, <2>2, <3>1, EarnedLocally
  <2>3. CASE ~set_address
    BY <1>1, <1>2, <2>3 DEF Borrower, BorrowSend, port_stat, process_urb, cancel_urb, FlushBuf, WriteFrame,
       FlushComplete, EndSendLoop, vhciVars
  <2> QED BY <2>2, <2>3
<1>3. CASE Borrower(BorrowRecv)
  <2>1. UNCHANGED xfer
    BY <1>3 DEF Borrower, lendVars
  <2>2. CASE urb_reply
    <3>1. UNCHANGED <<urbOf, urbs>>
      BY <2>2 DEF urb_reply, recvUnchanged
    <3> QED BY <1>0, <2>1, <2>2, <3>1, EarnedRemotely
  <2>3. CASE ~urb_reply
    BY <1>1, <1>3, <2>3 DEF Borrower, BorrowRecv, device_reset, RecvPanic, EndRecvLoop, DrainRead, DrainEnd,
       vhciVars
  <2> QED BY <2>2, <2>3
<1>4. CASE BlockingThread
  BY <1>4 DEF BlockingThread, RunGiveback, RunDisconnect, Moved
<1>5. CASE SendJoined
  <2>1. tasks' = Append(tasks, Disconnect)
    BY <1>5 DEF SendJoined
  <2>2. Disconnect \in E
    BY DEF EarnedTasks, Earned, Disconnect, Task
  <2> QED BY <2>1, <2>2 DEF Moved
<1>6. CASE RecvJoined \/ RecvJoinPanic \/ Disconnected \/ CancelBorrow \/ StreamStopped
  BY <1>1, <1>6 DEF RecvJoined, RecvJoinPanic, Disconnected, CancelBorrow, StreamStopped, vhciVars
<1>7. CASE Guest
  BY <1>1, <1>7 DEF Guest, Submit, Unlink, ResetPort
<1>8. CASE UNCHANGED vhciVars
  BY <1>1, <1>8 DEF vhciVars
<1> HIDE DEF E
<1> QED BY <1>2, <1>3, <1>4, <1>5, <1>6, <1>7, <1>8 DEF Next, Borrower, Lender, vars, BorrowMain

LEMMA InitEarned == Init => EarnedInv
BY EmptyQueue DEF Init, VhciInit, EarnedInv
-----------------------------------------------------------------------------
(* The steps of the session are steps of the service. *)
LEMMA OneEachHolds ==
  ASSUME NEW x, NEW uo, NEW us, IsMap(x, LendSeqnum, Transfer), DOMAIN x \subseteq DOMAIN uo,
         SoleUrbs(uo, us), \A s \in DOMAIN x : GoodTransfer(x[s], uo[s], us)
  PROVE  OneEach(x, uo, us) /\ \A s \in ExecutedIn(x) : uo[s] \in DOMAIN us
<1>1. ASSUME NEW s \in ExecutedIn(x)
      PROVE  s \in DOMAIN uo /\ uo[s] # 0 /\ uo[s] \in DOMAIN us /\ us[uo[s]].kind # "setaddr"
  <2>1. x[s] \in Transfer /\ s \in DOMAIN x /\ x[s].kind # "reset"
    BY MapValue DEF ExecutedIn
  <2>2. x[s].kind # "setaddr"
    BY <2>1 DEF Transfer, RemoteKind, Asynchronous, Blocking
  <2> QED BY <2>1, <2>2 DEF GoodTransfer
<1> QED BY <1>1 DEF SoleUrbs, OneEach

LEMMA ResultsTold ==
  ASSUME BaseInv, MeaningInv, SoleInv, BaseInv', MeaningInv', SoleInv'
  PROVE  /\ Tells(carriedOut, xfer, urbOf, urbs, outcome)
         /\ Tells(carriedOut', xfer', urbOf', urbs', outcome')
         /\ OneEach(xfer, urbOf, urbs) /\ OneEach(xfer', urbOf', urbs')
         /\ \A s \in ExecutedIn(xfer') : urbOf'[s] \in DOMAIN urbs'
<1>1. IsMap(xfer, LendSeqnum, Transfer) /\ IsMap(xfer', LendSeqnum, Transfer)
  BY DEF BaseInv, TypeInv, TypeOK, LendTypeOK
<1>2. DOMAIN xfer \subseteq DOMAIN urbOf /\ DOMAIN xfer' \subseteq DOMAIN urbOf'
  BY DEF BaseInv, PipeInv, Numbers
<1>3. SoleUrbs(urbOf, urbs) /\ SoleUrbs(urbOf', urbs')
  BY DEF SoleInv
<1>4. /\ \A s \in DOMAIN xfer : GoodTransfer(xfer[s], urbOf[s], urbs)
      /\ \A s \in DOMAIN xfer' : GoodTransfer(xfer'[s], urbOf'[s], urbs')
  BY DEF MeaningInv, TransfersInv
<1>5. OneEach(xfer, urbOf, urbs) /\ OneEach(xfer', urbOf', urbs')
      /\ \A s \in ExecutedIn(xfer') : urbOf'[s] \in DOMAIN urbs'
  BY <1>1, <1>2, <1>3, <1>4, OneEachHolds
<1>6. carriedOut = CarriedOut(xfer, urbOf, urbs, outcome)
  BY DEF carriedOut, CarriedOut, executed, ExecutedIn, addressed, AddressedIn
<1>7. carriedOut' = CarriedOut(xfer', urbOf', urbs', outcome')
  BY DEF carriedOut, CarriedOut, executed, ExecutedIn, addressed, AddressedIn
<1> QED BY <1>5, <1>6, <1>7, CarriedOutTells

(* Only the device carries anything out. *)
LEMMA ExecutedByDevice ==
  ASSUME TypeInv, PipeInv, CmdsInv, TransfersInv, [Next]_vars, ~Device
  PROVE  ExecutedIn(xfer') = ExecutedIn(xfer)
<1>0. IsMap(xfer, LendSeqnum, Transfer) /\ Advanced(xfer, xfer')
  BY TransfersStep DEF TypeInv, TypeOK, LendTypeOK
<1>1. ExecutedIn(xfer) \subseteq ExecutedIn(xfer')
  BY <1>0, ExecutedStays
<1> SUFFICES ASSUME NEW s \in ExecutedIn(xfer') PROVE s \in ExecutedIn(xfer)
  BY <1>1
<1>2. s \in DOMAIN xfer' /\ xfer'[s].kind # "reset" /\ xfer'[s].res # "none"
  BY DEF ExecutedIn
<1>3. ASSUME s \in DOMAIN xfer, xfer'[s].res = xfer[s].res PROVE s \in ExecutedIn(xfer)
  BY <1>0, <1>2, <1>3 DEF Advanced, ExecutedIn
<1>4. CASE UNCHANGED xfer
  BY <1>4
<1>5. CASE new_transfer \/ blocking_request \/ port_reset
  <2>1. PICK t : xfer' = Insert(xfer, Frame.seq, t) /\ (t.res = "none" \/ t.kind = "reset")
    BY <1>5 DEF new_transfer, blocking_request, port_reset, register_cancel_token, start
  <2>2. s # Frame.seq /\ s \in DOMAIN xfer /\ xfer'[s] = xfer[s]
    BY <1>2, <2>1 DEF Insert
  <2> QED BY <1>3, <2>2
<1>6. ASSUME NEW q \in DOMAIN xfer, completed(q) PROVE s \in ExecutedIn(xfer)
  <2>1. xfer' = StateSet(xfer, q, "gone")
    BY <1>6 DEF completed, StateSet
  <2>2. Others(xfer, xfer', q) /\ xfer'[q].res = xfer[q].res
    BY <1>0, <2>1, StateAdvances
  <2> QED BY <1>2, <1>3, <2>2 DEF Others
<1>7. CASE dropHandler
  <2>1. xfer' = AllGone(xfer)
    BY <1>7 DEF dropHandler, AllGone
  <2>2. DOMAIN xfer' = DOMAIN xfer /\ \A q \in DOMAIN xfer : xfer'[q].res = xfer[q].res
    BY <1>0, <2>1, DropAdvances
  <2> QED BY <1>2, <1>3, <2>2
<1>8. CASE LendThread /\ lTasks # <<>> /\ xfer[Head(lTasks)].st = "queued"
  <2> DEFINE q == Head(lTasks)
  <2>1. xfer' = StateSet(xfer, q, "inflight")
    BY <1>8 DEF LendThread, StateSet
  <2>2. CASE q \in DOMAIN xfer
    <3>1. Others(xfer, xfer', q) /\ xfer'[q].res = xfer[q].res
      BY <1>0, <2>1, <2>2, StateAdvances
    <3> QED BY <1>2, <1>3, <3>1 DEF Others
  <2>3. CASE q \notin DOMAIN xfer
    <3>1. DOMAIN xfer' = DOMAIN xfer /\ \A r \in DOMAIN xfer : xfer'[r] = xfer[r]
      BY <2>1, <2>3 DEF StateSet
    <3> QED BY <1>2, <1>3, <3>1
  <2> QED BY <2>2, <2>3
<1> QED BY <1>4, <1>5, <1>6, <1>7, <1>8, XferCases

(* Unless the device is done or a URB is returned, nothing new is carried out. *)
LEMMA NothingDone ==
  ASSUME BaseInv, MeaningInv, SoleInv, BaseInv', MeaningInv', SoleInv', [Next]_vars, UNCHANGED xfer \/ ~Device,
         AddressedIn(urbs', outcome') = AddressedIn(urbs, outcome),
         \A u \in AddressedIn(urbs, outcome) : outcome'[u] = outcome[u]
  PROVE  UNCHANGED carriedOut
<1>0. TypeInv /\ PipeInv /\ CmdsInv /\ TransfersInv
  BY DEF BaseInv, MeaningInv
<1>1. Advanced(xfer, xfer') /\ Extended(urbOf, urbOf') /\ DOMAIN xfer \subseteq DOMAIN urbOf
  BY <1>0, TransfersStep, History DEF PipeInv, Numbers
<1>2. ExecutedIn(xfer') = ExecutedIn(xfer)
  BY <1>0, ExecutedByDevice
<1>3. \A s \in ExecutedIn(xfer) : urbOf'[s] = urbOf[s] /\ resultOf(xfer'[s]) = resultOf(xfer[s])
  BY <1>1, ExecutedStays DEF ExecutedIn, Extended
<1> QED BY <1>2, <1>3, ResultsTold, TellsSame

LEMMA SubmitServes ==
  ASSUME BaseInv, MeaningInv, SoleInv, PlaceInv, BaseInv', MeaningInv', SoleInv', [Next]_vars,
         NEW h \in Handles, NEW shape \in Shapes, Submit(h, shape), UNCHANGED lendVars
  PROVE  \E u \in Urb, local \in BOOLEAN : Service!SubmitUrb(u, local)
<1> DEFINE u == Len(urbs) + 1
           local == shape.kind = "setaddr"
<1>1. /\ urbs' = Append(urbs, shape) /\ port = "enabled" /\ port' = "enabled" /\ Len(urbs) < MaxUrb
      /\ UNCHANGED <<unlinked, outcome>> /\ urbs \in Seq(Shapes)
  BY DEF Submit, BaseInv, TypeInv, TypeOK, VhciTypeOK
<1>2. /\ u \in Urb /\ DOMAIN urbs' = DOMAIN urbs \cup {u} /\ u \notin DOMAIN urbs
      /\ urbs'[u] = shape /\ \A v \in DOMAIN urbs : urbs'[v] = urbs[v]
  BY <1>1, VhciAssumption DEF Urb
<1> HIDE DEF u
<1>3. requested' = Insert(requested, u, local)
  BY <1>2 DEF requested, Insert
<1>4. AddressedIn(urbs', outcome') = AddressedIn(urbs, outcome)
  BY <1>1, <1>2 DEF AddressedIn, PlaceInv, Placed
<1>5. UNCHANGED xfer
  BY DEF lendVars
<1>6. UNCHANGED carriedOut
  BY <1>1, <1>4, <1>5, NothingDone
<1>7. u \notin DOMAIN requested
  BY <1>2 DEF requested
<1>8. (port' # "gone") = (port # "gone")
  BY <1>1
<1>9. Service!SubmitUrb(u, local)
  BY <1>1, <1>3, <1>6, <1>7, <1>8, ServiceMaps DEF Service!SubmitUrb
<1> QED BY <1>2, <1>9
LEMMA UnlinkServes ==
  ASSUME BaseInv, MeaningInv, SoleInv, PlaceInv, BaseInv', MeaningInv', SoleInv', [Next]_vars,
         NEW h \in Handles, Unlink(h), UNCHANGED lendVars
  PROVE  \E u \in Urb : Service!UnlinkUrb(u)
<1> DEFINE u == cur[h]
<1>1. /\ h \in DOMAIN cur /\ unlinked' = unlinked \cup {u} /\ UNCHANGED <<port, urbs, outcome>>
      /\ IsMap(cur, Handles, Urb) /\ UNCHANGED xfer
  BY DEF Unlink, BaseInv, TypeInv, TypeOK, VhciTypeOK, lendVars
<1>2. u \in Urb
  BY <1>1, MapValue
<1>3. u \in DOMAIN urbs /\ u \notin DOMAIN outcome
  BY <1>1 DEF PlaceInv, Placed, Curs
<1> HIDE DEF u
<1>4. UNCHANGED carriedOut
  BY <1>1, NothingDone
<1>5. UNCHANGED requested /\ DOMAIN requested = DOMAIN urbs
  BY <1>1 DEF requested
<1>6. Service!UnlinkUrb(u)
  BY <1>1, <1>3, <1>4, <1>5 DEF Service!UnlinkUrb, Service!Pending
<1> QED BY <1>2, <1>6

(* The device is done with a URB it had not carried out before. *)
LEMMA DeviceServes ==
  ASSUME BaseInv, MeaningInv, SoleInv, PlaceInv, BaseInv', MeaningInv', SoleInv', TokInv', [Next]_vars,
         Lender(Device)
  PROVE  \E u \in Urb, r \in ReportableError \cup {"Success"} \cup {"Aborted"} : Service!Execute(u, r)
<1>0. PICK s \in DOMAIN xfer, q \in TransferStatus \cup RusbError : deviceDone(s, q)
  BY DEF Lender, Device
<1> DEFINE u == urbOf[s]
           r == reported(resultOf(xfer'[s]))
<1>1. /\ UNCHANGED <<port, urbs, outcome, unlinked, urbOf>>
  BY DEF Lender, vhciVars, borrowVars
<1>2. /\ xfer' = ResultSet(xfer, s, q) /\ xfer[s].st = "inflight" /\ xfer[s].kind # "reset"
  BY <1>0 DEF deviceDone, ResultSet, Asynchronous, Blocking
<1>3. /\ IsMap(xfer, LendSeqnum, Transfer) /\ IsMap(xfer', LendSeqnum, Transfer)
  BY DEF BaseInv, TypeInv, TypeOK, LendTypeOK
<1>4. xfer[s].res = "none" /\ q # "none"
  BY <1>2 DEF MeaningInv, TransfersInv, GoodTransfer, TransferStatus, RusbError
<1>5. /\ Advanced(xfer, xfer') /\ Others(xfer, xfer', s) /\ Same(xfer[s], xfer'[s]) /\ xfer'[s].res = q
  BY <1>2, <1>3, <1>4, ResultAdvances
<1>6. s \notin ExecutedIn(xfer) /\ ExecutedIn(xfer') = ExecutedIn(xfer) \cup {s}
  BY <1>2, <1>4, <1>5 DEF ExecutedIn, Others, Same
<1>7. \A t \in ExecutedIn(xfer) : resultOf(xfer'[t]) = resultOf(xfer[t])
  BY <1>5, ExecutedStays
<1>8. carriedOut' = Insert(carriedOut, u, r) /\ u \notin DOMAIN carriedOut
  <2>1. /\ Tells(carriedOut, xfer, urbOf, urbs, outcome)
        /\ Tells(carriedOut', xfer', urbOf, urbs, outcome) /\ OneEach(xfer', urbOf, urbs)
    BY <1>1, ResultsTold
  <2> QED BY <1>6, <1>7, <2>1, TellsMore
<1>9. u \in DOMAIN urbs /\ urbs[u].kind # "setaddr"
  BY <1>1, <1>6, ResultsTold DEF OneEach
<1>10. u \in Urb
  BY <1>9, VhciAssumption DEF BaseInv, TypeInv, TypeOK, VhciTypeOK, Urb
<1>11. xfer'[s] \in Transfer /\ s \in DOMAIN xfer'
  BY <1>3, <1>5, MapValue DEF Others
<1>12. r \in ReportableError \cup {"Success"} \cup {"Aborted"}
  BY <1>11, ConvertType, ResultType DEF reported
<1>13. r = "Cancelled" => u \in unlinked
  <2>1. r = "Cancelled" => xfer'[s].res = "Cancelled"
    BY <1>11 DEF reported, resultOf, convert_libusb_to_proto, Ok, Reportable, Abortable, Transfer,
       RemoteKind, Asynchronous, Blocking, TransferStatus, RusbError
  <2> QED BY <1>1, <1>11, <2>1 DEF TokInv, StoppedOnlyIfUnlinked
<1> HIDE DEF u, r
<1>14. UNCHANGED requested /\ DOMAIN requested = DOMAIN urbs /\ ~requested[u]
  BY <1>1, <1>9 DEF requested
<1>15. Service!Execute(u, r)
  BY <1>1, <1>8, <1>9, <1>13, <1>14, ServiceMaps DEF Service!Execute
<1> QED BY <1>10, <1>12, <1>15

LEMMA GivebackServes ==
  ASSUME BaseInv, MeaningInv, SoleInv, PlaceInv, EarnedInv, BaseInv', MeaningInv', SoleInv', [Next]_vars,
         RunGiveback, UNCHANGED <<borrowVars, lendVars>>
  PROVE  \E u \in Urb : Service!Return(u) \/ Service!ReturnLocal(u)
<1> DEFINE t == Head(tasks)
           u == t.u
<1>1. /\ tasks # <<>> /\ t.op = "giveback" /\ UNCHANGED <<port, urbs, unlinked, urbOf, xfer>>
      /\ IsMap(cur, Handles, Urb)
  BY DEF RunGiveback, BaseInv, TypeInv, TypeOK, VhciTypeOK, borrowVars, lendVars
<1>2. port # "gone" /\ t \in OwnTasks(cur)
  BY <1>1, QueueTake DEF MeaningInv, OwnInv
<1>3. t.h \in DOMAIN cur /\ cur[t.h] = u
  BY <1>1, <1>2 DEF OwnTasks
<1>4. outcome' = Insert(outcome, u, t.res)
  BY <1>3 DEF RunGiveback
<1>5. u \in Urb /\ u \in DOMAIN urbs /\ u \notin DOMAIN outcome
  BY <1>1, <1>3, MapValue DEF PlaceInv, Placed, Curs
<1>6. Earned(t, xfer, urbOf, urbs)
  BY <1>1, QueueTake DEF EarnedInv, EarnedTasks
<1>7. UNCHANGED requested /\ DOMAIN requested = DOMAIN urbs /\ (requested[u] <=> urbs[u].kind = "setaddr")
  BY <1>1, <1>5 DEF requested
<1> HIDE DEF t, u
<1>8. CASE urbs[u].kind = "setaddr"
  <2>1. t.res = "Success"
    BY <1>1, <1>6, <1>8 DEF Earned, u
  <2>2. carriedOut' = Insert(carriedOut, u, "Success") /\ u \notin DOMAIN carriedOut
    <3>1. /\ Tells(carriedOut, xfer, urbOf, urbs, outcome) /\ OneEach(xfer, urbOf, urbs)
          /\ Tells(carriedOut', xfer, urbOf, urbs, outcome')
      BY <1>1, ResultsTold
    <3> QED BY <1>4, <1>5, <1>8, <2>1, <3>1, TellsAddressed
  <2>3. Service!ReturnLocal(u)
    BY <1>1, <1>4, <1>5, <1>7, <1>8, <2>1, <2>2, ServiceMaps DEF Service!ReturnLocal, Service!Pending
  <2> QED BY <1>5, <2>3
<1>9. CASE urbs[u].kind # "setaddr"
  <2>1. PICK s \in ExecutedIn(xfer) : /\ urbOf[s] = u /\ resultOf(xfer[s]).class # "abortable"
                                      /\ t.res = resultOf(xfer[s]).err
    BY <1>1, <1>6, <1>9 DEF Earned, u
  <2>2. AddressedIn(urbs', outcome') = AddressedIn(urbs, outcome)
        /\ \A v \in AddressedIn(urbs, outcome) : outcome'[v] = outcome[v]
    BY <1>1, <1>4, <1>5, <1>9 DEF AddressedIn, Insert
  <2>3. UNCHANGED carriedOut
    BY <1>1, <2>2, NothingDone
  <2>4. u \in DOMAIN carriedOut /\ carriedOut[u] = t.res
    BY <2>1, ResultsTold DEF Tells, reported
  <2>5. t.res \in ReportableError \cup {"Success"}
    <3>1. xfer[s] \in Transfer
      BY MapValue DEF ExecutedIn, BaseInv, TypeInv, TypeOK, LendTypeOK
    <3> QED BY <2>1, <3>1, ConvertType, ResultType
  <2>6. Service!Return(u)
    BY <1>1, <1>4, <1>5, <1>7, <2>3, <2>4, <2>5, ServiceMaps DEF Service!Return, Service!Pending
  <2> QED BY <1>5, <2>6
<1> QED BY <1>8, <1>9

LEMMA DisconnectServes ==
  ASSUME BaseInv, MeaningInv, SoleInv, PlaceInv, BaseInv', MeaningInv', SoleInv', [Next]_vars,
         RunDisconnect, UNCHANGED <<borrowVars, lendVars>>
  PROVE  Service!Unplug
<1>1. /\ tasks # <<>> /\ port' = "gone" /\ UNCHANGED <<urbs, unlinked, xfer>>
      /\ outcome' = [u \in DOMAIN outcome \cup {cur[h] : h \in DOMAIN cur} |->
                       IF u \in DOMAIN outcome THEN outcome[u] ELSE "Shutdown"]
  BY DEF RunDisconnect, lendVars
<1>2. port # "gone"
  BY <1>1 DEF MeaningInv, OwnInv
<1>3. UNCHANGED requested /\ DOMAIN requested = DOMAIN urbs
  BY <1>1 DEF requested
<1>4. DOMAIN urbs = DOMAIN outcome \cup {cur[h] : h \in DOMAIN cur}
  BY DEF PlaceInv, Placed, Curs
<1>5. outcome' = [u \in DOMAIN requested |-> IF u \in DOMAIN outcome THEN outcome[u] ELSE "Shutdown"]
  BY <1>1, <1>3, <1>4
<1>6. AddressedIn(urbs', outcome') = AddressedIn(urbs, outcome)
      /\ \A v \in AddressedIn(urbs, outcome) : outcome'[v] = outcome[v]
  BY <1>1 DEF AddressedIn
<1>7. UNCHANGED carriedOut
  BY <1>1, <1>6, NothingDone
<1>8. (port' # "gone") = FALSE
  BY <1>1
<1> QED BY <1>1, <1>2, <1>3, <1>5, <1>7, <1>8 DEF Service!Unplug

LEMMA StutterServes ==
  ASSUME BaseInv, MeaningInv, SoleInv, BaseInv', MeaningInv', SoleInv', [Next]_vars,
         UNCHANGED xfer \/ ~Device, UNCHANGED <<urbs, unlinked, outcome>>,
         (port' = "gone") <=> (port = "gone")
  PROVE  UNCHANGED Service!serviceVars
<1>1. UNCHANGED requested
  BY DEF requested
<1>2. UNCHANGED carriedOut
  BY NothingDone
<1>3. (port' # "gone") = (port # "gone")
  OBVIOUS
<1> QED BY <1>1, <1>2, <1>3 DEF Service!serviceVars

LEMMA ServiceStep ==
  ASSUME BaseInv, MeaningInv, SoleInv, PlaceInv, EarnedInv, BaseInv', MeaningInv', SoleInv', TokInv',
         [Next]_vars
  PROVE  [Service!ServiceNext]_(Service!serviceVars)
<1>1. CASE Guest /\ UNCHANGED <<borrowVars, streamVars, lendVars>>
  <2>1. CASE \E h \in Handles, shape \in Shapes : Submit(h, shape)
    BY <1>1, <2>1, SubmitServes DEF Service!ServiceNext
  <2>2. CASE \E h \in Handles : Unlink(h)
    BY <1>1, <2>2, UnlinkServes DEF Service!ServiceNext
  <2>3. CASE ResetPort
    <3>1. UNCHANGED <<xfer, urbs, unlinked, outcome>> /\ port # "gone" /\ port' # "gone"
      BY <1>1, <2>3 DEF ResetPort, lendVars
    <3> QED BY <3>1, StutterServes
  <2> QED BY <1>1, <2>1, <2>2, <2>3 DEF Guest
<1>2. CASE Borrower(BlockingThread)
  <2>1. CASE RunGiveback
    BY <1>2, <2>1, GivebackServes DEF Borrower, BlockingThread, Service!ServiceNext
  <2>2. CASE RunDisconnect
    BY <1>2, <2>2, DisconnectServes DEF Borrower, BlockingThread, Service!ServiceNext
  <2> QED BY <1>2, <2>1, <2>2 DEF Borrower, BlockingThread
<1>3. CASE Lender(Device)
  BY <1>3, DeviceServes DEF Service!ServiceNext
<1>4. CASE UNCHANGED vhciVars /\ ~Lender(Device) /\ (UNCHANGED xfer \/ UNCHANGED <<vhciVars, borrowVars>>)
  <2>1. UNCHANGED xfer \/ ~Device
    BY <1>4 DEF Lender
  <2>2. UNCHANGED <<urbs, unlinked, outcome, port>>
    BY <1>4 DEF vhciVars
  <2> QED BY <2>1, <2>2, StutterServes
<1>5. CASE Borrower(device_reset)
  <2>1. UNCHANGED <<xfer, urbs, unlinked, outcome>> /\ port' # "gone" /\ CanRead
    BY <1>5 DEF Borrower, device_reset, PortResetDone, lendVars
  <2>2. port # "gone"
    BY <2>1 DEF BaseInv, OrderInv, Unplugging, CanRead
  <2> QED BY <2>1, <2>2, StutterServes
<1>6. ASSUME UNCHANGED <<lendVars, urbs, unlinked, outcome, port>>
      PROVE  [Service!ServiceNext]_(Service!serviceVars)
  BY <1>6, StutterServes DEF lendVars
<1>7. CASE Borrower(BorrowSend) \/ Borrower(StreamStopped)
  BY <1>6, <1>7 DEF Borrower, BorrowSend, port_stat, set_address, process_urb, cancel_urb, FlushBuf,
     WriteFrame, FlushComplete, EndSendLoop, StreamStopped, vhciVars
<1>8. CASE Borrower(BorrowRecv) /\ ~device_reset
  BY <1>6, <1>8 DEF Borrower, BorrowRecv, urb_reply, RecvPanic, EndRecvLoop, DrainRead, DrainEnd, vhciVars
<1>9. CASE Borrower(BorrowMain) \/ Borrower(CancelBorrow)
  BY <1>6, <1>9 DEF Borrower, BorrowMain, RecvJoined, RecvJoinPanic, SendJoined, Disconnected,
     CancelBorrow, mainUnchanged
<1>10. CASE \/ ConnectionLost /\ UNCHANGED <<vhciVars, borrowVars, lendVars>>
            \/ UNCHANGED vars
  BY <1>6, <1>10 DEF vars, vhciVars
<1>11. CASE UNCHANGED <<vhciVars, borrowVars>>
  BY <1>3, <1>4, <1>11
<1> QED BY <1>1, <1>2, <1>5, <1>7, <1>8, <1>9, <1>10, <1>11 DEF Next, Borrower, Lender

(* ImplementsService: for every number of URBs, handles, sequence numbers and
   resets, and whatever is lost, cancelled or unlinked on the way, the guest
   gets each URB back at most once and with the result of the one execution
   of that URB on the device; an aborted execution is never reported, a
   cancelled one was unlinked, and an unplugged port returns what is left. *)
THEOREM SessionImplementsService == Spec => ImplementsService
<1> DEFINE Inv == BaseInv /\ MeaningInv /\ TokInv /\ SoleInv /\ PlaceInv /\ EarnedInv
<1>1. Init => Inv /\ Service!ServiceInit
  BY InitBase, InitMeaning, InitTok, InitSole, InitPlace, InitEarned, InitService
<1>2. Inv /\ [Next]_vars => Inv'
  <2> SUFFICES ASSUME Inv, [Next]_vars PROVE Inv'
    OBVIOUS
  <2>1. BaseInv' /\ MeaningInv'
    BY BaseStep, MeaningStep
  <2>2. TokInv'
    BY TokStep DEF BaseInv, MeaningInv
  <2>3. PlaceInv'
    BY PlaceStep, OwnGivebacks DEF BaseInv, MeaningInv
  <2> QED BY <2>1, <2>2, <2>3, SoleStep, EarnedStep
<1>3. Inv /\ Inv' /\ [Next]_vars => [Service!ServiceNext]_(Service!serviceVars)
  BY ServiceStep
<1> QED BY <1>1, <1>2, <1>3, PTL DEF Spec, ImplementsService, Service!ServiceSpec
=============================================================================
