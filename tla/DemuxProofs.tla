----------------------------- MODULE DemuxProofs -----------------------------
(***************************************************************************)
(* The Demuxer with any number of ports, sessions, handles, addresses,     *)
(* URBs and resets, in an environment that uses nothing again before the   *)
(* Demuxer is done with it (Overlap = {}): its types are kept, its         *)
(* assertions hold and every work item goes to the session it is for.      *)
(*                                                                         *)
(* The mailer is seen through get_by_key only: what each method does to    *)
(* every get is in ThreeKeyMapLemmas.                                      *)
(***************************************************************************)
EXTENDS Demux, ThreeKeyMapLemmas

Keys == Ports \cup Addresses \cup Handles
At(kind, k) == get_by_key(mailer, kind, k)
Opened == {s \in Session : sess[s] \notin {"none", "registering"}}

(* The work items the Demuxer has not received. *)
Urb(i) == kwork[i].op = "ProcessUrb"
Cancels(i) == kwork[i].op = "CancelUrb"
Done(i) == kwork[i].op = "PortStat" /\ kwork[i].stat = "resetDone"
Waits(h) == \E i \in DOMAIN kwork : Urb(i) /\ kwork[i].h = h
Ready(p) == \E i \in DOMAIN kwork : Done(i) /\ kwork[i].p = p
Queued(p) == \E i \in DOMAIN queue : queue[i] = p

(* A URB on its way through the Demuxer's channels, with its session, or with
   the thread that gives it back. *)
Carries(s, h) ==
  \E i \in DOMAIN mail[s] : mail[s][i].op = "ProcessUrb" /\ mail[s][i].h = h
InHeld(h) == \E i \in DOMAIN held : /\ sess[held[i].s] = "open"
                                    /\ held[i].w.op = "ProcessUrb" /\ held[i].w.h = h
Out(h) == h \in got \/ InHeld(h) \/ \E s \in Session : Carries(s, h)
Back(h) == \E i \in DOMAIN bq : bq[i].op = "giveback" /\ bq[i].h = h

Serves(p, s) == owner[p] = s /\ At("key1", p) = s
Unowned(s) == \A p \in Ports : owner[p] # s

-----------------------------------------------------------------------------
(* The mailer is a sound map, whose values are sessions that have registered. *)
MapInv == Sound(mailer, Keys, Session, Opened)

(* Ports and their owners, and when the mailer knows of them. *)
Owners ==
  /\ \A p \in Ports : owner[p] = 0 <=> pstate[p] = "free"
  /\ \A p, q \in Ports : owner[p] = owner[q] /\ owner[p] # 0 => p = q
  /\ \A p \in Ports : At("key1", p) # None => At("key1", p) = owner[p]
  /\ \A p \in Ports : owner[p] # 0 /\ At("key1", p) = None =>
       pstate[p] \in {"connected", "resetting"} /\ sess[owner[p]] = "registering"
  /\ \A s \in Session : sess[s] \in {"open", "closing"} => \E p \in Ports : Serves(p, s)
  /\ \A p \in Ports : pstate[p] = "retired" => sess[owner[p]] \in {"closing", "gone"}

(* A session that registers is in one place: the register stream, the
   thread's queue, or the results. *)
Registering ==
  /\ \A s \in Session : sess[s] = "none" <=> s > nSession
  /\ \A i \in DOMAIN regs :
       /\ sess[regs[i].s] = "registering" /\ Unowned(regs[i].s)
       /\ \A j \in DOMAIN regs : regs[i].s = regs[j].s => i = j
  /\ \A i \in DOMAIN bq : bq[i].op = "connect" =>
       /\ sess[bq[i].s] = "registering" /\ Unowned(bq[i].s)
       /\ \A j \in DOMAIN bq : bq[j].op = "connect" /\ bq[i].s = bq[j].s => i = j
       /\ \A j \in DOMAIN regs : bq[i].s # regs[j].s
Results ==
  \A i \in DOMAIN ctrl :
    /\ ctrl[i].op = "register" =>
         owner[ctrl[i].port] = ctrl[i].s /\ At("key1", ctrl[i].port) = None
    /\ ctrl[i].op = "registerErr" =>
         /\ Unowned(ctrl[i].s)
         /\ \A j \in DOMAIN regs : ctrl[i].s # regs[j].s
         /\ \A j \in DOMAIN bq : bq[j].op = "connect" => ctrl[i].s # bq[j].s
    /\ ctrl[i].op # "disconnect" =>
         /\ sess[ctrl[i].s] = "registering"
         /\ \A j \in DOMAIN ctrl :
              ctrl[j].op # "disconnect" /\ ctrl[i].s = ctrl[j].s => i = j
    /\ ctrl[i].op = "disconnect" => sess[ctrl[i].s] \in {"closing", "gone"}
Leaves(s) == sess[s] \in {"closing", "gone"} /\ \E p \in Ports : Serves(p, s)
Leaving == /\ \A i \in DOMAIN drops : Leaves(drops[i])
           /\ \A i \in DOMAIN bq : bq[i].op = "disconnect" => Leaves(bq[i].s)

(* One port at a time is reset and given an address, with no URB in progress
   until it answers to the default address, and then with one at a time. *)
OneAtATime ==
  /\ \A p, q \in Enumerating : p = q
  /\ \A p \in Ports : pstate[p] = "resetting" =>
       \A h \in DOMAIN cur : cur[h].s # owner[p]
Defaults ==
  \A p \in Ports : pstate[p] = "default" =>
    /\ addr[p] = 0 /\ sess[owner[p]] = "open"
    /\ \A h, g \in DOMAIN cur : cur[h].s = owner[p] /\ cur[g].s = owner[p] => h = g
    /\ \/ Queued(p) \/ Ready(p)
       \/ \E h \in DOMAIN cur : cur[h].s = owner[p] /\ cur[h].set # 0

(* register_queue holds at most the one port that waits for its SET_ADDRESS;
   it has no address in the mailer. *)
QueueInv ==
  /\ Len(queue) <= 1
  /\ \A i \in DOMAIN queue :
       /\ queue[i] \in Enumerating /\ sess[owner[queue[i]]] = "open"
       /\ \A a \in Addresses : At("key2", a) # owner[queue[i]]
       /\ \A h \in DOMAIN cur : cur[h].s = owner[queue[i]] /\ cur[h].set # 0 => Waits(h)

(* Nothing the port's session has in progress is older than the end of its
   reset. *)
DoneInv ==
  \A i \in DOMAIN kwork : Done(i) =>
    /\ kwork[i].p \in Enumerating /\ sess[kwork[i].to] = "open"
    /\ \A h \in DOMAIN cur : cur[h].s = kwork[i].to =>
         \E j \in DOMAIN kwork : j > i /\ Urb(j) /\ kwork[j].h = h

(* The addresses of the devices, and those the mailer knows: the device has
   it, or is about to, or has lost it in a reset whose end is under way. *)
AddrInv ==
  /\ \A p, q \in Ports : addr[p] = addr[q] /\ addr[p] # 0 => p = q
  /\ \A p \in Ports :
       pstate[p] = "addressed" => addr[p] # 0 /\ At("key2", addr[p]) = owner[p]
KnownAddr ==
  /\ At("key2", 0) = None
  /\ \A a \in Addresses : At("key2", a) # None => \E p \in Ports :
       /\ owner[p] = At("key2", a) /\ At("key1", p) = At("key2", a)
       /\ \/ addr[p] = a \/ Ready(p)
          \/ \E h \in DOMAIN cur : cur[h].s = owner[p] /\ cur[h].set = a /\ ~Waits(h)

(* A URB in progress is one of a port that answers; a SET_ADDRESS that the
   Demuxer has seen has entered its address in the mailer. *)
UrbInv ==
  \A h \in DOMAIN cur : \E p \in Ports :
    /\ owner[p] = cur[h].s /\ pstate[p] \in {"default", "addressed"}
    /\ cur[h].set # 0 => /\ pstate[p] = "default"
                         /\ \A q \in Ports : addr[q] # cur[h].set
                         /\ ~Waits(h) => At("key2", cur[h].set) = owner[p]

-----------------------------------------------------------------------------
(* The work items. *)
StatInv == \A i \in DOMAIN kwork :
             kwork[i].op = "PortStat" => owner[kwork[i].p] = kwork[i].to
UrbWork ==
  \A i \in DOMAIN kwork : Urb(i) =>
    /\ \A j \in DOMAIN kwork : Urb(j) /\ kwork[i].h = kwork[j].h => i = j
    /\ kwork[i].h \in DOMAIN cur \cup lagging
    /\ kwork[i].h \in DOMAIN cur =>
         /\ cur[kwork[i].h].s = kwork[i].to /\ cur[kwork[i].h].set = kwork[i].set
         /\ kwork[i].h \notin lagging
ToDefault ==
  \A i \in DOMAIN kwork : Urb(i) /\ kwork[i].addr = 0 =>
    /\ kwork[i].h \in DOMAIN cur
    /\ \E p \in Ports :
         /\ owner[p] = kwork[i].to /\ pstate[p] = "default"
         /\ Queued(p) \/ \E j \in DOMAIN kwork : j < i /\ Done(j) /\ kwork[j].p = p
ToAddress ==
  \A i \in DOMAIN kwork : Urb(i) /\ kwork[i].addr # 0 =>
    /\ kwork[i].set = 0 /\ At("key2", kwork[i].addr) = kwork[i].to
    /\ \E p \in Ports : /\ owner[p] = kwork[i].to /\ addr[p] = kwork[i].addr
                        /\ \/ pstate[p] = "retired"
                           \/ pstate[p] = "addressed" /\ kwork[i].h \in DOMAIN cur

(* A cancellation is for the URB the mailer has under that handle, and for the
   one in progress unless that is still to come. *)
CancelInv ==
  \A i \in DOMAIN kwork : Cancels(i) =>
    /\ At("key3", kwork[i].h) \in {None, kwork[i].to}
    /\ \A j \in DOMAIN kwork : j < i /\ Urb(j) /\ kwork[j].h = kwork[i].h =>
         kwork[j].to = kwork[i].to
    /\ kwork[i].h \in DOMAIN cur =>
         \/ \E j \in DOMAIN kwork : j > i /\ Urb(j) /\ kwork[j].h = kwork[i].h
         \/ /\ kwork[i].h \in unlinked /\ cur[kwork[i].h].s = kwork[i].to
            /\ \A j \in DOMAIN kwork : Cancels(j) /\ kwork[j].h = kwork[i].h => j <= i

-----------------------------------------------------------------------------
(* Handles: what the mailer knows is in use or lags behind; a URB that is out
   is found by its cancellation; it is in one place, and nowhere once it is
   given back. *)
Keyed == \A h \in Handles : At("key3", h) # None =>
           /\ h \in DOMAIN cur \cup lagging /\ ~Waits(h)
           /\ h \in DOMAIN cur => At("key3", h) = cur[h].s
OutInv ==
  \A h \in Handles : Out(h) =>
    /\ h \in DOMAIN cur /\ h \notin lagging /\ ~Waits(h) /\ ~Back(h)
    /\ \/ At("key3", h) = cur[h].s
       \/ h \in unlinked /\ \A i \in DOMAIN kwork : ~(Cancels(i) /\ kwork[i].h = h)
OnePlace ==
  /\ \A h \in got : ~InHeld(h) /\ \A s \in Session : ~Carries(s, h)
  /\ \A s \in Session, h \in Handles : Carries(s, h) => cur[h].s = s /\ ~InHeld(h)
  /\ \A i \in DOMAIN held : \A h \in Handles : InHeld(h) => cur[h].s = held[i].s
MailInv ==
  /\ \A s \in Session : sess[s] # "open" => mail[s] = <<>>
  /\ \A s \in Session : \A i \in DOMAIN mail[s] :
       /\ mail[s][i].to = s
       /\ mail[s][i].op = "PortStat" => owner[mail[s][i].p] = s
  /\ \A i \in DOMAIN held :
       /\ held[i].w.to = held[i].s /\ held[i].s \in Opened
       /\ held[i].w.op = "PortStat" => owner[held[i].w.p] = held[i].s
BackInv ==
  \A i \in DOMAIN bq : bq[i].op = "giveback" =>
    /\ bq[i].h \in DOMAIN cur /\ ~Waits(bq[i].h)
    /\ bq[i].h \in lagging \/ At("key3", bq[i].h) = None
    /\ \A j \in DOMAIN bq : bq[j].op = "giveback" /\ bq[j].h = bq[i].h => j = i
    /\ \A j \in DOMAIN bq : j < i /\ bq[j].op = "disconnect" => bq[j].s # cur[bq[i].h].s
GiveInv ==
  \A i \in DOMAIN gives : gives[i].s # 0 =>
    /\ gives[i].h \in lagging /\ ~Waits(gives[i].h)
    /\ \A j \in DOMAIN gives : gives[j].s # 0 /\ gives[j].h = gives[i].h => j = i

DemuxInv ==
  /\ DemuxTypeOK /\ AssertionsHold /\ MapInv
  /\ Owners /\ Registering /\ Results /\ Leaving
  /\ OneAtATime /\ Defaults /\ QueueInv /\ DoneInv /\ AddrInv /\ KnownAddr /\ UrbInv
  /\ StatInv /\ UrbWork /\ ToDefault /\ ToAddress /\ CancelInv
  /\ Keyed /\ OutInv /\ OnePlace /\ MailInv /\ BackInv /\ GiveInv

-----------------------------------------------------------------------------
(* Sequences. *)
LEMMA ElementFacts == ASSUME NEW T, NEW q \in Seq(T) PROVE \A i \in DOMAIN q : q[i] \in T
OBVIOUS

LEMMA SeqOf == ASSUME NEW T, NEW n \in Nat, NEW q \in [1..n -> T] PROVE q \in Seq(T)
OBVIOUS

LEMMA AppendFacts ==
  ASSUME NEW T, NEW q \in Seq(T), NEW e \in T, NEW r, r = Append(q, e)
  PROVE  /\ r \in Seq(T) /\ Len(q) \in Nat /\ Len(r) = Len(q) + 1
         /\ DOMAIN r = DOMAIN q \cup {Len(q) + 1} /\ Len(q) + 1 \notin DOMAIN q
         /\ \A i \in DOMAIN q : r[i] = q[i] /\ i < Len(q) + 1 /\ i \in Nat
         /\ r[Len(q) + 1] = e
<1>1. /\ Len(q) \in Nat /\ DOMAIN q = 1..Len(q) /\ r \in Seq(T) /\ Len(r) = Len(q) + 1
      /\ DOMAIN r = 1..(Len(q) + 1)
  OBVIOUS
<1>2. \A i \in 1..Len(q) : r[i] = q[i]
  OBVIOUS
<1>3. r[Len(q) + 1] = e
  OBVIOUS
<1>4. 1..(Len(q) + 1) = 1..Len(q) \cup {Len(q) + 1}
  BY <1>1
<1> QED BY <1>1, <1>2, <1>3, <1>4

LEMMA TailFacts ==
  ASSUME NEW T, NEW q \in Seq(T), q # <<>>, NEW r, r = Tail(q)
  PROVE  /\ r \in Seq(T) /\ 1 \in DOMAIN q /\ Head(q) = q[1] /\ q[1] \in T
         /\ DOMAIN q \subseteq Nat \ {0} /\ DOMAIN r \subseteq Nat \ {0}
         /\ \A i \in DOMAIN r : i + 1 \in DOMAIN q /\ r[i] = q[i + 1]
         /\ \A i \in DOMAIN q : i = 1 \/ (i - 1 \in DOMAIN r /\ r[i - 1] = q[i])
<1>1. /\ Len(q) \in Nat \ {0} /\ DOMAIN q = 1..Len(q) /\ r \in Seq(T)
      /\ Len(r) = Len(q) - 1 /\ Head(q) = q[1]
  OBVIOUS
<1>2. \A i \in 1..(Len(q) - 1) : r[i] = q[i + 1]
  OBVIOUS
<1>3. DOMAIN r = 1..(Len(q) - 1)
  BY <1>1
<1>4. q[1] \in T
  BY <1>1
<1> QED BY <1>1, <1>2, <1>3, <1>4

LEMMA WorkFields ==
  ASSUME NEW w \in Work
  PROVE  /\ w.op \in {"PortStat", "ProcessUrb", "CancelUrb"} /\ w.to \in Session
         /\ w.op = "PortStat" =>
              w.p \in Ports /\ w.stat \in {"connected", "resetting", "resetDone", "gone"}
         /\ w.op = "ProcessUrb" =>
              w.h \in Handles /\ w.addr \in {0} \cup Addresses /\ w.set \in {0} \cup Addresses
         /\ w.op = "CancelUrb" => w.h \in Handles
BY DEF Work

LEMMA WorkMade ==
  ASSUME NEW s \in Session
  PROVE  /\ \A p \in Ports, stat \in {"connected", "resetting", "resetDone", "gone"} :
              LET w == PortStat(p, s, stat)
              IN w \in Work /\ w.op = "PortStat" /\ w.p = p /\ w.to = s /\ w.stat = stat
         /\ \A h \in Handles, a \in {0} \cup Addresses, set \in {0} \cup Addresses :
              LET w == ProcessUrb(h, s, a, set)
              IN w \in Work /\ w.op = "ProcessUrb" /\ w.h = h /\ w.to = s /\ w.addr = a
                 /\ w.set = set
         /\ \A h \in Handles :
              LET w == CancelUrb(h, s)
              IN w \in Work /\ w.op = "CancelUrb" /\ w.h = h /\ w.to = s
BY DEF Work, PortStat, ProcessUrb, CancelUrb

LEMMA SessionFacts == Session \subseteq Nat \ {0} /\ None = 0 /\ None \notin Session
BY DemuxAssumption DEF Session, None

(* What the mailer yields is a session that has registered. *)
LEMMA AtFacts ==
  ASSUME MapInv, NEW kind \in Kind, NEW k
  PROVE  /\ contains_key(mailer, kind, k) <=> At(kind, k) # None
         /\ At(kind, k) # None => k \in Keys /\ At(kind, k) \in Opened
  BY GetSound, SessionFacts DEF MapInv, At, Opened

(* A session that is served has one port. *)
LEMMA PortFacts ==
  ASSUME Owners, NEW p \in Ports, NEW s \in Session, owner[p] = s
  PROVE  PortOf(s) = p /\ \A q \in Ports : owner[q] = s => q = p
<1>1. \A q \in Ports : owner[q] = s => q = p
  BY SessionFacts DEF Owners
<1> QED BY <1>1 DEF PortOf

-----------------------------------------------------------------------------
(* Steps that leave the work items alone, or add one about a port. *)
Longer == /\ DOMAIN kwork \subseteq DOMAIN kwork'
          /\ \A i \in DOMAIN kwork : kwork'[i] = kwork[i]
          /\ \A i \in DOMAIN kwork' \ DOMAIN kwork : \A j \in DOMAIN kwork : j < i
          /\ DOMAIN kwork' \subseteq Nat
NoUrb == Longer /\ \A i \in DOMAIN kwork' \ DOMAIN kwork : kwork'[i].op # "ProcessUrb"
StatOnly == NoUrb /\ \A i \in DOMAIN kwork' \ DOMAIN kwork : kwork'[i].op # "CancelUrb"
Quiet == NoUrb /\ \A i \in DOMAIN kwork' \ DOMAIN kwork : ~Done(i)'

LEMMA KworkSame == ASSUME kwork \in Seq(Work), kwork' = kwork PROVE NoUrb /\ Quiet /\ StatOnly
<1>1. DOMAIN kwork \subseteq Nat
  OBVIOUS
<1> QED BY <1>1 DEF Quiet, StatOnly, NoUrb, Longer

LEMMA KworkStat ==
  ASSUME kwork \in Seq(Work), NEW w \in Work, w.op = "PortStat", kwork' = Append(kwork, w)
  PROVE  NoUrb /\ StatOnly /\ (w.stat # "resetDone" => Quiet)
<1>1. /\ DOMAIN kwork' = DOMAIN kwork \cup {Len(kwork) + 1} /\ kwork'[Len(kwork) + 1] = w
      /\ \A i \in DOMAIN kwork : kwork'[i] = kwork[i] /\ i < Len(kwork) + 1 /\ i \in Nat
      /\ Len(kwork) + 1 \in Nat
  BY AppendFacts
<1> QED BY <1>1 DEF Quiet, StatOnly, NoUrb, Longer, Done

LEMMA SameWaits == ASSUME NoUrb, NEW h PROVE Waits(h)' <=> Waits(h)
BY DEF NoUrb, Longer, Waits, Urb

LEMMA SameReady == ASSUME Quiet, NEW p PROVE Ready(p)' <=> Ready(p)
BY DEF Quiet, NoUrb, Longer, Ready, Done

LEMMA MoreReady == ASSUME NoUrb, NEW p, Ready(p) PROVE Ready(p)'
BY DEF NoUrb, Longer, Ready, Done

(* What each part of the invariant is about: it stays as long as that does. *)
LEMMA FrMap == ASSUME MapInv, UNCHANGED <<mailer, sess>> PROVE MapInv'
BY DEF MapInv, Opened

LEMMA FrOwners == ASSUME Owners, UNCHANGED <<owner, pstate, mailer, sess>> PROVE Owners'
BY DEF Owners, At, Serves

LEMMA FrRegistering ==
  ASSUME Registering, UNCHANGED <<sess, nSession, regs, bq, owner>> PROVE Registering'
BY DEF Registering, Unowned

LEMMA FrResults ==
  ASSUME Results, UNCHANGED <<ctrl, owner, mailer, regs, bq, sess>> PROVE Results'
BY DEF Results, Unowned, At

LEMMA FrLeaving == ASSUME Leaving, UNCHANGED <<drops, bq, sess, owner, mailer>> PROVE Leaving'
BY DEF Leaving, Leaves, Serves, At

LEMMA FrOneAtATime == ASSUME OneAtATime, UNCHANGED <<pstate, cur, owner>> PROVE OneAtATime'
BY DEF OneAtATime, Enumerating

LEMMA FrDefaults ==
  ASSUME Defaults, NoUrb, UNCHANGED <<pstate, addr, owner, sess, cur, queue>>
  PROVE  Defaults'
BY MoreReady DEF Defaults, Queued

LEMMA FrQueue ==
  ASSUME QueueInv, NoUrb, UNCHANGED <<queue, pstate, owner, sess, mailer, cur>>
  PROVE  QueueInv'
BY SameWaits DEF QueueInv, Enumerating, At

LEMMA FrDone ==
  ASSUME DoneInv, Quiet, UNCHANGED <<pstate, sess, cur>>
  PROVE  DoneInv'
BY DEF DoneInv, Done, Urb, Quiet, NoUrb, Longer, Enumerating

LEMMA FrAddr == ASSUME AddrInv, UNCHANGED <<addr, pstate, mailer, owner>> PROVE AddrInv'
BY DEF AddrInv, At

LEMMA FrKnownAddr ==
  ASSUME KnownAddr, NoUrb, UNCHANGED <<mailer, owner, addr, cur>>
  PROVE  KnownAddr'
BY SameWaits, MoreReady DEF KnownAddr, At

LEMMA FrUrb ==
  ASSUME UrbInv, NoUrb, UNCHANGED <<cur, owner, pstate, addr, mailer>>
  PROVE  UrbInv'
BY SameWaits DEF UrbInv, At

LEMMA FrStat == ASSUME StatInv, UNCHANGED <<kwork, owner>> PROVE StatInv'
BY DEF StatInv

LEMMA FrUrbWork ==
  ASSUME UrbWork, NoUrb, UNCHANGED <<cur, lagging>> PROVE UrbWork'
BY DEF UrbWork, Urb, NoUrb, Longer

LEMMA FrToDefault ==
  ASSUME ToDefault, NoUrb, UNCHANGED <<cur, owner, pstate, queue>> PROVE ToDefault'
BY DEF ToDefault, Urb, Done, Queued, NoUrb, Longer

LEMMA FrToAddress ==
  ASSUME ToAddress, NoUrb, UNCHANGED <<mailer, owner, addr, pstate, cur>> PROVE ToAddress'
BY DEF ToAddress, Urb, At, NoUrb, Longer

LEMMA FrCancel ==
  ASSUME CancelInv, StatOnly, UNCHANGED <<mailer, cur, unlinked>> PROVE CancelInv'
BY DEF CancelInv, Cancels, Urb, At, StatOnly, NoUrb, Longer

LEMMA FrKeyed == ASSUME Keyed, NoUrb, UNCHANGED <<mailer, cur, lagging>> PROVE Keyed'
BY SameWaits DEF Keyed, At

LEMMA SameOut ==
  ASSUME UNCHANGED <<mail, held, sess>>, NEW h
  PROVE  (InHeld(h)' <=> InHeld(h)) /\ \A s \in Session : Carries(s, h)' <=> Carries(s, h)
BY DEF InHeld, Carries

LEMMA FrOut ==
  ASSUME OutInv, StatOnly, UNCHANGED <<got, mail, held, sess, cur, unlinked, lagging, bq, mailer>>
  PROVE  OutInv'
<1> SUFFICES ASSUME NEW h \in Handles, Out(h)'
             PROVE  /\ h \in DOMAIN cur /\ h \notin lagging /\ ~Waits(h)' /\ ~Back(h)'
                    /\ \/ At("key3", h)' = cur[h].s
                       \/ h \in unlinked /\ \A i \in DOMAIN kwork' : ~(Cancels(i)' /\ kwork'[i].h = h)
  BY DEF OutInv
<1>1. Out(h)
  BY SameOut DEF Out
<1>2. ~Back(h)' /\ At("key3", h)' = At("key3", h)
  BY <1>1 DEF OutInv, Back, At
<1>3. (\A i \in DOMAIN kwork : ~(Cancels(i) /\ kwork[i].h = h)) =>
        \A i \in DOMAIN kwork' : ~(Cancels(i)' /\ kwork'[i].h = h)
  BY DEF Cancels, StatOnly, NoUrb, Longer
<1> QED BY <1>1, <1>2, <1>3, SameWaits DEF OutInv, StatOnly

LEMMA FrOnePlace ==
  ASSUME OnePlace, UNCHANGED <<got, mail, held, sess, cur>> PROVE OnePlace'
BY SameOut DEF OnePlace

LEMMA FrMail == ASSUME MailInv, UNCHANGED <<mail, held, sess, owner>> PROVE MailInv'
BY DEF MailInv, Opened

LEMMA FrBack ==
  ASSUME BackInv, NoUrb, UNCHANGED <<bq, cur, lagging, mailer>> PROVE BackInv'
BY SameWaits DEF BackInv, At

LEMMA FrGive == ASSUME GiveInv, NoUrb, UNCHANGED <<gives, lagging>> PROVE GiveInv'
BY SameWaits DEF GiveInv

-----------------------------------------------------------------------------
(* The parts of the invariant, for the steps to cite. *)
LEMMA TypeFacts ==
  ASSUME DemuxTypeOK
  PROVE  /\ pstate \in [Ports -> {"free", "connected", "resetting", "default",
                                  "addressed", "retired"}]
         /\ addr \in [Ports -> {0} \cup Addresses] /\ owner \in [Ports -> {0} \cup Session]
         /\ DOMAIN cur \subseteq Handles
         /\ \A h \in DOMAIN cur : cur[h].s \in Session /\ cur[h].set \in {0} \cup Addresses
         /\ unlinked \subseteq DOMAIN cur /\ lagging \subseteq Handles /\ got \subseteq DOMAIN cur
         /\ kwork \in Seq(Work) /\ DOMAIN kwork \subseteq Nat
         /\ \A i \in DOMAIN kwork : kwork[i] \in Work
         /\ sess \in [Session -> {"none", "registering", "open", "closing", "gone"}]
<1>1. \A h \in DOMAIN cur : cur[h] \in [s : Session, set : {0} \cup Addresses]
  BY DEF DemuxTypeOK, IsMap
<1>2. \A h \in DOMAIN cur : cur[h].s \in Session /\ cur[h].set \in {0} \cup Addresses
  BY <1>1
<1>3. kwork \in Seq(Work)
  BY DEF DemuxTypeOK
<1>4. DOMAIN kwork \subseteq Nat /\ \A i \in DOMAIN kwork : kwork[i] \in Work
  BY <1>3
<1> QED BY <1>2, <1>3, <1>4 DEF DemuxTypeOK, IsMap

LEMMA StreamFacts ==
  ASSUME DemuxTypeOK
  PROVE  /\ \A s \in Session : mail[s] \in Seq(Work) /\ Len(mail[s]) <= 1
         /\ \A i \in DOMAIN held : held[i].s \in Session /\ held[i].w \in Work
         /\ \A i \in DOMAIN regs : regs[i].s \in Session /\ regs[i].port \in Ports \cup {AnyPort}
         /\ \A i \in DOMAIN gives : gives[i].h \in Handles /\ gives[i].s \in {0} \cup Session
         /\ \A i \in DOMAIN drops : drops[i] \in Session
         /\ \A i \in DOMAIN bq :
              /\ bq[i].op \in {"connect", "giveback", "disconnect"}
              /\ bq[i].op = "connect" => bq[i].s \in Session /\ bq[i].port \in Ports \cup {AnyPort}
              /\ bq[i].op = "giveback" => bq[i].h \in Handles
              /\ bq[i].op = "disconnect" => bq[i].s \in Session
         /\ \A i \in DOMAIN ctrl :
              /\ ctrl[i].op \in {"register", "registerErr", "disconnect"}
              /\ ctrl[i].s \in Session /\ (ctrl[i].op = "register" => ctrl[i].port \in Ports)
         /\ \A i \in DOMAIN queue : queue[i] \in Ports
<1>1. /\ held \in Seq([s : Session, w : Work])
      /\ regs \in Seq([s : Session, port : Ports \cup {AnyPort}])
      /\ gives \in Seq([h : Handles, s : {0} \cup Session]) /\ drops \in Seq(Session)
      /\ bq \in Seq([op : {"connect"}, s : Session, port : Ports \cup {AnyPort}]
                    \cup [op : {"giveback"}, h : Handles] \cup [op : {"disconnect"}, s : Session])
      /\ ctrl \in Seq([op : {"register"}, s : Session, port : Ports]
                      \cup [op : {"registerErr", "disconnect"}, s : Session])
      /\ queue \in Seq(Ports) /\ mail \in [Session -> Seq(Work)]
      /\ \A s \in Session : Len(mail[s]) <= 1
  BY DEF DemuxTypeOK
<1>2. \A i \in DOMAIN held : held[i].s \in Session /\ held[i].w \in Work
  <2>1. \A i \in DOMAIN held : held[i] \in [s : Session, w : Work]
    BY <1>1, ElementFacts
  <2> QED BY <2>1
<1>3. \A i \in DOMAIN regs : regs[i].s \in Session /\ regs[i].port \in Ports \cup {AnyPort}
  <2>1. \A i \in DOMAIN regs : regs[i] \in [s : Session, port : Ports \cup {AnyPort}]
    BY <1>1, ElementFacts
  <2> QED BY <2>1
<1>4. \A i \in DOMAIN gives : gives[i].h \in Handles /\ gives[i].s \in {0} \cup Session
  <2>1. \A i \in DOMAIN gives : gives[i] \in [h : Handles, s : {0} \cup Session]
    BY <1>1, ElementFacts
  <2> QED BY <2>1
<1>5. \A i \in DOMAIN bq :
        /\ bq[i].op \in {"connect", "giveback", "disconnect"}
        /\ bq[i].op = "connect" => bq[i].s \in Session /\ bq[i].port \in Ports \cup {AnyPort}
        /\ bq[i].op = "giveback" => bq[i].h \in Handles
        /\ bq[i].op = "disconnect" => bq[i].s \in Session
  <2>1. \A i \in DOMAIN bq :
          bq[i] \in [op : {"connect"}, s : Session, port : Ports \cup {AnyPort}]
                    \cup [op : {"giveback"}, h : Handles] \cup [op : {"disconnect"}, s : Session]
    BY <1>1, ElementFacts
  <2> QED BY <2>1
<1>6. \A i \in DOMAIN ctrl :
        /\ ctrl[i].op \in {"register", "registerErr", "disconnect"}
        /\ ctrl[i].s \in Session /\ (ctrl[i].op = "register" => ctrl[i].port \in Ports)
  <2>1. \A i \in DOMAIN ctrl :
          ctrl[i] \in [op : {"register"}, s : Session, port : Ports]
                      \cup [op : {"registerErr", "disconnect"}, s : Session]
    BY <1>1, ElementFacts
  <2> QED BY <2>1
<1>7. /\ \A i \in DOMAIN drops : drops[i] \in Session
      /\ \A i \in DOMAIN queue : queue[i] \in Ports
  BY <1>1
<1> QED BY <1>1, <1>2, <1>3, <1>4, <1>5, <1>6, <1>7

LEMMA SoundTypes == MapInv => KeyMapTypeOK(mailer, Keys, Session)
BY DEF MapInv, Sound

LEMMA ResetPortKeeps ==
  ASSUME DemuxInv, Overlap = {}, NEW p \in Ports, ResetPort(p)
  PROVE  DemuxInv'
<1> DEFINE w == PortStat(p, owner[p], "resetting")
<1>0. /\ DemuxTypeOK /\ AssertionsHold /\ MapInv
      /\ Owners /\ Registering /\ Results /\ Leaving
      /\ OneAtATime /\ Defaults /\ QueueInv /\ DoneInv /\ AddrInv /\ KnownAddr /\ UrbInv
      /\ StatInv /\ UrbWork /\ ToDefault /\ ToAddress /\ CancelInv
      /\ Keyed /\ OutInv /\ OnePlace /\ MailInv /\ BackInv /\ GiveInv
  BY DEF DemuxInv
<1>1. /\ UNCHANGED <<addr, owner, cur, unlinked, nUrbs, lagging, nSession, sess, mail, got,
                     regs, gives, drops, bq, ctrl, mailer, queue, held, demux>>
      /\ kwork' = Append(kwork, w) /\ nResets' = nResets + 1 /\ nResets < MaxReset
      /\ pstate[p] \in {"connected", "resetting", "default", "addressed"}
      /\ Enumerating \subseteq {p} /\ InProgress(owner[p]) = {}
  BY DEF ResetPort, sessionVars, taskVars
<1>2. owner[p] \in Session
  BY <1>0, <1>1, TypeFacts DEF Owners
<1>3. w \in Work /\ w.op = "PortStat" /\ w.p = p /\ w.to = owner[p] /\ w.stat = "resetting"
  BY <1>2, WorkMade
<1> HIDE DEF w
<1>4. NoUrb /\ Quiet /\ StatOnly
  BY <1>0, <1>1, <1>3, KworkStat, TypeFacts
<1>5. /\ pstate' \in [Ports -> {"free", "connected", "resetting", "default", "addressed",
                                "retired"}]
      /\ pstate'[p] = "resetting" /\ \A q \in Ports : q # p => pstate'[q] = pstate[q]
  <2>1. pstate' = [q \in Ports |-> IF q = p THEN "resetting"
                                ELSE IF q \in Enumerating THEN "connected" ELSE pstate[q]]
    BY DEF ResetPort
  <2> QED BY <1>0, <1>1, <2>1, TypeFacts
<1>6. Enumerating' = {p}
  BY <1>1, <1>5 DEF Enumerating
<1>7. MapInv' /\ Registering' /\ Results' /\ Leaving' /\ KnownAddr' /\ UrbWork' /\ CancelInv'
      /\ Keyed' /\ OutInv' /\ OnePlace' /\ MailInv' /\ BackInv' /\ GiveInv'
  BY <1>0, <1>1, <1>4, FrMap, FrRegistering, FrResults, FrLeaving, FrKnownAddr, FrUrbWork,
     FrCancel, FrKeyed, FrOut, FrOnePlace, FrMail, FrBack, FrGive
<1>8. Owners'
  BY <1>0, <1>1, <1>2, <1>5, SessionFacts DEF Owners, At, Serves
<1>9. OneAtATime'
  BY <1>0, <1>1, <1>5, <1>6 DEF OneAtATime, InProgress
<1>10. \A q \in Ports : pstate'[q] # "default"
  BY <1>1, <1>5 DEF Enumerating
<1>11. Defaults'
  BY <1>10 DEF Defaults
<1>12. QueueInv'
  BY <1>0, <1>1, <1>4, <1>6, SameWaits DEF QueueInv, At
<1>13. DoneInv'
  BY <1>0, <1>1, <1>4, <1>6
     DEF DoneInv, Done, Urb, Quiet, NoUrb, Longer
<1>14. AddrInv'
  BY <1>0, <1>1, <1>5 DEF AddrInv, At
<1>15. UrbInv'
  BY <1>0, <1>1, <1>4, <1>5, SameWaits DEF UrbInv, At, InProgress
<1>16. StatInv'
  BY <1>0, <1>1, <1>3, AppendFacts, TypeFacts DEF StatInv
<1>17. ToDefault'
  <2>1. \A i \in DOMAIN kwork : ~(Urb(i) /\ kwork[i].addr = 0)
    BY <1>0, <1>1 DEF ToDefault, UrbWork, Enumerating, InProgress
  <2> QED BY <1>4, <2>1 DEF ToDefault, Urb, NoUrb, Longer
<1>18. ToAddress'
  BY <1>0, <1>1, <1>4, <1>5 DEF ToAddress, UrbWork, Urb, At, NoUrb, Longer, InProgress
<1>19. DemuxTypeOK' /\ AssertionsHold'
  <2>1. kwork' \in Seq(Work) /\ nResets' \in 0..MaxReset
    BY <1>0, <1>1, <1>3, DemuxAssumption DEF DemuxTypeOK
  <2> QED BY <1>0, <1>1, <1>5, <2>1 DEF DemuxTypeOK, AssertionsHold
<1> QED BY <1>7, <1>8, <1>9, <1>11, <1>12, <1>13, <1>14, <1>15, <1>16, <1>17, <1>18, <1>19
        DEF DemuxInv

LEMMA SubmitKeeps ==
  ASSUME DemuxInv, Overlap = {}, NEW p \in Ports, NEW h \in Handles,
         NEW set \in {0} \cup Addresses, Submit(p, h, set)
  PROVE  DemuxInv'
<1> PICK t : t = owner[p]
  OBVIOUS
<1> PICK a : a = IF pstate[p] = "default" THEN 0 ELSE addr[p]
  OBVIOUS
<1> PICK w : w = ProcessUrb(h, t, a, set)
  OBVIOUS
<1> PICK n : n = Len(kwork) + 1
  OBVIOUS
<1>0. /\ DemuxTypeOK /\ AssertionsHold /\ MapInv
      /\ Owners /\ Registering /\ Results /\ Leaving
      /\ OneAtATime /\ Defaults /\ QueueInv /\ DoneInv /\ AddrInv /\ KnownAddr /\ UrbInv
      /\ StatInv /\ UrbWork /\ ToDefault /\ ToAddress /\ CancelInv
      /\ Keyed /\ OutInv /\ OnePlace /\ MailInv /\ BackInv /\ GiveInv
  BY DEF DemuxInv
<1>1. /\ UNCHANGED <<pstate, addr, owner, unlinked, nResets, lagging, nSession, sess, mail,
                     got, regs, gives, drops, bq, ctrl, mailer, queue, held, demux>>
      /\ kwork' = Append(kwork, w) /\ nUrbs' = nUrbs + 1 /\ nUrbs < MaxUrb
      /\ cur' = Insert(cur, h, [s |-> t, set |-> set])
      /\ pstate[p] \in {"default", "addressed"} /\ h \notin DOMAIN cur /\ h \notin lagging
      /\ pstate[p] = "default" => InProgress(t) = {}
      /\ set # 0 => pstate[p] = "default" /\ set \in NewAddress(p)
  BY DEF Submit, sessionVars, taskVars
<1>2. t \in Session /\ a \in {0} \cup Addresses
  BY <1>0, <1>1, TypeFacts DEF Owners
<1>3. /\ w \in Work /\ w.op = "ProcessUrb" /\ w.h = h /\ w.to = t /\ w.addr = a
      /\ w.set = set
  BY <1>2, WorkMade
<1>4. /\ a = 0 => pstate[p] = "default"
      /\ a # 0 => pstate[p] = "addressed" /\ a = addr[p]
  BY <1>0, <1>1 DEF AddrInv
<1>5. \A q \in Ports : owner[q] = t => q = p
  BY <1>0, <1>2, PortFacts
<1>6. set # 0 => \A q \in Ports : addr[q] # set
  BY <1>0, <1>1 DEF NewAddress, Defaults
<1>7. /\ DOMAIN kwork' = DOMAIN kwork \cup {n} /\ n \notin DOMAIN kwork /\ kwork'[n] = w
      /\ \A i \in DOMAIN kwork : kwork'[i] = kwork[i] /\ i < n /\ i \in Nat
      /\ n \in Nat /\ kwork' \in Seq(Work)
  BY <1>0, <1>1, <1>3, AppendFacts, TypeFacts
<1>8. /\ DOMAIN cur' = DOMAIN cur \cup {h} /\ cur'[h].s = t /\ cur'[h].set = set
      /\ \A g \in DOMAIN cur : cur'[g] = cur[g] /\ g # h
      /\ IsMap(cur', Handles, [s : Session, set : {0} \cup Addresses])
  <2>1. /\ DOMAIN cur' = DOMAIN cur \cup {h} /\ cur'[h] = [s |-> t, set |-> set]
        /\ \A g \in DOMAIN cur : cur'[g] = cur[g]
        /\ cur' = [g \in DOMAIN cur' |-> cur'[g]]
    BY <1>1 DEF Insert
  <2>2. [s |-> t, set |-> set] \in [s : Session, set : {0} \cup Addresses]
    BY <1>2
  <2>3. [s |-> t, set |-> set].s = t /\ [s |-> t, set |-> set].set = set
    OBVIOUS
  <2>4. IsMap(cur, Handles, [s : Session, set : {0} \cup Addresses])
    BY <1>0 DEF DemuxTypeOK
  <2>5. \A g \in DOMAIN cur : cur[g] \in [s : Session, set : {0} \cup Addresses]
    BY <2>4 DEF IsMap
  <2>6. IsMap(cur', Handles, [s : Session, set : {0} \cup Addresses])
    BY <2>1, <2>2, <2>4, <2>5 DEF IsMap
  <2> QED BY <1>1, <2>1, <2>3, <2>6
<1>9. /\ ~Waits(h) /\ At("key3", h) = None /\ ~Out(h)
      /\ \A i \in DOMAIN bq : bq[i].op = "giveback" => bq[i].h # h
      /\ \A i \in DOMAIN gives : gives[i].s # 0 => gives[i].h # h
  BY <1>0, <1>1 DEF UrbWork, Waits, Keyed, OutInv, BackInv, GiveInv
<1>10. \A g : Waits(g)' <=> (Waits(g) \/ g = h)
  BY <1>3, <1>7 DEF Waits, Urb
<1>11. \A q : Ready(q)' <=> Ready(q)
  BY <1>3, <1>7 DEF Ready, Done
<1>12. pstate[p] = "default" => \A g \in DOMAIN cur : cur[g].s # t
  BY <1>1 DEF InProgress
<1>14. MapInv' /\ Owners' /\ Registering' /\ Results' /\ Leaving' /\ AddrInv' /\ MailInv'
  BY <1>0, <1>1, FrMap, FrOwners, FrRegistering, FrResults, FrLeaving, FrAddr, FrMail
<1>15. OneAtATime'
  BY <1>0, <1>1, <1>5, <1>8 DEF OneAtATime, Enumerating
<1>16. Defaults'
  <2> SUFFICES ASSUME NEW q \in Ports, pstate[q] = "default"
               PROVE  /\ addr[q] = 0 /\ sess[owner[q]] = "open"
                      /\ \A f, g \in DOMAIN cur' :
                           cur'[f].s = owner[q] /\ cur'[g].s = owner[q] => f = g
                      /\ \/ Queued(q) \/ Ready(q)
                         \/ \E g \in DOMAIN cur' : cur'[g].s = owner[q] /\ cur'[g].set # 0
    BY <1>1, <1>11 DEF Defaults, Queued
  <2>1. /\ addr[q] = 0 /\ sess[owner[q]] = "open"
        /\ \A f, g \in DOMAIN cur : cur[f].s = owner[q] /\ cur[g].s = owner[q] => f = g
        /\ \/ Queued(q) \/ Ready(q)
           \/ \E g \in DOMAIN cur : cur[g].s = owner[q] /\ cur[g].set # 0
    BY <1>0 DEF Defaults
  <2>2. CASE q = p
    BY <1>8, <1>12, <2>1, <2>2
  <2>3. CASE q # p
    BY <1>5, <1>8, <2>1, <2>3
  <2> QED BY <2>2, <2>3
<1>17. QueueInv'
  BY <1>0, <1>1, <1>8, <1>10 DEF QueueInv, Enumerating, At
<1>18. DoneInv'
  <2> SUFFICES ASSUME NEW i \in DOMAIN kwork', Done(i)'
               PROVE  /\ kwork'[i].p \in Enumerating /\ sess[kwork'[i].to] = "open"
                      /\ \A g \in DOMAIN cur' : cur'[g].s = kwork'[i].to =>
                           \E j \in DOMAIN kwork' : j > i /\ Urb(j)' /\ kwork'[j].h = g
    BY <1>1 DEF DoneInv, Enumerating
  <2>1. i \in DOMAIN kwork /\ Done(i) /\ kwork'[i] = kwork[i] /\ n > i
    BY <1>3, <1>7 DEF Done
  <2>2. Urb(n)' /\ kwork'[n].h = h
    BY <1>3, <1>7 DEF Urb
  <2>3. \A j \in DOMAIN kwork : Urb(j) => Urb(j)'
    BY <1>7 DEF Urb
  <2> QED BY <1>0, <1>7, <1>8, <2>1, <2>2, <2>3 DEF DoneInv
<1>19. KnownAddr'
  <2> SUFFICES ASSUME NEW b \in Addresses, At("key2", b) # None
               PROVE  \E q \in Ports :
                        /\ owner[q] = At("key2", b) /\ At("key1", q) = At("key2", b)
                        /\ \/ addr[q] = b \/ Ready(q)
                           \/ \E g \in DOMAIN cur' : /\ cur'[g].s = owner[q]
                                                     /\ cur'[g].set = b /\ ~Waits(g)'
    BY <1>0, <1>1, <1>11 DEF KnownAddr, At
  <2> QED BY <1>0, <1>8, <1>10 DEF KnownAddr
<1>20. UrbInv'
  <2> SUFFICES ASSUME NEW g \in DOMAIN cur'
               PROVE  \E q \in Ports :
                        /\ owner[q] = cur'[g].s /\ pstate[q] \in {"default", "addressed"}
                        /\ cur'[g].set # 0 =>
                             /\ pstate[q] = "default"
                             /\ \A r \in Ports : addr[r] # cur'[g].set
                             /\ ~Waits(g)' => At("key2", cur'[g].set) = owner[q]
    BY <1>1 DEF UrbInv, At
  <2>1. CASE g = h
    BY <1>1, <1>6, <1>8, <1>10, <2>1
  <2>2. CASE g # h
    BY <1>0, <1>8, <1>10, <2>2 DEF UrbInv
  <2> QED BY <2>1, <2>2
<1>21. StatInv'
  BY <1>0, <1>1, <1>3, <1>7 DEF StatInv
<1>22. UrbWork'
  <2>1. \A i \in DOMAIN kwork : Urb(i) => kwork[i].h # h
    BY <1>9 DEF Waits
  <2> QED BY <1>0, <1>1, <1>3, <1>7, <1>8, <2>1 DEF UrbWork, Urb
<1>23. ToDefault'
  <2> SUFFICES ASSUME NEW i \in DOMAIN kwork', Urb(i)', kwork'[i].addr = 0
               PROVE  /\ kwork'[i].h \in DOMAIN cur'
                      /\ \E q \in Ports :
                           /\ owner[q] = kwork'[i].to /\ pstate[q] = "default"
                           /\ \/ Queued(q)
                              \/ \E j \in DOMAIN kwork' : j < i /\ Done(j)' /\ kwork'[j].p = q
    BY <1>1 DEF ToDefault, Queued
  <2>1. \A j \in DOMAIN kwork : (Done(j)' <=> Done(j)) /\ (Urb(j)' <=> Urb(j))
    BY <1>7 DEF Done, Urb
  <2>2. CASE i \in DOMAIN kwork
    BY <1>0, <1>7, <1>8, <2>1, <2>2 DEF ToDefault
  <2>3. CASE i = n
    <3>1. pstate[p] = "default" /\ \A g \in DOMAIN cur : cur[g].s # t
      BY <1>3, <1>4, <1>7, <1>12, <2>3
    <3>2. Queued(p) \/ Ready(p)
      BY <1>0, <3>1 DEF Defaults
    <3> QED BY <1>3, <1>7, <1>8, <2>1, <2>3, <3>1, <3>2 DEF Ready
  <2> QED BY <1>7, <2>2, <2>3
<1>24. ToAddress'
  <2> SUFFICES ASSUME NEW i \in DOMAIN kwork', Urb(i)', kwork'[i].addr # 0
               PROVE  /\ kwork'[i].set = 0 /\ At("key2", kwork'[i].addr) = kwork'[i].to
                      /\ \E q \in Ports :
                           /\ owner[q] = kwork'[i].to /\ addr[q] = kwork'[i].addr
                           /\ \/ pstate[q] = "retired"
                              \/ pstate[q] = "addressed" /\ kwork'[i].h \in DOMAIN cur'
    BY <1>1 DEF ToAddress, At
  <2>1. CASE i \in DOMAIN kwork
    BY <1>0, <1>7, <1>8, <2>1 DEF ToAddress, Urb
  <2>2. CASE i = n
    BY <1>0, <1>1, <1>3, <1>4, <1>7, <1>8, <2>2 DEF AddrInv
  <2> QED BY <1>7, <2>1, <2>2
<1>25. CancelInv'
  <2> SUFFICES ASSUME NEW i \in DOMAIN kwork', Cancels(i)'
               PROVE  /\ At("key3", kwork'[i].h) \in {None, kwork'[i].to}
                      /\ \A j \in DOMAIN kwork' : j < i /\ Urb(j)' /\ kwork'[j].h = kwork'[i].h
                           => kwork'[j].to = kwork'[i].to
                      /\ kwork'[i].h \in DOMAIN cur' =>
                         \/ \E j \in DOMAIN kwork' : j > i /\ Urb(j)' /\ kwork'[j].h = kwork'[i].h
                         \/ /\ kwork'[i].h \in unlinked /\ cur'[kwork'[i].h].s = kwork'[i].to
                            /\ \A j \in DOMAIN kwork' :
                                 Cancels(j)' /\ kwork'[j].h = kwork'[i].h => j <= i
    BY <1>1 DEF CancelInv, At
  <2>1. i \in DOMAIN kwork /\ Cancels(i) /\ kwork'[i] = kwork[i] /\ n > i /\ ~Cancels(n)'
    BY <1>3, <1>7 DEF Cancels
  <2>2. Urb(n)' /\ kwork'[n].h = h
    BY <1>3, <1>7 DEF Urb
  <2>3. \A j \in DOMAIN kwork : (Urb(j) <=> Urb(j)') /\ (Cancels(j) <=> Cancels(j)')
    BY <1>7 DEF Urb, Cancels
  <2>4. /\ At("key3", kwork[i].h) \in {None, kwork[i].to}
        /\ \A j \in DOMAIN kwork : j < i /\ Urb(j) /\ kwork[j].h = kwork[i].h =>
             kwork[j].to = kwork[i].to
        /\ kwork[i].h \in DOMAIN cur =>
             \/ \E j \in DOMAIN kwork : j > i /\ Urb(j) /\ kwork[j].h = kwork[i].h
             \/ /\ kwork[i].h \in unlinked /\ cur[kwork[i].h].s = kwork[i].to
                /\ \A j \in DOMAIN kwork : Cancels(j) /\ kwork[j].h = kwork[i].h => j <= i
    BY <1>0, <2>1 DEF CancelInv
  <2>5. CASE kwork[i].h = h
    BY <1>7, <2>1, <2>2, <2>3, <2>4, <2>5
  <2>6. CASE kwork[i].h # h
    BY <1>7, <1>8, <2>1, <2>2, <2>3, <2>4, <2>6
  <2> QED BY <2>5, <2>6
<1>26. Keyed'
  BY <1>0, <1>1, <1>8, <1>9, <1>10 DEF Keyed, At
<1>27. OutInv'
  <2> SUFFICES ASSUME NEW g \in Handles, Out(g)'
               PROVE  /\ g \in DOMAIN cur' /\ g \notin lagging /\ ~Waits(g)' /\ ~Back(g)'
                      /\ \/ At("key3", g) = cur'[g].s
                         \/ /\ g \in unlinked
                            /\ \A i \in DOMAIN kwork' : ~(Cancels(i)' /\ kwork'[i].h = g)
    BY <1>1 DEF OutInv, At
  <2>1. Out(g)
    BY <1>1, SameOut DEF Out
  <2>2. Back(g)' <=> Back(g)
    BY <1>1 DEF Back
  <2>3. (\A i \in DOMAIN kwork : ~(Cancels(i) /\ kwork[i].h = g)) =>
          \A i \in DOMAIN kwork' : ~(Cancels(i)' /\ kwork'[i].h = g)
    BY <1>3, <1>7 DEF Cancels
  <2> QED BY <1>0, <1>8, <1>9, <1>10, <2>1, <2>2, <2>3 DEF OutInv
<1>28. OnePlace'
  <2>1. \A g \in Handles : Out(g) => cur'[g] = cur[g]
    BY <1>0, <1>8 DEF OutInv
  <2> QED BY <1>0, <1>1, <2>1, SameOut DEF OnePlace, Out
<1>29. BackInv'
  BY <1>0, <1>1, <1>8, <1>9, <1>10 DEF BackInv, At
<1>30. GiveInv'
  BY <1>0, <1>1, <1>9, <1>10 DEF GiveInv
<1>31. DemuxTypeOK' /\ AssertionsHold'
  <2>1. nUrbs' \in 0..MaxUrb
    BY <1>0, <1>1, DemuxAssumption DEF DemuxTypeOK
  <2> QED BY <1>0, <1>1, <1>7, <1>8, <2>1 DEF DemuxTypeOK, AssertionsHold
<1> QED BY <1>14, <1>15, <1>16, <1>17, <1>18, <1>19, <1>20, <1>21, <1>22, <1>23, <1>24, <1>25,
           <1>26, <1>27, <1>28, <1>29, <1>30, <1>31 DEF DemuxInv

LEMMA CancelKeeps ==
  ASSUME DemuxInv, Overlap = {}, NEW h \in Handles, Unlink(h)
  PROVE  DemuxInv'
<1>0. /\ DemuxTypeOK /\ AssertionsHold /\ MapInv
      /\ Owners /\ Registering /\ Results /\ Leaving
      /\ OneAtATime /\ Defaults /\ QueueInv /\ DoneInv /\ AddrInv /\ KnownAddr /\ UrbInv
      /\ StatInv /\ UrbWork /\ ToDefault /\ ToAddress /\ CancelInv
      /\ Keyed /\ OutInv /\ OnePlace /\ MailInv /\ BackInv /\ GiveInv
  BY DEF DemuxInv
<1>a. PICK t \in Session : t = cur[h].s
  BY <1>0, TypeFacts DEF Unlink
<1> PICK w : w = CancelUrb(h, t)
  OBVIOUS
<1> PICK n : n = Len(kwork) + 1
  OBVIOUS
<1>1. /\ UNCHANGED <<pstate, addr, owner, cur, nUrbs, nResets, lagging, nSession, sess, mail,
                     got, regs, gives, drops, bq, ctrl, mailer, queue, held, demux>>
      /\ kwork' = Append(kwork, w) /\ unlinked' = unlinked \cup {h}
      /\ h \in DOMAIN cur /\ h \notin unlinked
  BY <1>a DEF Unlink, sessionVars, taskVars
<1>2. t \in Session
  BY <1>a
<1>3. w \in Work /\ w.op = "CancelUrb" /\ w.h = h /\ w.to = t
  BY <1>2, WorkMade
<1>4. /\ DOMAIN kwork' = DOMAIN kwork \cup {n} /\ n \notin DOMAIN kwork /\ kwork'[n] = w
      /\ \A i \in DOMAIN kwork : kwork'[i] = kwork[i] /\ i < n /\ i \in Nat
      /\ n \in Nat /\ kwork' \in Seq(Work)
  BY <1>0, <1>1, <1>3, AppendFacts, TypeFacts
<1>5. NoUrb /\ Quiet
  BY <1>3, <1>4 DEF NoUrb, Quiet, Longer, Done
<1>6. /\ MapInv' /\ Owners' /\ Registering' /\ Results' /\ Leaving' /\ OneAtATime' /\ Defaults'
      /\ QueueInv' /\ DoneInv' /\ AddrInv' /\ KnownAddr' /\ UrbInv' /\ UrbWork' /\ ToDefault'
      /\ ToAddress' /\ Keyed' /\ OnePlace' /\ MailInv' /\ BackInv' /\ GiveInv'
  BY <1>0, <1>1, <1>5, FrMap, FrOwners, FrRegistering, FrResults, FrLeaving, FrOneAtATime,
     FrDefaults, FrQueue, FrDone, FrAddr, FrKnownAddr, FrUrb, FrUrbWork, FrToDefault,
     FrToAddress, FrKeyed, FrOnePlace, FrMail, FrBack, FrGive
<1>7. StatInv'
  BY <1>0, <1>1, <1>3, <1>4 DEF StatInv
<1>8. /\ \A j \in DOMAIN kwork : (Urb(j)' <=> Urb(j)) /\ (Cancels(j)' <=> Cancels(j))
      /\ ~Urb(n)'
  BY <1>3, <1>4 DEF Urb, Cancels
<1>9. At("key3", h) \in {None, t}
  BY <1>0, <1>1, <1>a DEF Keyed
<1>10. \A j \in DOMAIN kwork : Urb(j) /\ kwork[j].h = h => kwork[j].to = t
  BY <1>0, <1>1, <1>a DEF UrbWork
<1>11. CancelInv'
  <2> SUFFICES ASSUME NEW i \in DOMAIN kwork', Cancels(i)'
               PROVE  /\ At("key3", kwork'[i].h) \in {None, kwork'[i].to}
                      /\ \A j \in DOMAIN kwork' : j < i /\ Urb(j)' /\ kwork'[j].h = kwork'[i].h
                           => kwork'[j].to = kwork'[i].to
                      /\ kwork'[i].h \in DOMAIN cur =>
                         \/ \E j \in DOMAIN kwork' : j > i /\ Urb(j)' /\ kwork'[j].h = kwork'[i].h
                         \/ /\ kwork'[i].h \in unlinked' /\ cur[kwork'[i].h].s = kwork'[i].to
                            /\ \A j \in DOMAIN kwork' :
                                 Cancels(j)' /\ kwork'[j].h = kwork'[i].h => j <= i
    BY <1>1 DEF CancelInv, At
  <2>1. CASE i = n
    BY <1>1, <1>3, <1>4, <1>8, <1>9, <1>10, <1>a, <2>1
  <2>2. CASE i \in DOMAIN kwork
    <3>1. /\ At("key3", kwork[i].h) \in {None, kwork[i].to}
          /\ \A j \in DOMAIN kwork : j < i /\ Urb(j) /\ kwork[j].h = kwork[i].h =>
               kwork[j].to = kwork[i].to
          /\ kwork[i].h \in DOMAIN cur =>
               \/ \E j \in DOMAIN kwork : j > i /\ Urb(j) /\ kwork[j].h = kwork[i].h
               \/ /\ kwork[i].h \in unlinked /\ cur[kwork[i].h].s = kwork[i].to
                  /\ \A j \in DOMAIN kwork : Cancels(j) /\ kwork[j].h = kwork[i].h => j <= i
      BY <1>0, <1>8, <2>2 DEF CancelInv
    <3>2. kwork[i].h = h => h \notin unlinked
      BY <1>1
    <3>3. kwork[i].h # h => ~(Cancels(n)' /\ kwork'[n].h = kwork[i].h)
      BY <1>3, <1>4
    <3> QED BY <1>1, <1>4, <1>8, <2>2, <3>1, <3>2, <3>3
  <2> QED BY <1>4, <2>1, <2>2
<1>12. OutInv'
  <2> SUFFICES ASSUME NEW g \in Handles, Out(g)'
               PROVE  /\ g \in DOMAIN cur /\ g \notin lagging /\ ~Waits(g)' /\ ~Back(g)'
                      /\ \/ At("key3", g) = cur[g].s
                         \/ /\ g \in unlinked'
                            /\ \A i \in DOMAIN kwork' : ~(Cancels(i)' /\ kwork'[i].h = g)
    BY <1>1 DEF OutInv, At
  <2>1. Out(g)
    BY <1>1, SameOut DEF Out
  <2>2. (Back(g)' <=> Back(g)) /\ (Waits(g)' <=> Waits(g))
    BY <1>1, <1>5, SameWaits DEF Back
  <2>3. CASE g = h
    BY <1>0, <1>1, <2>1, <2>2, <2>3 DEF OutInv
  <2>4. CASE g # h
    BY <1>0, <1>1, <1>3, <1>4, <1>8, <2>1, <2>2, <2>4 DEF OutInv
  <2> QED BY <2>3, <2>4
<1>13. DemuxTypeOK' /\ AssertionsHold'
  BY <1>0, <1>1, <1>4 DEF DemuxTypeOK, AssertionsHold
<1> QED BY <1>6, <1>7, <1>11, <1>12, <1>13 DEF DemuxInv

LEMMA registerKeeps ==
  ASSUME DemuxInv, Overlap = {}, NEW port \in Ports \cup {AnyPort}, register(port)
  PROVE  DemuxInv'
<1> PICK t : t = nSession + 1
  OBVIOUS
<1> PICK n : n = Len(regs) + 1
  OBVIOUS
<1>0. /\ DemuxTypeOK /\ AssertionsHold /\ MapInv
      /\ Owners /\ Registering /\ Results /\ Leaving
      /\ OneAtATime /\ Defaults /\ QueueInv /\ DoneInv /\ AddrInv /\ KnownAddr /\ UrbInv
      /\ StatInv /\ UrbWork /\ ToDefault /\ ToAddress /\ CancelInv
      /\ Keyed /\ OutInv /\ OnePlace /\ MailInv /\ BackInv /\ GiveInv
  BY DEF DemuxInv
<1>1. /\ UNCHANGED <<pstate, addr, owner, cur, unlinked, nUrbs, nResets, kwork, lagging, mail,
                     got, gives, drops, bq, ctrl, mailer, queue, held, demux>>
      /\ nSession < MaxSession /\ nSession' = t
      /\ sess' = [sess EXCEPT ![t] = "registering"]
      /\ regs' = Append(regs, [s |-> t, port |-> port])
  BY DEF register, guestVars, taskVars
<1>2. t \in Session /\ nSession' \in 0..MaxSession
  BY <1>0, <1>1, DemuxAssumption DEF DemuxTypeOK, Session
<1>3. sess[t] = "none" /\ nSession \in Nat
  BY <1>0, <1>2, DemuxAssumption DEF Registering, DemuxTypeOK
<1>4. /\ sess' \in [Session -> {"none", "registering", "open", "closing", "gone"}]
      /\ sess'[t] = "registering" /\ \A s \in Session : s # t => sess'[s] = sess[s]
  BY <1>0, <1>1, <1>2, TypeFacts
<1>5. [s |-> t, port |-> port] \in [s : Session, port : Ports \cup {AnyPort}]
      /\ [s |-> t, port |-> port].s = t
  BY <1>2
<1>6. regs \in Seq([s : Session, port : Ports \cup {AnyPort}])
  BY <1>0 DEF DemuxTypeOK
<1>7. /\ DOMAIN regs' = DOMAIN regs \cup {n} /\ n \notin DOMAIN regs /\ regs'[n].s = t
      /\ \A i \in DOMAIN regs : regs'[i] = regs[i]
      /\ regs' \in Seq([s : Session, port : Ports \cup {AnyPort}])
      /\ \A i \in DOMAIN regs : regs[i].s \in Session
  BY <1>0, <1>1, <1>5, <1>6, AppendFacts, StreamFacts
<1>8. /\ \A p \in Ports : owner[p] # t /\ (owner[p] # 0 => owner[p] \in Session)
  <2>1. t \notin Opened
    BY <1>3 DEF Opened
  <2>2. \A p \in Ports : At("key1", p) # None => At("key1", p) \in Opened
    BY <1>0, AtFacts DEF Kind
  <2> QED BY <1>0, <1>2, <1>3, <2>1, <2>2, SessionFacts, TypeFacts DEF Owners
<1>9. Opened' = Opened
  BY <1>3, <1>4 DEF Opened
<1>10. NoUrb /\ Quiet /\ StatOnly
  BY <1>0, <1>1, KworkSame, TypeFacts
<1>11. /\ OneAtATime' /\ AddrInv' /\ KnownAddr' /\ UrbInv' /\ StatInv' /\ UrbWork' /\ ToDefault'
       /\ ToAddress' /\ CancelInv' /\ Keyed' /\ BackInv' /\ GiveInv'
  BY <1>0, <1>1, <1>10, FrOneAtATime, FrAddr, FrKnownAddr, FrUrb, FrStat, FrUrbWork,
     FrToDefault, FrToAddress, FrCancel, FrKeyed, FrBack, FrGive
<1>12. MapInv'
  BY <1>0, <1>1, <1>9 DEF MapInv
<1>13. Owners'
  <2>1. \A p \in Ports : owner[p] # 0 => sess'[owner[p]] = sess[owner[p]]
    BY <1>4, <1>8
  <2> QED BY <1>0, <1>1, <1>4, <2>1, SessionFacts DEF Owners, At, Serves
<1>14. Registering'
  <2>1. \A s \in Session : sess'[s] = "none" <=> s > nSession'
    <3> SUFFICES ASSUME NEW s \in Session PROVE sess'[s] = "none" <=> s > nSession'
      OBVIOUS
    <3>1. (sess[s] = "none" <=> s > nSession) /\ s \in Nat
      BY <1>0, SessionFacts DEF Registering
    <3> QED BY <1>1, <1>3, <1>4, <3>1
  <2>2. \A i \in DOMAIN bq : bq[i].op = "connect" => sess[bq[i].s] = "registering"
    BY <1>0 DEF Registering
  <2>3. \A i \in DOMAIN bq : bq[i].op = "connect" => bq[i].s # t /\ sess'[bq[i].s] = "registering"
    BY <1>0, <1>1, <1>3, <2>2 DEF DemuxTypeOK
  <2>4. \A i \in DOMAIN regs : regs[i].s # t /\ sess'[regs[i].s] = "registering"
    BY <1>0, <1>1, <1>3, <1>4, <1>7 DEF Registering
  <2> QED BY <1>0, <1>1, <1>4, <1>7, <1>8, <2>1, <2>3, <2>4 DEF Registering, Unowned
<1> USE SessionFacts
<1>15. \A i \in DOMAIN ctrl : ctrl[i].s \in Session
  BY <1>0 DEF DemuxTypeOK
<1>16. Results'
  <2>1. \A i \in DOMAIN ctrl : ctrl[i].s # t /\ sess'[ctrl[i].s] = sess[ctrl[i].s]
    BY <1>0, <1>3, <1>4, <1>15 DEF Results
  <2> QED BY <1>0, <1>1, <1>7, <2>1 DEF Results, Unowned, At
<1>17. Leaving'
  BY <1>0, <1>1, <1>3, <1>4 DEF Leaving, Leaves, Serves, At
<1>18. \A s \in Session : sess'[s] = "open" <=> sess[s] = "open"
  BY <1>3, <1>4
<1>19. \A p \in Ports : pstate[p] # "free" => owner[p] \in Session /\ sess'[owner[p]] = sess[owner[p]]
  BY <1>0, <1>4, <1>8 DEF Owners
<1>20. Defaults'
  BY <1>0, <1>1, <1>10, <1>19, MoreReady DEF Defaults, Queued
<1>21. QueueInv'
  <2>1. \A i \in DOMAIN queue : queue[i] \in Ports
    BY <1>0 DEF DemuxTypeOK
  <2> QED BY <1>0, <1>1, <1>10, <1>19, <2>1, SameWaits DEF QueueInv, Enumerating, At
<1>22. DoneInv'
  <2>1. \A i \in DOMAIN kwork : kwork[i].to \in Session
    BY <1>0, TypeFacts, WorkFields
  <2> QED BY <1>0, <1>1, <1>18, <2>1 DEF DoneInv, Done, Urb, Enumerating
<1>23. \A g : (InHeld(g)' <=> InHeld(g)) /\ \A s \in Session : (Carries(s, g)' <=> Carries(s, g))
  <2>1. \A i \in DOMAIN held : held[i].s \in Session
    BY <1>0, StreamFacts
  <2> QED BY <1>1, <1>18, <2>1 DEF InHeld, Carries
<1>24. OutInv'
  BY <1>0, <1>1, <1>10, <1>23, SameWaits DEF OutInv, Out, Back, At, Cancels
<1>25. OnePlace'
  BY <1>0, <1>1, <1>23 DEF OnePlace
<1>26. MailInv'
  BY <1>0, <1>1, <1>9, <1>18 DEF MailInv
<1>27. DemuxTypeOK' /\ AssertionsHold'
  BY <1>0, <1>1, <1>2, <1>4, <1>7 DEF DemuxTypeOK, AssertionsHold
<1> QED BY <1>11, <1>12, <1>13, <1>14, <1>16, <1>17, <1>20, <1>21, <1>22, <1>24, <1>25, <1>26,
           <1>27 DEF DemuxInv

Closures == [op : {"connect"}, s : Session, port : Ports \cup {AnyPort}]
            \cup [op : {"giveback"}, h : Handles] \cup [op : {"disconnect"}, s : Session]

LEMMA BqAppend ==
  ASSUME DemuxTypeOK, NEW e \in Closures, bq' = Append(bq, e), NEW n, n = Len(bq) + 1
  PROVE  /\ DOMAIN bq' = DOMAIN bq \cup {n} /\ n \notin DOMAIN bq /\ bq'[n] = e
         /\ \A i \in DOMAIN bq : bq'[i] = bq[i] /\ i < n /\ i \in Nat
         /\ n \in Nat /\ bq' \in Seq(Closures)
<1>1. bq \in Seq(Closures)
  BY DEF DemuxTypeOK, Closures
<1> QED BY <1>1, AppendFacts

LEMMA EventRegisterKeeps ==
  ASSUME DemuxInv, Overlap = {}, EventRegister
  PROVE  DemuxInv'
<1>0. /\ DemuxTypeOK /\ AssertionsHold /\ MapInv
      /\ Owners /\ Registering /\ Results /\ Leaving
      /\ OneAtATime /\ Defaults /\ QueueInv /\ DoneInv /\ AddrInv /\ KnownAddr /\ UrbInv
      /\ StatInv /\ UrbWork /\ ToDefault /\ ToAddress /\ CancelInv
      /\ Keyed /\ OutInv /\ OnePlace /\ MailInv /\ BackInv /\ GiveInv
  BY DEF DemuxInv
<1>1. /\ UNCHANGED <<pstate, addr, owner, cur, unlinked, nUrbs, nResets, nSession, got, lagging,
                     kwork, sess, mail, gives, drops, ctrl, mailer, queue, held, demux>>
      /\ regs # <<>> /\ regs' = Tail(regs)
      /\ bq' = Append(bq, [op |-> "connect", s |-> Head(regs).s, port |-> Head(regs).port])
  BY DEF EventRegister, eventKeeps, taskVars
<1>2. regs \in Seq([s : Session, port : Ports \cup {AnyPort}])
  BY <1>0 DEF DemuxTypeOK
<1>3. /\ regs' \in Seq([s : Session, port : Ports \cup {AnyPort}])
      /\ 1 \in DOMAIN regs /\ Head(regs) = regs[1]
      /\ DOMAIN regs' \subseteq Nat \ {0}
      /\ \A i \in DOMAIN regs' : i + 1 \in DOMAIN regs /\ regs'[i] = regs[i + 1]
  BY <1>1, <1>2, TailFacts
<1>a. PICK e : e = [op |-> "connect", s |-> Head(regs).s, port |-> Head(regs).port]
  OBVIOUS
<1> PICK n : n = Len(bq) + 1
  OBVIOUS
<1>4. e \in Closures /\ e.op = "connect" /\ e.s = regs[1].s
  <2>1. regs[1].s \in Session /\ regs[1].port \in Ports \cup {AnyPort}
    BY <1>0, <1>3, StreamFacts
  <2> QED BY <1>3, <1>a, <2>1 DEF Closures
<1>5. /\ DOMAIN bq' = DOMAIN bq \cup {n} /\ n \notin DOMAIN bq /\ bq'[n] = e
      /\ \A i \in DOMAIN bq : bq'[i] = bq[i] /\ i < n /\ i \in Nat
      /\ n \in Nat /\ bq' \in Seq(Closures)
  BY <1>0, <1>1, <1>4, <1>a, BqAppend
<1>6. NoUrb /\ Quiet /\ StatOnly
  BY <1>0, <1>1, KworkSame, TypeFacts
<1>7. /\ MapInv' /\ Owners' /\ OneAtATime' /\ Defaults' /\ QueueInv' /\ DoneInv' /\ AddrInv'
      /\ KnownAddr' /\ UrbInv' /\ StatInv' /\ UrbWork' /\ ToDefault' /\ ToAddress' /\ CancelInv'
      /\ Keyed' /\ OnePlace' /\ MailInv' /\ GiveInv'
  BY <1>0, <1>1, <1>6, FrMap, FrOwners, FrOneAtATime, FrDefaults, FrQueue, FrDone, FrAddr,
     FrKnownAddr, FrUrb, FrStat, FrUrbWork, FrToDefault, FrToAddress, FrCancel, FrKeyed,
     FrOnePlace, FrMail, FrGive
<1>8. \A i \in DOMAIN regs' : regs'[i].s # regs[1].s
  BY <1>0, <1>3 DEF Registering
<1>9. Registering'
  <2>1. \A i \in DOMAIN regs' : /\ sess[regs'[i].s] = "registering" /\ Unowned(regs'[i].s)
                                /\ \A j \in DOMAIN regs' : regs'[i].s = regs'[j].s => i = j
    <3>1. \A i, j \in DOMAIN regs' : i + 1 = j + 1 => i = j
      BY <1>3
    <3> QED BY <1>0, <1>3, <3>1 DEF Registering
  <2>2. sess[regs[1].s] = "registering" /\ Unowned(regs[1].s)
    BY <1>0, <1>3 DEF Registering
  <2>3. \A i \in DOMAIN bq : bq[i].op = "connect" => bq[i].s # regs[1].s
    BY <1>0, <1>3 DEF Registering
  <2> QED BY <1>0, <1>1, <1>3, <1>4, <1>5, <1>8, <2>1, <2>2, <2>3 DEF Registering, Unowned
<1>10. Results'
  BY <1>0, <1>1, <1>3, <1>4, <1>5 DEF Results, Unowned, At
<1>11. Leaving'
  BY <1>0, <1>1, <1>4, <1>5 DEF Leaving, Leaves, Serves, At
<1>12. \A g : Back(g)' <=> Back(g)
  BY <1>4, <1>5 DEF Back
<1>13. OutInv'
  BY <1>0, <1>1, <1>6, <1>12, SameOut, SameWaits DEF OutInv, Out, At, Cancels
<1>14. BackInv'
  BY <1>0, <1>1, <1>4, <1>5, <1>6, SameWaits DEF BackInv, At
<1>15. DemuxTypeOK' /\ AssertionsHold'
  BY <1>0, <1>1, <1>3, <1>5 DEF DemuxTypeOK, AssertionsHold, Closures
<1> QED BY <1>7, <1>9, <1>10, <1>11, <1>13, <1>14, <1>15 DEF DemuxInv

LEMMA EventDisconnectKeeps ==
  ASSUME DemuxInv, Overlap = {}, EventDisconnect
  PROVE  DemuxInv'
<1>0. /\ DemuxTypeOK /\ AssertionsHold /\ MapInv
      /\ Owners /\ Registering /\ Results /\ Leaving
      /\ OneAtATime /\ Defaults /\ QueueInv /\ DoneInv /\ AddrInv /\ KnownAddr /\ UrbInv
      /\ StatInv /\ UrbWork /\ ToDefault /\ ToAddress /\ CancelInv
      /\ Keyed /\ OutInv /\ OnePlace /\ MailInv /\ BackInv /\ GiveInv
  BY DEF DemuxInv
<1>1. /\ UNCHANGED <<pstate, addr, owner, cur, unlinked, nUrbs, nResets, nSession, got, lagging,
                     kwork, sess, mail, regs, gives, ctrl, mailer, queue, held, demux>>
      /\ drops # <<>> /\ drops' = Tail(drops)
      /\ bq' = Append(bq, [op |-> "disconnect", s |-> Head(drops)])
  BY DEF EventDisconnect, eventKeeps, taskVars
<1>2. drops \in Seq(Session)
  BY <1>0 DEF DemuxTypeOK
<1>3. /\ drops' \in Seq(Session) /\ 1 \in DOMAIN drops /\ Head(drops) = drops[1]
      /\ drops[1] \in Session
      /\ \A i \in DOMAIN drops' : i + 1 \in DOMAIN drops /\ drops'[i] = drops[i + 1]
  BY <1>1, <1>2, TailFacts
<1>a. PICK e : e = [op |-> "disconnect", s |-> drops[1]]
  OBVIOUS
<1> PICK n : n = Len(bq) + 1
  OBVIOUS
<1>4. e \in Closures /\ e.op = "disconnect" /\ e.s = drops[1]
  BY <1>3, <1>a DEF Closures
<1>5. /\ DOMAIN bq' = DOMAIN bq \cup {n} /\ n \notin DOMAIN bq /\ bq'[n] = e
      /\ \A i \in DOMAIN bq : bq'[i] = bq[i] /\ i < n /\ i \in Nat
      /\ n \in Nat /\ bq' \in Seq(Closures)
  BY <1>0, <1>1, <1>3, <1>4, <1>a, BqAppend
<1>6. NoUrb /\ Quiet /\ StatOnly
  BY <1>0, <1>1, KworkSame, TypeFacts
<1>7. /\ MapInv' /\ Owners' /\ OneAtATime' /\ Defaults' /\ QueueInv' /\ DoneInv' /\ AddrInv'
      /\ KnownAddr' /\ UrbInv' /\ StatInv' /\ UrbWork' /\ ToDefault' /\ ToAddress' /\ CancelInv'
      /\ Keyed' /\ OnePlace' /\ MailInv' /\ GiveInv'
  BY <1>0, <1>1, <1>6, FrMap, FrOwners, FrOneAtATime, FrDefaults, FrQueue, FrDone, FrAddr,
     FrKnownAddr, FrUrb, FrStat, FrUrbWork, FrToDefault, FrToAddress, FrCancel, FrKeyed,
     FrOnePlace, FrMail, FrGive
<1>8. Registering'
  BY <1>0, <1>1, <1>4, <1>5 DEF Registering, Unowned
<1>9. Results'
  BY <1>0, <1>1, <1>4, <1>5 DEF Results, Unowned, At
<1>10. Leaving'
  <2>1. \A s : Leaves(s)' <=> Leaves(s)
    BY <1>1 DEF Leaves, Serves, At
  <2>2. Leaves(drops[1]) /\ \A i \in DOMAIN drops' : Leaves(drops'[i])
    BY <1>0, <1>3 DEF Leaving
  <2>3. \A i \in DOMAIN bq' : bq'[i].op = "disconnect" => Leaves(bq'[i].s)
    BY <1>0, <1>4, <1>5, <2>2 DEF Leaving
  <2> QED BY <1>1, <2>2, <2>3 DEF Leaving, Leaves, Serves, At
<1>11. \A g : Back(g)' <=> Back(g)
  BY <1>4, <1>5 DEF Back
<1>12. OutInv'
  BY <1>0, <1>1, <1>6, <1>11, SameOut, SameWaits DEF OutInv, Out, At, Cancels
<1>13. BackInv'
  BY <1>0, <1>1, <1>4, <1>5, <1>6, SameWaits DEF BackInv, At
<1>14. DemuxTypeOK' /\ AssertionsHold'
  BY <1>0, <1>1, <1>3, <1>5 DEF DemuxTypeOK, AssertionsHold, Closures
<1> QED BY <1>7, <1>8, <1>9, <1>10, <1>12, <1>13, <1>14 DEF DemuxInv

LEMMA giveback_urbKeeps ==
  ASSUME DemuxInv, Overlap = {}, NEW h \in Handles, giveback_urb(h)
  PROVE  DemuxInv'
<1>0. /\ DemuxTypeOK /\ AssertionsHold /\ MapInv
      /\ Owners /\ Registering /\ Results /\ Leaving
      /\ OneAtATime /\ Defaults /\ QueueInv /\ DoneInv /\ AddrInv /\ KnownAddr /\ UrbInv
      /\ StatInv /\ UrbWork /\ ToDefault /\ ToAddress /\ CancelInv
      /\ Keyed /\ OutInv /\ OnePlace /\ MailInv /\ BackInv /\ GiveInv
  BY DEF DemuxInv
<1>a. PICK t \in Session : t = cur[h].s
  BY <1>0, TypeFacts DEF giveback_urb
<1>b. PICK e : e = [op |-> "giveback", h |-> h]
  OBVIOUS
<1>c. PICK v : v = [h |-> h, s |-> t]
  OBVIOUS
<1> PICK n : n = Len(bq) + 1
  OBVIOUS
<1> PICK m : m = Len(gives) + 1
  OBVIOUS
<1>1. /\ UNCHANGED <<pstate, addr, owner, cur, unlinked, nUrbs, nResets, kwork, nSession, sess,
                     mail, regs, drops, ctrl, mailer, queue, held, demux>>
      /\ h \in got /\ sess[t] = "open"
      /\ got' = got \ {h} /\ lagging' = lagging \cup {h}
      /\ bq' = Append(bq, e) /\ gives' = Append(gives, v)
  BY <1>a, <1>b, <1>c DEF giveback_urb, guestVars, taskVars
<1>2. e \in Closures /\ e.op = "giveback" /\ e.h = h
  BY <1>b DEF Closures
<1>3. /\ DOMAIN bq' = DOMAIN bq \cup {n} /\ n \notin DOMAIN bq /\ bq'[n] = e
      /\ \A i \in DOMAIN bq : bq'[i] = bq[i] /\ i < n /\ i \in Nat
      /\ n \in Nat /\ bq' \in Seq(Closures)
  BY <1>0, <1>1, <1>2, BqAppend
<1>4. v \in [h : Handles, s : {0} \cup Session] /\ v.h = h /\ v.s # 0
  BY <1>c, SessionFacts
<1>5. /\ DOMAIN gives' = DOMAIN gives \cup {m} /\ m \notin DOMAIN gives /\ gives'[m] = v
      /\ \A i \in DOMAIN gives : gives'[i] = gives[i]
      /\ gives' \in Seq([h : Handles, s : {0} \cup Session])
  <2>1. gives \in Seq([h : Handles, s : {0} \cup Session])
    BY <1>0 DEF DemuxTypeOK
  <2> QED BY <1>1, <1>4, <2>1, AppendFacts
<1>6. /\ h \in DOMAIN cur /\ h \notin lagging /\ ~Waits(h) /\ ~Back(h)
      /\ ~InHeld(h) /\ \A s \in Session : ~Carries(s, h)
  BY <1>0, <1>1 DEF OutInv, Out, OnePlace
<1>7. NoUrb /\ Quiet /\ StatOnly
  BY <1>0, <1>1, KworkSame, TypeFacts
<1>8. /\ MapInv' /\ Owners' /\ OneAtATime' /\ Defaults' /\ QueueInv' /\ DoneInv' /\ AddrInv'
      /\ KnownAddr' /\ UrbInv' /\ StatInv' /\ ToDefault' /\ ToAddress' /\ CancelInv' /\ MailInv'
  BY <1>0, <1>1, <1>7, FrMap, FrOwners, FrOneAtATime, FrDefaults, FrQueue, FrDone, FrAddr,
     FrKnownAddr, FrUrb, FrStat, FrToDefault, FrToAddress, FrCancel, FrMail
<1>9. Registering' /\ Results'
  BY <1>0, <1>1, <1>2, <1>3 DEF Registering, Results, Unowned, At
<1>10. Leaving'
  BY <1>0, <1>1, <1>2, <1>3 DEF Leaving, Leaves, Serves, At
<1>11. UrbWork'
  <2>1. \A i \in DOMAIN kwork : Urb(i) => kwork[i].h # h
    BY <1>6 DEF Waits
  <2> QED BY <1>0, <1>1, <2>1 DEF UrbWork, Urb
<1>12. Keyed'
  BY <1>0, <1>1, <1>7, SameWaits DEF Keyed, At
<1>13. \A g : (InHeld(g)' <=> InHeld(g)) /\ \A s \in Session : (Carries(s, g)' <=> Carries(s, g))
  BY <1>1, SameOut
<1>14. OutInv'
  <2>1. \A g : Out(g)' => Out(g) /\ g # h
    BY <1>1, <1>6, <1>13 DEF Out
  <2>2. \A g : g # h => (Back(g)' <=> Back(g))
    BY <1>2, <1>3 DEF Back
  <2> QED BY <1>0, <1>1, <1>7, <2>1, <2>2, SameWaits DEF OutInv, At, Cancels
<1>15. OnePlace'
  BY <1>0, <1>1, <1>13 DEF OnePlace
<1>16. BackInv'
  <2>1. \A i \in DOMAIN bq : bq[i].op = "giveback" => bq[i].h # h
    BY <1>6 DEF Back
  <2>2. \A j \in DOMAIN bq : bq[j].op = "disconnect" => bq[j].s # t
    BY <1>0, <1>1 DEF Leaving, Leaves
  <2>3. n \in DOMAIN bq' /\ \A j \in DOMAIN bq' : j < n => j \in DOMAIN bq
    BY <1>3
  <2>4. ASSUME NEW i \in DOMAIN bq, bq[i].op = "giveback"
        PROVE  /\ bq[i].h \in DOMAIN cur /\ ~Waits(bq[i].h)
               /\ bq[i].h \in lagging' \/ At("key3", bq[i].h) = None
               /\ \A j \in DOMAIN bq' : bq'[j].op = "giveback" /\ bq'[j].h = bq[i].h => j = i
               /\ \A j \in DOMAIN bq' : j < i /\ bq'[j].op = "disconnect" =>
                    bq'[j].s # cur[bq[i].h].s
    BY <1>0, <1>1, <1>2, <1>3, <2>1, <2>4 DEF BackInv
  <2>5. ASSUME NEW i \in DOMAIN bq', bq'[i].op = "giveback"
        PROVE  /\ bq'[i].h \in DOMAIN cur /\ ~Waits(bq'[i].h)
               /\ bq'[i].h \in lagging' \/ At("key3", bq'[i].h) = None
               /\ \A j \in DOMAIN bq' : bq'[j].op = "giveback" /\ bq'[j].h = bq'[i].h => j = i
               /\ \A j \in DOMAIN bq' : j < i /\ bq'[j].op = "disconnect" =>
                    bq'[j].s # cur[bq'[i].h].s
    <3>1. CASE i \in DOMAIN bq
      BY <1>3, <2>4, <2>5, <3>1
    <3>2. CASE i = n
      BY <1>1, <1>2, <1>3, <1>6, <1>a, <2>1, <2>2, <2>3, <3>2
    <3> QED BY <1>3, <3>1, <3>2
  <2> QED BY <1>1, <1>7, <2>5, SameWaits DEF BackInv, At
<1>17. GiveInv'
  <2>1. \A i \in DOMAIN gives : gives[i].s # 0 => gives[i].h # h
    BY <1>0, <1>6 DEF GiveInv
  <2> QED BY <1>0, <1>1, <1>4, <1>5, <1>6, <1>7, <2>1, SameWaits DEF GiveInv
<1>18. DemuxTypeOK' /\ AssertionsHold'
  BY <1>0, <1>1, <1>3, <1>5 DEF DemuxTypeOK, AssertionsHold, Closures
<1> QED BY <1>8, <1>9, <1>10, <1>11, <1>12, <1>14, <1>15, <1>16, <1>17, <1>18 DEF DemuxInv

LEMMA disconnectKeeps ==
  ASSUME DemuxInv, Overlap = {}, NEW s \in Session, disconnect(s)
  PROVE  DemuxInv'
<1> USE SessionFacts
<1>0. /\ DemuxTypeOK /\ AssertionsHold /\ MapInv
      /\ Owners /\ Registering /\ Results /\ Leaving
      /\ OneAtATime /\ Defaults /\ QueueInv /\ DoneInv /\ AddrInv /\ KnownAddr /\ UrbInv
      /\ StatInv /\ UrbWork /\ ToDefault /\ ToAddress /\ CancelInv
      /\ Keyed /\ OutInv /\ OnePlace /\ MailInv /\ BackInv /\ GiveInv
  BY DEF DemuxInv
<1>1. /\ UNCHANGED <<pstate, addr, owner, cur, unlinked, nUrbs, nResets, kwork, lagging,
                     nSession, got, regs, bq, ctrl, mailer, queue, held, demux>>
      /\ sess[s] = "open" /\ PortOf(s) \notin Enumerating
      /\ sess' = [sess EXCEPT ![s] = "closing"] /\ mail' = [mail EXCEPT ![s] = <<>>]
      /\ drops' = Append(drops, s)
  BY DEF disconnect, guestVars, taskVars
<1>2. /\ sess' \in [Session -> {"none", "registering", "open", "closing", "gone"}]
      /\ sess'[s] = "closing" /\ \A t \in Session : t # s => sess'[t] = sess[t]
  BY <1>0, <1>1, TypeFacts
<1>3. /\ mail' \in [Session -> Seq(Work)] /\ mail'[s] = <<>>
      /\ \A t \in Session : t # s => mail'[t] = mail[t]
  <2>1. mail \in [Session -> Seq(Work)]
    BY <1>0 DEF DemuxTypeOK
  <2>2. <<>> \in Seq(Work)
    OBVIOUS
  <2> QED BY <1>1, <2>1, <2>2
<1>4. /\ DOMAIN gives' = DOMAIN gives /\ gives' \in Seq([h : Handles, s : {0} \cup Session])
      /\ \A i \in DOMAIN gives : gives'[i].s # 0 => gives'[i] = gives[i]
  <2>1. gives \in Seq([h : Handles, s : {0} \cup Session])
    BY <1>0 DEF DemuxTypeOK
  <2>2. \/ gives' = gives
        \/ gives' = [i \in DOMAIN gives |-> IF gives[i].s = s THEN Lost(gives[i].h)
                                            ELSE gives[i]]
    BY DEF disconnect
  <2>3. \A i \in DOMAIN gives : gives[i] \in [h : Handles, s : {0} \cup Session]
    <3>1. PICK T : T = [h : Handles, s : {0} \cup Session]
      OBVIOUS
    <3>2. gives \in Seq(T)
      BY <2>1, <3>1
    <3>3. \A i \in DOMAIN gives : gives[i] \in T
      BY <3>2
    <3> QED BY <3>1, <3>3
  <2>4. \A g \in Handles : Lost(g) \in [h : Handles, s : {0} \cup Session] /\ Lost(g).s = 0
    BY DEF Lost
  <2>5. \A i \in DOMAIN gives : gives[i].h \in Handles
    BY <2>3
  <2>6. /\ DOMAIN gives' = DOMAIN gives
        /\ \A i \in DOMAIN gives : gives'[i] = gives[i] \/ gives'[i] = Lost(gives[i].h)
        /\ gives' = [i \in DOMAIN gives |-> gives'[i]]
    <3>1. gives = [i \in DOMAIN gives |-> gives[i]]
      BY <2>1
    <3>2. CASE gives' = gives
      BY <3>1, <3>2
    <3>3. CASE gives' = [i \in DOMAIN gives |-> IF gives[i].s = s THEN Lost(gives[i].h)
                                               ELSE gives[i]]
      <4>1. DOMAIN gives' = DOMAIN gives
        BY <3>3
      <4>2. \A i \in DOMAIN gives : gives'[i] = IF gives[i].s = s THEN Lost(gives[i].h)
                                                ELSE gives[i]
        BY <3>3
      <4>3. gives' = [i \in DOMAIN gives |-> gives'[i]]
        BY <3>3, <4>2, Zenon
      <4> QED BY <4>1, <4>2, <4>3
    <3> QED BY <2>2, <3>2, <3>3
  <2>7. \A i \in DOMAIN gives : gives'[i] \in [h : Handles, s : {0} \cup Session]
    BY <2>3, <2>4, <2>5, <2>6
  <2>8. DOMAIN gives = 1..Len(gives) /\ Len(gives) \in Nat
    BY <2>1
  <2>9. gives' \in [1..Len(gives) -> [h : Handles, s : {0} \cup Session]]
    BY <2>6, <2>7, <2>8, Zenon
  <2>10. gives' \in Seq([h : Handles, s : {0} \cup Session])
    BY <2>8, <2>9, SeqOf
  <2> QED BY <2>4, <2>5, <2>6, <2>10
<1>5. /\ drops' \in Seq(Session)
      /\ \A i \in DOMAIN drops' : drops'[i] = s \/ (i \in DOMAIN drops /\ drops'[i] = drops[i])
  <2>1. drops \in Seq(Session)
    BY <1>0 DEF DemuxTypeOK
  <2> QED BY <1>1, <2>1, AppendFacts
<1>6. Opened' = Opened
  BY <1>1, <1>2 DEF Opened
<1>7. \A p \in Enumerating : owner[p] # s
  BY <1>0, <1>1, PortFacts DEF Enumerating
<1>8. \A t \in Session : sess'[t] \in {"none", "registering"} \/ sess[t] \in {"none", "registering"}
                          => sess'[t] = sess[t]
  BY <1>1, <1>2
<1>9. \A p \in Ports : owner[p] # 0 => owner[p] \in Session
  BY <1>0, TypeFacts
<1>10. NoUrb /\ Quiet /\ StatOnly
  BY <1>0, <1>1, KworkSame, TypeFacts
<1>11. /\ OneAtATime' /\ AddrInv' /\ KnownAddr' /\ UrbInv' /\ StatInv' /\ UrbWork' /\ ToDefault'
       /\ ToAddress' /\ CancelInv' /\ Keyed' /\ BackInv'
  BY <1>0, <1>1, <1>10, FrOneAtATime, FrAddr, FrKnownAddr, FrUrb, FrStat, FrUrbWork,
     FrToDefault, FrToAddress, FrCancel, FrKeyed, FrBack
<1>12. MapInv'
  BY <1>0, <1>1, <1>6 DEF MapInv
<1>13. Owners'
  BY <1>0, <1>1, <1>2, <1>8, <1>9 DEF Owners, At, Serves
<1>14. Registering'
  <2>1. \A i \in DOMAIN regs : regs[i].s \in Session
    BY <1>0, StreamFacts
  <2>2. \A i \in DOMAIN bq : bq[i].op = "connect" => bq[i].s \in Session
    BY <1>0, StreamFacts
  <2> QED BY <1>0, <1>1, <1>2, <1>8, <2>1, <2>2 DEF Registering, Unowned
<1>15. Results'
  <2>1. \A i \in DOMAIN ctrl : ctrl[i].s \in Session
    BY <1>0, StreamFacts
  <2> QED BY <1>0, <1>1, <1>2, <2>1 DEF Results, Unowned, At
<1>16. Leaving'
  <2>1. Leaves(s)'
    BY <1>0, <1>1, <1>2 DEF Owners, Leaves, Serves, At
  <2>2. \A t \in Session : Leaves(t) => Leaves(t)'
    BY <1>1, <1>2 DEF Leaves, Serves, At
  <2>3. \A i \in DOMAIN drops : drops[i] \in Session /\ Leaves(drops[i])
    BY <1>0, StreamFacts DEF Leaving
  <2>4. \A i \in DOMAIN bq : bq[i].op = "disconnect" => bq[i].s \in Session /\ Leaves(bq[i].s)
    BY <1>0, StreamFacts DEF Leaving
  <2> QED BY <1>1, <1>5, <2>1, <2>2, <2>3, <2>4 DEF Leaving
<1>17. Defaults'
  BY <1>0, <1>1, <1>2, <1>7, <1>9, <1>10, MoreReady DEF Defaults, Owners, Enumerating, Queued
<1>18. QueueInv'
  <2>1. \A i \in DOMAIN queue : /\ queue[i] \in Enumerating /\ owner[queue[i]] # s
                                /\ sess'[owner[queue[i]]] = "open"
    <3>1. \A p \in Enumerating : p \in Ports /\ owner[p] # 0
      BY <1>0 DEF Owners, Enumerating
    <3>2. \A i \in DOMAIN queue : queue[i] \in Enumerating /\ sess[owner[queue[i]]] = "open"
      BY <1>0 DEF QueueInv
    <3>3. \A i \in DOMAIN queue : owner[queue[i]] # s /\ owner[queue[i]] \in Session
      BY <1>7, <1>9, <3>1, <3>2
    <3> QED BY <1>2, <3>2, <3>3
  <2> QED BY <1>0, <1>1, <1>10, <2>1, SameWaits DEF QueueInv, Enumerating, At
<1>19. DoneInv'
  <2>1. \A i \in DOMAIN kwork : kwork[i].to \in Session
    BY <1>0, TypeFacts, WorkFields
  <2>2. \A i \in DOMAIN kwork : Done(i) => kwork[i].to # s
    BY <1>0, <1>7 DEF DoneInv, StatInv, Done
  <2> QED BY <1>0, <1>1, <1>2, <2>1, <2>2 DEF DoneInv, Done, Urb, Enumerating
<1>20. \A g : (InHeld(g)' => InHeld(g)) /\ \A t \in Session : (Carries(t, g)' => Carries(t, g))
  <2>1. \A i \in DOMAIN held : held[i].s \in Session
    BY <1>0, StreamFacts
  <2> QED BY <1>1, <1>2, <1>3, <2>1 DEF InHeld, Carries
<1>21. OutInv'
  <2>1. \A g : Out(g)' => Out(g)
    BY <1>1, <1>20 DEF Out
  <2> QED BY <1>0, <1>1, <1>10, <2>1, SameWaits DEF OutInv, Back, At, Cancels
<1>22. OnePlace'
  BY <1>0, <1>1, <1>20 DEF OnePlace
<1>23. MailInv'
  BY <1>0, <1>1, <1>2, <1>3, <1>6 DEF MailInv
<1>24. GiveInv'
  BY <1>0, <1>1, <1>4, <1>10, SameWaits DEF GiveInv
<1>25. DemuxTypeOK' /\ AssertionsHold'
  <2>1. \A t \in Session : Len(mail'[t]) <= 1
    BY <1>0, <1>3, StreamFacts
  <2> QED BY <1>0, <1>1, <1>2, <1>3, <1>4, <1>5, <2>1 DEF DemuxTypeOK, AssertionsHold
<1> QED BY <1>11, <1>12, <1>13, <1>14, <1>15, <1>16, <1>17, <1>18, <1>19, <1>21, <1>22, <1>23,
           <1>24, <1>25 DEF DemuxInv

LEMMA BqTail ==
  ASSUME DemuxTypeOK, bq # <<>>, bq' = Tail(bq)
  PROVE  /\ bq' \in Seq(Closures) /\ 1 \in DOMAIN bq /\ Head(bq) = bq[1]
         /\ DOMAIN bq' \subseteq Nat \ {0}
         /\ \A i \in DOMAIN bq' : i + 1 \in DOMAIN bq /\ bq'[i] = bq[i + 1]
         /\ \A i, j \in DOMAIN bq' : (i + 1 = j + 1 => i = j) /\ (j < i => j + 1 < i + 1)
         /\ \A i \in DOMAIN bq' : i + 1 # 1 /\ 1 < i + 1
<1>1. bq \in Seq(Closures)
  BY DEF DemuxTypeOK, Closures
<1>2. /\ bq' \in Seq(Closures) /\ 1 \in DOMAIN bq /\ Head(bq) = bq[1]
      /\ DOMAIN bq' \subseteq Nat \ {0}
      /\ \A i \in DOMAIN bq' : i + 1 \in DOMAIN bq /\ bq'[i] = bq[i + 1]
  BY <1>1, TailFacts
<1> QED BY <1>2

Outcomes == [op : {"register"}, s : Session, port : Ports]
            \cup [op : {"registerErr", "disconnect"}, s : Session]

LEMMA CtrlAppend ==
  ASSUME DemuxTypeOK, NEW e \in Outcomes, ctrl' = Append(ctrl, e), NEW n, n = Len(ctrl) + 1
  PROVE  /\ DOMAIN ctrl' = DOMAIN ctrl \cup {n} /\ n \notin DOMAIN ctrl /\ ctrl'[n] = e
         /\ \A i \in DOMAIN ctrl : ctrl'[i] = ctrl[i]
         /\ ctrl' \in Seq(Outcomes)
<1>1. ctrl \in Seq(Outcomes)
  BY DEF DemuxTypeOK, Outcomes
<1> QED BY <1>1, AppendFacts

LEMMA RunConnectKeeps ==
  ASSUME DemuxInv, Overlap = {}, RunConnect
  PROVE  DemuxInv'
<1> USE SessionFacts
<1>0. /\ DemuxTypeOK /\ AssertionsHold /\ MapInv
      /\ Owners /\ Registering /\ Results /\ Leaving
      /\ OneAtATime /\ Defaults /\ QueueInv /\ DoneInv /\ AddrInv /\ KnownAddr /\ UrbInv
      /\ StatInv /\ UrbWork /\ ToDefault /\ ToAddress /\ CancelInv
      /\ Keyed /\ OutInv /\ OnePlace /\ MailInv /\ BackInv /\ GiveInv
  BY DEF DemuxInv
<1>1. /\ UNCHANGED <<addr, cur, unlinked, nUrbs, nResets, lagging, nSession, sess, mail, got,
                     regs, gives, drops, mailer, queue, held, demux>>
      /\ bq # <<>> /\ bq' = Tail(bq) /\ Head(bq).op = "connect"
  BY DEF RunConnect, Closure, sessionVars, taskVars
<1>2. /\ bq' \in Seq(Closures) /\ 1 \in DOMAIN bq /\ Head(bq) = bq[1]
      /\ DOMAIN bq' \subseteq Nat \ {0}
      /\ \A i \in DOMAIN bq' : i + 1 \in DOMAIN bq /\ bq'[i] = bq[i + 1]
      /\ \A i, j \in DOMAIN bq' : (i + 1 = j + 1 => i = j) /\ (j < i => j + 1 < i + 1)
      /\ \A i \in DOMAIN bq' : i + 1 # 1 /\ 1 < i + 1
  BY <1>0, <1>1, BqTail
<1>3. PICK s \in Session : s = bq[1].s
  BY <1>0, <1>1, <1>2, StreamFacts
<1>4. /\ sess[s] = "registering" /\ Unowned(s)
      /\ \A j \in DOMAIN bq : bq[j].op = "connect" /\ bq[j].s = s => j = 1
      /\ \A j \in DOMAIN regs : regs[j].s # s
      /\ \A j \in DOMAIN bq' : bq'[j].op = "connect" => bq'[j].s # s
  BY <1>0, <1>1, <1>2, <1>3 DEF Registering
<1>5. \A i \in DOMAIN ctrl : ctrl[i].op # "disconnect" => ctrl[i].s # s
  <2>1. \A i \in DOMAIN ctrl : ctrl[i].op = "register" => ctrl[i].s # s
    BY <1>0, <1>4, StreamFacts DEF Results, Unowned
  <2>2. \A i \in DOMAIN ctrl : ctrl[i].op = "registerErr" => ctrl[i].s # s
    BY <1>0, <1>1, <1>2, <1>3 DEF Results
  <2> QED BY <1>0, <2>1, <2>2, StreamFacts
<1> PICK n : n = Len(ctrl) + 1
  OBVIOUS
<1>6. CASE \E p \in Ports : /\ pstate[p] = "free" /\ pstate' = [pstate EXCEPT ![p] = "connected"]
                            /\ owner' = [owner EXCEPT ![p] = s]
                            /\ kwork' = Append(kwork, PortStat(p, s, "connected"))
                            /\ ctrl' = Append(ctrl, [op |-> "register", s |-> s, port |-> p])
  <2>1. PICK p \in Ports : /\ pstate[p] = "free" /\ pstate' = [pstate EXCEPT ![p] = "connected"]
                           /\ owner' = [owner EXCEPT ![p] = s]
                           /\ kwork' = Append(kwork, PortStat(p, s, "connected"))
                           /\ ctrl' = Append(ctrl, [op |-> "register", s |-> s, port |-> p])
    BY <1>6
  <2>2. /\ pstate' \in [Ports -> {"free", "connected", "resetting", "default", "addressed",
                                  "retired"}]
        /\ pstate'[p] = "connected" /\ \A q \in Ports : q # p => pstate'[q] = pstate[q]
        /\ owner' \in [Ports -> {0} \cup Session]
        /\ owner'[p] = s /\ \A q \in Ports : q # p => owner'[q] = owner[q]
    BY <1>0, <2>1, TypeFacts
  <2>3. owner[p] = 0 /\ At("key1", p) = None
    BY <1>0, <2>1 DEF Owners
  <2>4. PICK w : w = PortStat(p, s, "connected")
    OBVIOUS
  <2>5. w \in Work /\ w.op = "PortStat" /\ w.p = p /\ w.to = s /\ w.stat # "resetDone"
    BY <2>4, WorkMade
  <2>6. NoUrb /\ Quiet /\ StatOnly
    BY <1>0, <2>1, <2>4, <2>5, KworkStat, TypeFacts
  <2>7. PICK e : e = [op |-> "register", s |-> s, port |-> p]
    OBVIOUS
  <2>8. e \in Outcomes /\ e.op = "register" /\ e.s = s /\ e.port = p
    BY <2>7 DEF Outcomes
  <2>9. /\ DOMAIN ctrl' = DOMAIN ctrl \cup {n} /\ n \notin DOMAIN ctrl /\ ctrl'[n] = e
        /\ \A i \in DOMAIN ctrl : ctrl'[i] = ctrl[i]
        /\ ctrl' \in Seq(Outcomes)
    BY <1>0, <2>1, <2>7, <2>8, CtrlAppend
  <2>10. Enumerating' = Enumerating
    BY <2>1, <2>2 DEF Enumerating
  <2>11. MapInv' /\ UrbWork' /\ CancelInv' /\ Keyed' /\ OnePlace' /\ GiveInv'
    BY <1>0, <1>1, <2>6, FrMap, FrUrbWork, FrCancel, FrKeyed, FrOnePlace, FrGive
  <2>12. Owners'
    BY <1>0, <1>1, <1>4, <2>1, <2>2, <2>3 DEF Owners, At, Serves, Unowned
  <2>13. Registering'
    BY <1>0, <1>1, <1>2, <1>4, <2>2 DEF Registering, Unowned
  <2>14. Results'
    <3>1. \A i \in DOMAIN ctrl : ctrl[i].op = "register" =>
            /\ ctrl[i].port # p /\ owner'[ctrl[i].port] = ctrl[i].s
            /\ At("key1", ctrl[i].port) = None
      BY <1>0, <2>2, <2>3, StreamFacts DEF Results
    <3>2. \A i \in DOMAIN ctrl : ctrl[i].op = "registerErr" =>
            /\ Unowned(ctrl[i].s) /\ ctrl[i].s # s
            /\ \A j \in DOMAIN regs : ctrl[i].s # regs[j].s
            /\ \A j \in DOMAIN bq' : bq'[j].op = "connect" => ctrl[i].s # bq'[j].s
      BY <1>0, <1>2, <1>5 DEF Results
    <3>3. \A i \in DOMAIN ctrl' :
            /\ ctrl'[i].op = "register" =>
                 owner'[ctrl'[i].port] = ctrl'[i].s /\ At("key1", ctrl'[i].port) = None
            /\ ctrl'[i].op = "registerErr" =>
                 /\ \A q \in Ports : owner'[q] # ctrl'[i].s
                 /\ \A j \in DOMAIN regs : ctrl'[i].s # regs[j].s
                 /\ \A j \in DOMAIN bq' : bq'[j].op = "connect" => ctrl'[i].s # bq'[j].s
      BY <2>2, <2>3, <2>8, <2>9, <3>1, <3>2 DEF Unowned
    <3>4. \A i \in DOMAIN ctrl' :
            /\ ctrl'[i].op # "disconnect" =>
                 /\ sess[ctrl'[i].s] = "registering"
                 /\ \A j \in DOMAIN ctrl' :
                      ctrl'[j].op # "disconnect" /\ ctrl'[i].s = ctrl'[j].s => i = j
            /\ ctrl'[i].op = "disconnect" => sess[ctrl'[i].s] \in {"closing", "gone"}
      BY <1>0, <1>4, <1>5, <2>8, <2>9 DEF Results
    <3> QED BY <1>1, <3>3, <3>4 DEF Results, Unowned, At
  <2>15. Leaving'
    <3>1. \A t \in Session : Leaves(t) => Leaves(t)'
      BY <1>1, <2>2, <2>3 DEF Leaves, Serves, At
    <3>2. \A i \in DOMAIN drops : drops[i] \in Session /\ Leaves(drops[i])
      BY <1>0, StreamFacts DEF Leaving
    <3>3. \A i \in DOMAIN bq' :
            bq'[i].op = "disconnect" => bq'[i].s \in Session /\ Leaves(bq'[i].s)
      BY <1>0, <1>2, StreamFacts DEF Leaving
    <3> QED BY <1>1, <3>1, <3>2, <3>3 DEF Leaving
  <2>16. OneAtATime'
    BY <1>0, <1>1, <2>2, <2>10 DEF OneAtATime
  <2>17. Defaults'
    BY <1>0, <1>1, <2>2, <2>6, MoreReady DEF Defaults, Queued
  <2>18. QueueInv'
    <3>1. \A i \in DOMAIN queue : queue[i] \in Ports /\ queue[i] # p
      BY <1>0, <2>1 DEF QueueInv, Enumerating
    <3> QED BY <1>0, <1>1, <2>2, <2>6, <2>10, <3>1, SameWaits DEF QueueInv, At
  <2>19. DoneInv'
    <3>1. \A i \in DOMAIN kwork' : Done(i)' =>
            i \in DOMAIN kwork /\ Done(i) /\ kwork'[i] = kwork[i]
      BY <2>6 DEF Quiet, NoUrb, Longer, Done
    <3>2. \A j \in DOMAIN kwork : Urb(j) => j \in DOMAIN kwork' /\ Urb(j)' /\ kwork'[j] = kwork[j]
      BY <2>6 DEF NoUrb, Longer, Urb
    <3> QED BY <1>0, <1>1, <2>10, <3>1, <3>2 DEF DoneInv
  <2>20. AddrInv'
    BY <1>0, <1>1, <2>2 DEF AddrInv, At
  <2>21. KnownAddr'
    BY <1>0, <1>1, <2>2, <2>3, <2>6, SameWaits, MoreReady DEF KnownAddr, At
  <2>22. UrbInv'
    <3>1. \A h \in DOMAIN cur : cur[h].s # 0
      BY <1>0, TypeFacts
    <3>2. \A q \in Ports : owner[q] # 0 => owner'[q] = owner[q] /\ pstate'[q] = pstate[q]
      BY <2>2, <2>3
    <3>3. \A h : (Waits(h)' <=> Waits(h)) /\ At("key2", cur[h].set)' = At("key2", cur[h].set)
      BY <1>1, <2>6, SameWaits DEF At
    <3> QED BY <1>0, <1>1, <3>1, <3>2, <3>3 DEF UrbInv
  <2>23. \A i \in DOMAIN kwork : kwork[i].to \in Session
    BY <1>0, TypeFacts, WorkFields
  <2>24. StatInv'
    <3>1. \A i \in DOMAIN kwork : kwork[i].op = "PortStat" => kwork[i].p \in Ports /\ kwork[i].p # p
      BY <1>0, <2>3, <2>23, TypeFacts, WorkFields DEF StatInv
    <3>2. /\ \A i \in DOMAIN kwork : kwork'[i] = kwork[i]
          /\ \A i \in DOMAIN kwork' : i \in DOMAIN kwork \/ kwork'[i] = w
      BY <1>0, <2>1, <2>4, <2>5, AppendFacts, TypeFacts
    <3> QED BY <1>0, <2>2, <2>5, <3>1, <3>2 DEF StatInv
  <2>25. ToDefault'
    <3>1. \A q \in Ports : pstate[q] = "default" => owner'[q] = owner[q] /\ pstate'[q] = "default"
      BY <2>1, <2>2
    <3> QED BY <1>0, <1>1, <2>6, <3>1 DEF ToDefault, Urb, Done, Queued, NoUrb, Longer
  <2>26. ToAddress'
    <3>1. \A q \in Ports : pstate[q] # "free" => owner'[q] = owner[q] /\ pstate'[q] = pstate[q]
      BY <2>1, <2>2
    <3> QED BY <1>0, <1>1, <2>6, <3>1 DEF ToAddress, Urb, At, NoUrb, Longer
  <2>27. MailInv'
    <3>1. \A v \in Work, t \in Session : v.op = "PortStat" /\ owner[v.p] = t => owner'[v.p] = t
      BY <2>2, <2>3, WorkFields
    <3>2. \A t \in Session : \A i \in DOMAIN mail[t] : mail[t][i] \in Work
      BY <1>0, StreamFacts, ElementFacts
    <3>3. \A t \in Session : \A i \in DOMAIN mail[t] :
            /\ mail[t][i].to = t
            /\ mail[t][i].op = "PortStat" => owner'[mail[t][i].p] = t
      BY <1>0, <3>1, <3>2 DEF MailInv
    <3>4. \A i \in DOMAIN held :
            /\ held[i].w.to = held[i].s /\ held[i].s \in Opened
            /\ held[i].w.op = "PortStat" => owner'[held[i].w.p] = held[i].s
      BY <1>0, <3>1, StreamFacts DEF MailInv
    <3>5. Opened' = Opened
      BY <1>1 DEF Opened
    <3> QED BY <1>0, <1>1, <3>3, <3>4, <3>5 DEF MailInv
  <2>28. BackInv'
    BY <1>0, <1>1, <1>2, <2>6, SameWaits DEF BackInv, At
  <2>29. OutInv'
    <3>1. \A g : Back(g)' => Back(g)
      BY <1>2 DEF Back
    <3>2. \A g : Out(g)' => Out(g)
      BY <1>1, SameOut DEF Out
    <3>3. \A i \in DOMAIN kwork' : Cancels(i)' => i \in DOMAIN kwork /\ kwork'[i] = kwork[i]
      BY <2>6 DEF StatOnly, NoUrb, Longer, Cancels
    <3> QED BY <1>0, <1>1, <2>6, <3>1, <3>2, <3>3, SameWaits DEF OutInv, At, Cancels
  <2>30. DemuxTypeOK' /\ AssertionsHold'
    <3>1. kwork' \in Seq(Work)
      BY <1>0, <2>1, <2>4, <2>5, AppendFacts, TypeFacts
    <3> QED BY <1>0, <1>1, <1>2, <2>2, <2>9, <3>1 DEF DemuxTypeOK, AssertionsHold, Closures, Outcomes
  <2> QED BY <2>11, <2>12, <2>13, <2>14, <2>15, <2>16, <2>17, <2>18, <2>19, <2>20, <2>21, <2>22,
             <2>24, <2>25, <2>26, <2>27, <2>28, <2>29, <2>30 DEF DemuxInv
<1>7. CASE /\ ctrl' = Append(ctrl, [op |-> "registerErr", s |-> s])
           /\ UNCHANGED <<pstate, owner, kwork>>
  <2>1. PICK e : e = [op |-> "registerErr", s |-> s]
    OBVIOUS
  <2>2. e \in Outcomes /\ e.op = "registerErr" /\ e.s = s
    BY <2>1 DEF Outcomes
  <2>3. /\ DOMAIN ctrl' = DOMAIN ctrl \cup {n} /\ n \notin DOMAIN ctrl /\ ctrl'[n] = e
        /\ \A i \in DOMAIN ctrl : ctrl'[i] = ctrl[i]
        /\ ctrl' \in Seq(Outcomes)
    BY <1>0, <1>7, <2>1, <2>2, CtrlAppend
  <2>4. NoUrb /\ Quiet /\ StatOnly
    BY <1>0, <1>7, KworkSame, TypeFacts
  <2>5. /\ MapInv' /\ Owners' /\ OneAtATime' /\ Defaults' /\ QueueInv' /\ DoneInv' /\ AddrInv'
        /\ KnownAddr' /\ UrbInv' /\ StatInv' /\ UrbWork' /\ ToDefault' /\ ToAddress' /\ CancelInv'
        /\ Keyed' /\ OnePlace' /\ MailInv' /\ GiveInv'
    BY <1>0, <1>1, <1>7, <2>4, FrMap, FrOwners, FrOneAtATime, FrDefaults, FrQueue, FrDone, FrAddr,
       FrKnownAddr, FrUrb, FrStat, FrUrbWork, FrToDefault, FrToAddress, FrCancel, FrKeyed,
       FrOnePlace, FrMail, FrGive
  <2>6. Registering'
    BY <1>0, <1>1, <1>2, <1>4, <1>7 DEF Registering, Unowned
  <2>7. Results'
    <3>1. \A i \in DOMAIN ctrl' : ctrl'[i].op = "register" =>
            owner[ctrl'[i].port] = ctrl'[i].s /\ At("key1", ctrl'[i].port) = None
      BY <1>0, <2>2, <2>3 DEF Results
    <3>2. \A i \in DOMAIN ctrl' : ctrl'[i].op = "registerErr" =>
            /\ Unowned(ctrl'[i].s)
            /\ \A j \in DOMAIN regs : ctrl'[i].s # regs[j].s
            /\ \A j \in DOMAIN bq' : bq'[j].op = "connect" => ctrl'[i].s # bq'[j].s
      BY <1>0, <1>2, <1>4, <2>2, <2>3 DEF Results
    <3>3. \A i \in DOMAIN ctrl' :
            /\ ctrl'[i].op # "disconnect" =>
                 /\ sess[ctrl'[i].s] = "registering"
                 /\ \A j \in DOMAIN ctrl' :
                      ctrl'[j].op # "disconnect" /\ ctrl'[i].s = ctrl'[j].s => i = j
            /\ ctrl'[i].op = "disconnect" => sess[ctrl'[i].s] \in {"closing", "gone"}
      BY <1>0, <1>4, <1>5, <2>2, <2>3 DEF Results
    <3> QED BY <1>1, <1>7, <3>1, <3>2, <3>3 DEF Results, Unowned, At
  <2>8. Leaving'
    BY <1>0, <1>1, <1>2, <1>7 DEF Leaving, Leaves, Serves, At
  <2>9. BackInv'
    BY <1>0, <1>1, <1>2, <2>4, SameWaits DEF BackInv, At
  <2>10. OutInv'
    <3>1. \A g : Back(g)' => Back(g)
      BY <1>2 DEF Back
    <3>2. \A g : Out(g)' => Out(g)
      BY <1>1, SameOut DEF Out
    <3> QED BY <1>0, <1>1, <1>7, <2>4, <3>1, <3>2, SameWaits DEF OutInv, At, Cancels
  <2>11. DemuxTypeOK' /\ AssertionsHold'
    BY <1>0, <1>1, <1>2, <1>7, <2>3 DEF DemuxTypeOK, AssertionsHold, Closures, Outcomes
  <2> QED BY <2>5, <2>6, <2>7, <2>8, <2>9, <2>10, <2>11 DEF DemuxInv
<1>8. \/ \E p \in Ports : /\ pstate[p] = "free" /\ pstate' = [pstate EXCEPT ![p] = "connected"]
                          /\ owner' = [owner EXCEPT ![p] = s]
                          /\ kwork' = Append(kwork, PortStat(p, s, "connected"))
                          /\ ctrl' = Append(ctrl, [op |-> "register", s |-> s, port |-> p])
      \/ /\ ctrl' = Append(ctrl, [op |-> "registerErr", s |-> s])
         /\ UNCHANGED <<pstate, owner, kwork>>
  BY <1>2, <1>3 DEF RunConnect
<1> QED BY <1>6, <1>7, <1>8

LEMMA RunGivebackKeeps ==
  ASSUME DemuxInv, Overlap = {}, RunGiveback
  PROVE  DemuxInv'
<1> USE SessionFacts
<1>0. /\ DemuxTypeOK /\ AssertionsHold /\ MapInv
      /\ Owners /\ Registering /\ Results /\ Leaving
      /\ OneAtATime /\ Defaults /\ QueueInv /\ DoneInv /\ AddrInv /\ KnownAddr /\ UrbInv
      /\ StatInv /\ UrbWork /\ ToDefault /\ ToAddress /\ CancelInv
      /\ Keyed /\ OutInv /\ OnePlace /\ MailInv /\ BackInv /\ GiveInv
  BY DEF DemuxInv
<1>1. /\ UNCHANGED <<owner, nUrbs, nResets, kwork, lagging, nSession, sess, mail, got,
                     regs, gives, drops, ctrl, mailer, queue, held, demux>>
      /\ bq # <<>> /\ bq' = Tail(bq) /\ Head(bq).op = "giveback"
  BY DEF RunGiveback, Closure, sessionVars, taskVars
<1>2. /\ bq' \in Seq(Closures) /\ 1 \in DOMAIN bq /\ Head(bq) = bq[1]
      /\ DOMAIN bq' \subseteq Nat \ {0}
      /\ \A i \in DOMAIN bq' : i + 1 \in DOMAIN bq /\ bq'[i] = bq[i + 1]
      /\ \A i, j \in DOMAIN bq' : (i + 1 = j + 1 => i = j) /\ (j < i => j + 1 < i + 1)
      /\ \A i \in DOMAIN bq' : i + 1 # 1 /\ 1 < i + 1
  BY <1>0, <1>1, BqTail
<1>3. PICK h \in Handles : h = bq[1].h
  BY <1>0, <1>1, <1>2, StreamFacts
<1>4. /\ h \in DOMAIN cur /\ ~Waits(h) /\ (h \in lagging \/ At("key3", h) = None)
      /\ \A i \in DOMAIN bq' : bq'[i].op = "giveback" => bq'[i].h # h
      /\ Back(h)
  BY <1>0, <1>1, <1>2, <1>3 DEF BackInv, Back
<1>5. PICK p \in Ports :
        /\ owner[p] = cur[h].s /\ pstate[p] \in {"default", "addressed"}
        /\ cur[h].set # 0 => /\ pstate[p] = "default"
                             /\ \A q \in Ports : addr[q] # cur[h].set
                             /\ At("key2", cur[h].set) = owner[p]
  BY <1>0, <1>4 DEF UrbInv
<1>6. /\ owner[p] \in Session /\ PortOf(cur[h].s) = p
      /\ \A q \in Ports : owner[q] = owner[p] => q = p
  BY <1>0, <1>4, <1>5, TypeFacts, PortFacts
<1>7. /\ cur' = Remove(cur, h) /\ unlinked' = unlinked \ {h}
      /\ IF cur[h].set # 0
         THEN /\ pstate' = [pstate EXCEPT ![p] = "addressed"]
              /\ addr' = [addr EXCEPT ![p] = cur[h].set]
         ELSE pstate' = pstate /\ addr' = addr
  BY <1>2, <1>3, <1>4, <1>5, <1>6 DEF RunGiveback
<1>8. /\ DOMAIN cur' = DOMAIN cur \ {h} /\ \A g \in DOMAIN cur' : cur'[g] = cur[g]
      /\ IsMap(cur', Handles, [s : Session, set : {0} \cup Addresses])
  <2>1. /\ DOMAIN cur' = DOMAIN cur \ {h} /\ \A g \in DOMAIN cur' : cur'[g] = cur[g]
        /\ cur' = [g \in DOMAIN cur' |-> cur'[g]]
    BY <1>7 DEF Remove
  <2> QED BY <1>0, <2>1 DEF DemuxTypeOK, IsMap
<1>9. \A g : Out(g) /\ g \in Handles => g # h
  BY <1>0, <1>4 DEF OutInv
<1>10. NoUrb /\ Quiet /\ StatOnly
  BY <1>0, <1>1, KworkSame, TypeFacts
<1>11. MapInv' /\ StatInv' /\ MailInv' /\ GiveInv'
  BY <1>0, <1>1, <1>10, FrMap, FrStat, FrMail, FrGive
<1>12. \A i \in DOMAIN kwork : Urb(i) => kwork[i].h # h
  BY <1>4 DEF Waits
<1>13. Registering' /\ Results' /\ Leaving'
  <2>1. Registering'
    BY <1>0, <1>1, <1>2 DEF Registering, Unowned
  <2>2. Results'
    BY <1>0, <1>1, <1>2 DEF Results, Unowned, At
  <2>3. Leaving'
    BY <1>0, <1>1, <1>2 DEF Leaving, Leaves, Serves, At
  <2> QED BY <2>1, <2>2, <2>3
<1>14. UrbWork'
  BY <1>0, <1>1, <1>8, <1>12 DEF UrbWork, Urb
<1>15. CancelInv'
  BY <1>0, <1>1, <1>7, <1>8 DEF CancelInv, Cancels, Urb, At
<1>16. Keyed'
  BY <1>0, <1>1, <1>4, <1>8, <1>10, SameWaits DEF Keyed, At
<1>17. OutInv'
  <2>1. \A g : Back(g)' => Back(g)
    BY <1>2 DEF Back
  <2>2. \A g : Out(g)' => Out(g)
    BY <1>1, SameOut DEF Out
  <2> QED BY <1>0, <1>1, <1>7, <1>8, <1>9, <1>10, <2>1, <2>2, SameWaits DEF OutInv, At, Cancels
<1>18. OnePlace'
  <2>1. \A g \in Handles : Out(g) => cur'[g] = cur[g]
    BY <1>0, <1>8, <1>9 DEF OutInv
  <2> QED BY <1>0, <1>1, <2>1, SameOut DEF OnePlace, Out
<1>19. BackInv'
  BY <1>0, <1>1, <1>2, <1>4, <1>8, <1>10, SameWaits DEF BackInv, At
<1>20. h \notin got
  BY <1>0, <1>9, TypeFacts DEF Out
<1>21. CASE cur[h].set = 0
  <2>1. UNCHANGED <<pstate, addr>>
    BY <1>7, <1>21
  <2>2. Owners' /\ AddrInv'
    BY <1>0, <1>1, <2>1, FrOwners, FrAddr
  <2>3. OneAtATime'
    BY <1>0, <1>1, <1>8, <2>1 DEF OneAtATime, Enumerating
  <2>4. Defaults'
    BY <1>0, <1>1, <1>8, <1>10, <1>21, <2>1, MoreReady DEF Defaults, Queued
  <2>5. QueueInv'
    BY <1>0, <1>1, <1>8, <1>10, <2>1, SameWaits DEF QueueInv, Enumerating, At
  <2>6. DoneInv'
    BY <1>0, <1>1, <1>8, <2>1 DEF DoneInv, Done, Urb, Enumerating
  <2>7. KnownAddr'
    BY <1>0, <1>1, <1>8, <1>10, <1>21, <2>1, SameWaits, MoreReady, DemuxAssumption DEF KnownAddr, At
  <2>8. UrbInv'
    BY <1>0, <1>1, <1>8, <1>10, <2>1, SameWaits DEF UrbInv, At
  <2>9. ToDefault'
    BY <1>0, <1>1, <1>8, <1>12, <2>1 DEF ToDefault, Urb, Done, Queued
  <2>10. ToAddress'
    BY <1>0, <1>1, <1>8, <1>12, <2>1 DEF ToAddress, Urb, At
  <2>11. DemuxTypeOK' /\ AssertionsHold'
    BY <1>0, <1>1, <1>2, <1>7, <1>8, <1>20, <2>1 DEF DemuxTypeOK, AssertionsHold, Closures
  <2> QED BY <1>11, <1>13, <1>14, <1>15, <1>16, <1>17, <1>18, <1>19, <2>2, <2>3, <2>4, <2>5,
             <2>6, <2>7, <2>8, <2>9, <2>10, <2>11 DEF DemuxInv
<1>22. CASE cur[h].set # 0
  <2>1. PICK a \in Addresses : a = cur[h].set
    BY <1>0, <1>4, <1>22, TypeFacts
  <2>2. /\ pstate' \in [Ports -> {"free", "connected", "resetting", "default", "addressed",
                                  "retired"}]
        /\ pstate'[p] = "addressed" /\ \A q \in Ports : q # p => pstate'[q] = pstate[q]
        /\ addr' \in [Ports -> {0} \cup Addresses]
        /\ addr'[p] = a /\ \A q \in Ports : q # p => addr'[q] = addr[q]
    BY <1>0, <1>7, <1>22, <2>1, TypeFacts
  <2>3. /\ pstate[p] = "default" /\ a # 0 /\ At("key2", a) = owner[p] /\ owner[p] # 0
        /\ \A q \in Ports : addr[q] # a
    BY <1>5, <1>6, <1>22, <2>1
  <2>4. /\ Enumerating = {p} /\ addr[p] = 0
        /\ \A g \in DOMAIN cur : cur[g].s = owner[p] => g = h
    BY <1>0, <1>4, <1>5, <2>3 DEF OneAtATime, Defaults, Enumerating
  <2>5. \A q \in Ports : pstate'[q] \notin {"resetting", "default"}
    BY <2>2, <2>4 DEF Enumerating
  <2>6. \A i \in DOMAIN kwork : ~Done(i)
    BY <1>0, <1>4, <1>5, <1>12, <2>4 DEF DoneInv, StatInv, Done
  <2>7. DOMAIN queue = {}
    BY <1>0, <1>4, <1>5, <1>22, <2>4 DEF QueueInv
  <2>8. \A i \in DOMAIN kwork : ~(Urb(i) /\ kwork[i].addr = 0)
    <3>1. \A i \in DOMAIN kwork : Urb(i) /\ kwork[i].addr = 0 =>
            kwork[i].h \in DOMAIN cur /\ kwork[i].to = owner[p]
      BY <1>0, <2>4 DEF ToDefault, Enumerating
    <3> QED BY <1>0, <1>12, <2>4, <3>1 DEF UrbWork
  <2>9. Owners'
    BY <1>0, <1>1, <2>2, <2>3 DEF Owners, At, Serves
  <2>10. OneAtATime' /\ Defaults' /\ QueueInv' /\ DoneInv' /\ ToDefault'
    <3>1. OneAtATime' /\ Defaults'
      BY <2>5 DEF OneAtATime, Defaults, Enumerating
    <3>2. QueueInv'
      BY <1>0, <1>1, <2>7 DEF QueueInv
    <3>3. DoneInv' /\ ToDefault'
      BY <1>1, <2>6, <2>8 DEF DoneInv, ToDefault, Done, Urb
    <3> QED BY <3>1, <3>2, <3>3
  <2>11. AddrInv'
    BY <1>0, <1>1, <2>2, <2>3 DEF AddrInv, At
  <2>12. KnownAddr'
    <3> SUFFICES ASSUME NEW b \in Addresses, At("key2", b) # None
                 PROVE  \E q \in Ports :
                          /\ owner[q] = At("key2", b) /\ At("key1", q) = At("key2", b)
                          /\ \/ addr'[q] = b
                             \/ \E g \in DOMAIN cur' : cur'[g].s = owner[q] /\ cur'[g].set = b
                                                       /\ ~Waits(g)
      BY <1>0, <1>1, <1>10, SameWaits DEF KnownAddr, At
    <3>1. PICK q \in Ports :
            /\ owner[q] = At("key2", b) /\ At("key1", q) = At("key2", b)
            /\ \/ addr[q] = b
               \/ \E g \in DOMAIN cur : cur[g].s = owner[q] /\ cur[g].set = b /\ ~Waits(g)
      BY <1>0, <2>6 DEF KnownAddr, Ready
    <3>2. CASE addr[q] = b
      BY <2>2, <2>4, <3>1, <3>2, DemuxAssumption
    <3>3. CASE q = p /\ addr[q] # b
      BY <2>1, <2>2, <2>4, <3>1, <3>3
    <3>4. CASE q # p
      BY <1>5, <1>6, <1>8, <2>2, <3>1, <3>4
    <3> QED BY <3>2, <3>3, <3>4
  <2>13. UrbInv'
    <3> SUFFICES ASSUME NEW g \in DOMAIN cur'
                 PROVE  \E q \in Ports :
                          /\ owner[q] = cur[g].s /\ pstate'[q] \in {"default", "addressed"}
                          /\ cur[g].set = 0
      BY <1>1, <1>8 DEF UrbInv
    <3>1. PICK q \in Ports :
            /\ owner[q] = cur[g].s /\ pstate[q] \in {"default", "addressed"}
            /\ cur[g].set # 0 => pstate[q] = "default"
      BY <1>0, <1>8 DEF UrbInv
    <3>2. q # p /\ pstate[q] # "default"
      BY <1>8, <2>4, <3>1 DEF Enumerating
    <3> QED BY <2>2, <3>1, <3>2
  <2>14. ToAddress'
    BY <1>0, <1>1, <1>8, <1>12, <2>2, <2>4 DEF ToAddress, Urb, At
  <2>15. DemuxTypeOK' /\ AssertionsHold'
    BY <1>0, <1>1, <1>2, <1>7, <1>8, <1>20, <2>2 DEF DemuxTypeOK, AssertionsHold, Closures
  <2> QED BY <1>11, <1>13, <1>14, <1>15, <1>16, <1>17, <1>18, <1>19, <2>9, <2>10, <2>11, <2>12,
             <2>13, <2>14, <2>15 DEF DemuxInv
<1> QED BY <1>21, <1>22

LEMMA RunDisconnectKeeps ==
  ASSUME DemuxInv, Overlap = {}, RunDisconnect
  PROVE  DemuxInv'
<1> USE SessionFacts
<1>0. /\ DemuxTypeOK /\ AssertionsHold /\ MapInv
      /\ Owners /\ Registering /\ Results /\ Leaving
      /\ OneAtATime /\ Defaults /\ QueueInv /\ DoneInv /\ AddrInv /\ KnownAddr /\ UrbInv
      /\ StatInv /\ UrbWork /\ ToDefault /\ ToAddress /\ CancelInv
      /\ Keyed /\ OutInv /\ OnePlace /\ MailInv /\ BackInv /\ GiveInv
  BY DEF DemuxInv
<1>1. /\ UNCHANGED <<addr, owner, nUrbs, nResets, nSession, sess, mail, regs, gives, drops,
                     mailer, queue, held, demux>>
      /\ bq # <<>> /\ bq' = Tail(bq) /\ Head(bq).op = "disconnect"
  BY DEF RunDisconnect, Closure, taskVars
<1>2. /\ bq' \in Seq(Closures) /\ 1 \in DOMAIN bq /\ Head(bq) = bq[1]
      /\ DOMAIN bq' \subseteq Nat \ {0}
      /\ \A i \in DOMAIN bq' : i + 1 \in DOMAIN bq /\ bq'[i] = bq[i + 1]
      /\ \A i, j \in DOMAIN bq' : (i + 1 = j + 1 => i = j) /\ (j < i => j + 1 < i + 1)
      /\ \A i \in DOMAIN bq' : i + 1 # 1 /\ 1 < i + 1
  BY <1>0, <1>1, BqTail
<1>3. PICK s \in Session : s = bq[1].s
  BY <1>0, <1>1, <1>2, StreamFacts
<1>4. sess[s] \in {"closing", "gone"} /\ \E q \in Ports : Serves(q, s)
  BY <1>0, <1>1, <1>2, <1>3 DEF Leaving, Leaves
<1>5. PICK p \in Ports : owner[p] = s /\ PortOf(s) = p /\ \A q \in Ports : owner[q] = s => q = p
  BY <1>0, <1>4, PortFacts DEF Serves
<1>a. PICK w : w = PortStat(p, s, "gone")
  OBVIOUS
<1>b. PICK e : e = [op |-> "disconnect", s |-> s]
  OBVIOUS
<1> PICK n : n = Len(ctrl) + 1
  OBVIOUS
<1>6. /\ pstate' = [pstate EXCEPT ![p] = "retired"]
      /\ cur' = [h \in DOMAIN cur \ InProgress(s) |-> cur[h]]
      /\ unlinked' = unlinked \ InProgress(s) /\ got' = got \ InProgress(s)
      /\ lagging' = lagging \cup InProgress(s)
      /\ kwork' = Append(kwork, w) /\ ctrl' = Append(ctrl, e)
  BY <1>2, <1>3, <1>5, <1>a, <1>b DEF RunDisconnect
<1>7. /\ DOMAIN cur' = {h \in DOMAIN cur : cur[h].s # s} /\ \A g \in DOMAIN cur' : cur'[g] = cur[g]
      /\ IsMap(cur', Handles, [s : Session, set : {0} \cup Addresses])
      /\ \A h : h \in lagging' <=> h \in lagging \/ (h \in DOMAIN cur /\ cur[h].s = s)
      /\ \A h : h \in got' <=> h \in got /\ cur[h].s # s
      /\ \A h : h \in unlinked' <=> h \in unlinked /\ cur[h].s # s
  <2>1. /\ DOMAIN cur' = {h \in DOMAIN cur : cur[h].s # s} /\ \A g \in DOMAIN cur' : cur'[g] = cur[g]
        /\ cur' = [g \in DOMAIN cur' |-> cur'[g]]
    BY <1>6 DEF InProgress
  <2>2. IsMap(cur', Handles, [s : Session, set : {0} \cup Addresses])
    BY <1>0, <2>1 DEF DemuxTypeOK, IsMap
  <2> QED BY <1>0, <1>6, <2>1, <2>2, TypeFacts DEF InProgress
<1>8. /\ pstate' \in [Ports -> {"free", "connected", "resetting", "default", "addressed",
                                "retired"}]
      /\ pstate'[p] = "retired" /\ \A q \in Ports : q # p => pstate'[q] = pstate[q]
  BY <1>0, <1>6, TypeFacts
<1>9. w \in Work /\ w.op = "PortStat" /\ w.p = p /\ w.to = s /\ w.stat # "resetDone"
  BY <1>a, WorkMade
<1>10. NoUrb /\ Quiet /\ StatOnly
  BY <1>0, <1>6, <1>9, KworkStat, TypeFacts
<1>11. e \in Outcomes /\ e.op = "disconnect" /\ e.s = s
  BY <1>b DEF Outcomes
<1>12. /\ DOMAIN ctrl' = DOMAIN ctrl \cup {n} /\ n \notin DOMAIN ctrl /\ ctrl'[n] = e
       /\ \A i \in DOMAIN ctrl : ctrl'[i] = ctrl[i]
       /\ ctrl' \in Seq(Outcomes)
  BY <1>0, <1>6, <1>11, CtrlAppend
<1>13. MapInv' /\ MailInv'
  BY <1>0, <1>1, FrMap, FrMail
<1>14. Owners'
  BY <1>0, <1>1, <1>4, <1>5, <1>8 DEF Owners, At, Serves
<1>15. Registering'
  BY <1>0, <1>1, <1>2 DEF Registering, Unowned
<1>16. Results'
  BY <1>0, <1>1, <1>2, <1>4, <1>11, <1>12 DEF Results, Unowned, At
<1>17. Leaving'
  BY <1>0, <1>1, <1>2 DEF Leaving, Leaves, Serves, At
<1>18. OneAtATime'
  BY <1>0, <1>1, <1>7, <1>8 DEF OneAtATime, Enumerating
<1>19. Defaults'
  BY <1>0, <1>1, <1>5, <1>7, <1>8, <1>10, MoreReady DEF Defaults, Queued
<1>20. QueueInv'
  <2>1. \A i \in DOMAIN queue : queue[i] \in Ports /\ queue[i] # p /\ pstate'[queue[i]] = pstate[queue[i]]
    BY <1>0, <1>4, <1>5, <1>8 DEF QueueInv, Enumerating
  <2> QED BY <1>0, <1>1, <1>7, <1>10, <2>1, SameWaits DEF QueueInv, Enumerating, At
<1>21. DoneInv'
  <2>1. \A i \in DOMAIN kwork' : Done(i)' =>
          i \in DOMAIN kwork /\ Done(i) /\ kwork'[i] = kwork[i]
    BY <1>10 DEF Quiet, NoUrb, Longer, Done
  <2>2. \A j \in DOMAIN kwork : Urb(j) => j \in DOMAIN kwork' /\ Urb(j)' /\ kwork'[j] = kwork[j]
    BY <1>10 DEF NoUrb, Longer, Urb
  <2>3. \A i \in DOMAIN kwork : Done(i) => kwork[i].p \in Enumerating'
    BY <1>0, <1>4, <1>5, <1>8 DEF DoneInv, StatInv, Done, Enumerating
  <2> QED BY <1>0, <1>1, <1>7, <2>1, <2>2, <2>3 DEF DoneInv
<1>22. AddrInv'
  BY <1>0, <1>1, <1>8 DEF AddrInv, At
<1>23. KnownAddr'
  <2>1. \A g \in DOMAIN cur : cur[g].set # 0 => cur[g].s # s
    BY <1>0, <1>4 DEF UrbInv, Defaults
  <2> QED BY <1>0, <1>1, <1>7, <1>10, <2>1, SameWaits, MoreReady, DemuxAssumption DEF KnownAddr, At
<1>24. UrbInv'
  BY <1>0, <1>1, <1>5, <1>7, <1>8, <1>10, SameWaits DEF UrbInv, At
<1>25. StatInv'
  <2>1. /\ \A i \in DOMAIN kwork : kwork'[i] = kwork[i]
        /\ \A i \in DOMAIN kwork' : i \in DOMAIN kwork \/ kwork'[i] = w
        /\ kwork' \in Seq(Work)
    BY <1>0, <1>6, <1>9, AppendFacts, TypeFacts
  <2> QED BY <1>0, <1>1, <1>5, <1>9, <2>1 DEF StatInv
<1>26. \A i \in DOMAIN kwork' : Urb(i)' => i \in DOMAIN kwork /\ Urb(i) /\ kwork'[i] = kwork[i]
  BY <1>10 DEF NoUrb, Longer, Urb
<1>27. UrbWork'
  BY <1>0, <1>7, <1>26 DEF UrbWork
<1>28. ToDefault'
  <2>1. \A i \in DOMAIN kwork : Urb(i) /\ kwork[i].addr = 0 =>
          /\ kwork[i].h \in DOMAIN cur'
          /\ \E q \in Ports :
               /\ owner[q] = kwork[i].to /\ pstate'[q] = "default"
               /\ Queued(q) \/ \E j \in DOMAIN kwork : j < i /\ Done(j) /\ kwork[j].p = q
    <3> SUFFICES ASSUME NEW i \in DOMAIN kwork, Urb(i), kwork[i].addr = 0
                 PROVE  /\ kwork[i].h \in DOMAIN cur'
                        /\ \E q \in Ports :
                             /\ owner[q] = kwork[i].to /\ pstate'[q] = "default"
                             /\ \/ Queued(q)
                                \/ \E j \in DOMAIN kwork : j < i /\ Done(j) /\ kwork[j].p = q
      OBVIOUS
    <3>1. PICK q \in Ports :
            /\ owner[q] = kwork[i].to /\ pstate[q] = "default"
            /\ Queued(q) \/ \E j \in DOMAIN kwork : j < i /\ Done(j) /\ kwork[j].p = q
      BY <1>0 DEF ToDefault
    <3>2. q # p /\ kwork[i].to # s
      BY <1>0, <1>4, <1>5, <3>1 DEF Defaults
    <3>3. kwork[i].h \in DOMAIN cur /\ cur[kwork[i].h].s # s
      BY <1>0, <3>2 DEF ToDefault, UrbWork
    <3> QED BY <1>7, <1>8, <3>1, <3>2, <3>3
  <2>2. \A j \in DOMAIN kwork : Done(j) => j \in DOMAIN kwork' /\ Done(j)' /\ kwork'[j] = kwork[j]
    BY <1>10 DEF NoUrb, Longer, Done
  <2> QED BY <1>1, <1>26, <2>1, <2>2 DEF ToDefault, Queued
<1>29. ToAddress'
  <2> SUFFICES ASSUME NEW i \in DOMAIN kwork, Urb(i), kwork[i].addr # 0
               PROVE  /\ kwork[i].set = 0 /\ At("key2", kwork[i].addr) = kwork[i].to
                      /\ \E q \in Ports :
                           /\ owner[q] = kwork[i].to /\ addr[q] = kwork[i].addr
                           /\ \/ pstate'[q] = "retired"
                              \/ pstate'[q] = "addressed" /\ kwork[i].h \in DOMAIN cur'
    BY <1>1, <1>26 DEF ToAddress, At
  <2>1. PICK q \in Ports :
          /\ owner[q] = kwork[i].to /\ addr[q] = kwork[i].addr
          /\ \/ pstate[q] = "retired"
             \/ pstate[q] = "addressed" /\ kwork[i].h \in DOMAIN cur
    BY <1>0 DEF ToAddress
  <2>2. q # p /\ kwork[i].h \in DOMAIN cur => kwork[i].h \in DOMAIN cur'
    BY <1>0, <1>5, <1>7, <2>1 DEF UrbWork
  <2> QED BY <1>0, <1>8, <2>1, <2>2 DEF ToAddress
<1>30. CancelInv'
  <2>1. \A i \in DOMAIN kwork' :
          Cancels(i)' => i \in DOMAIN kwork /\ Cancels(i) /\ kwork'[i] = kwork[i]
    BY <1>10 DEF StatOnly, NoUrb, Longer, Cancels
  <2>2. \A j \in DOMAIN kwork : Urb(j) => j \in DOMAIN kwork' /\ Urb(j)' /\ kwork'[j] = kwork[j]
    BY <1>10 DEF NoUrb, Longer, Urb
  <2> QED BY <1>0, <1>1, <1>7, <1>26, <2>1, <2>2 DEF CancelInv, At
<1>31. Keyed'
  BY <1>0, <1>1, <1>7, <1>10, SameWaits DEF Keyed, At
<1>32. \A g \in Handles : Out(g)' => Out(g) /\ g \in DOMAIN cur' /\ g \notin lagging'
  <2> SUFFICES ASSUME NEW g \in Handles, Out(g)' PROVE Out(g) /\ cur[g].s # s
    BY <1>0, <1>7 DEF OutInv
  <2>1. CASE g \in got'
    BY <1>7, <2>1 DEF Out
  <2>2. CASE InHeld(g)
    BY <1>0, <1>4, <2>2 DEF OnePlace, InHeld, Out
  <2>3. CASE \E t \in Session : Carries(t, g)
    <3>1. PICK t \in Session : Carries(t, g)
      BY <2>3
    <3>2. sess[t] = "open" /\ cur[g].s = t
      BY <1>0, <3>1 DEF OnePlace, MailInv, Carries
    <3> QED BY <1>4, <2>3, <3>2 DEF Out
  <2> QED BY <1>1, <2>1, <2>2, <2>3, SameOut DEF Out
<1>33. OutInv'
  <2>1. \A g : Back(g)' => Back(g)
    BY <1>2 DEF Back
  <2>2. \A i \in DOMAIN kwork' : Cancels(i)' => i \in DOMAIN kwork /\ Cancels(i) /\ kwork'[i] = kwork[i]
    BY <1>10 DEF StatOnly, NoUrb, Longer, Cancels
  <2>3. \A g \in DOMAIN cur' : g \in unlinked => g \in unlinked'
    BY <1>7
  <2> QED BY <1>0, <1>1, <1>7, <1>10, <1>32, <2>1, <2>2, <2>3, SameWaits DEF OutInv, At
<1>34. OnePlace'
  <2>1. \A g \in Handles : Out(g)' => cur'[g] = cur[g]
    BY <1>7, <1>32
  <2>2. \A g : g \in got' => g \in got
    BY <1>7
  <2>3. \A g : (InHeld(g)' <=> InHeld(g)) /\ \A t \in Session : (Carries(t, g)' <=> Carries(t, g))
    BY <1>1, SameOut
  <2>4. \A g : (InHeld(g) \/ \E t \in Session : Carries(t, g)) => Out(g)'
    BY <2>3 DEF Out
  <2> QED BY <1>0, <1>1, <2>1, <2>2, <2>3, <2>4 DEF OnePlace
<1>35. BackInv'
  <2>1. \A i \in DOMAIN bq' : bq'[i].op = "giveback" => cur[bq'[i].h].s # s
    BY <1>0, <1>1, <1>2, <1>3 DEF BackInv
  <2>2. \A i \in DOMAIN bq' : bq'[i].op = "giveback" =>
          bq'[i].h \in DOMAIN cur' /\ ~Waits(bq'[i].h)
          /\ (bq'[i].h \in lagging' \/ At("key3", bq'[i].h) = None)
    BY <1>0, <1>2, <1>7, <2>1 DEF BackInv
  <2>3. \A i \in DOMAIN bq' : bq'[i].op = "giveback" =>
          /\ \A j \in DOMAIN bq' : bq'[j].op = "giveback" /\ bq'[j].h = bq'[i].h => j = i
          /\ \A j \in DOMAIN bq' : j < i /\ bq'[j].op = "disconnect" => bq'[j].s # cur[bq'[i].h].s
    BY <1>0, <1>2 DEF BackInv
  <2> QED BY <1>1, <1>7, <1>10, <2>2, <2>3, SameWaits DEF BackInv, At
<1>36. GiveInv'
  BY <1>0, <1>1, <1>7, <1>10, SameWaits DEF GiveInv
<1>37. DemuxTypeOK' /\ AssertionsHold'
  <2>1. kwork' \in Seq(Work)
    BY <1>0, <1>6, <1>9, AppendFacts, TypeFacts
  <2>2. unlinked' \subseteq DOMAIN cur' /\ lagging' \subseteq Handles /\ got' \subseteq DOMAIN cur'
    BY <1>0, <1>7, TypeFacts
  <2> QED BY <1>0, <1>1, <1>2, <1>7, <1>8, <1>12, <2>1, <2>2
          DEF DemuxTypeOK, AssertionsHold, Closures, Outcomes
<1> QED BY <1>13, <1>14, <1>15, <1>16, <1>17, <1>18, <1>19, <1>20, <1>21, <1>22, <1>23, <1>24,
           <1>25, <1>27, <1>28, <1>29, <1>30, <1>31, <1>33, <1>34, <1>35, <1>36, <1>37 DEF DemuxInv

LEMMA SubSeqFacts ==
  ASSUME NEW T, NEW q \in Seq(T), NEW i \in DOMAIN q, NEW r, r = SubSeq(q, i + 1, Len(q))
  PROVE  /\ r \in Seq(T) /\ DOMAIN r \subseteq Nat \ {0} /\ i \in Nat \ {0}
         /\ \A j \in DOMAIN r : i + j \in DOMAIN q /\ r[j] = q[i + j]
<1>1. /\ Len(q) \in Nat /\ DOMAIN q = 1..Len(q) /\ i \in 1..Len(q)
  OBVIOUS
<1>2. r \in Seq(T) /\ Len(r) = Len(q) - i
  BY <1>1
<1>3. DOMAIN r = 1..(Len(q) - i)
  BY <1>1, <1>2
<1>4. \A j \in 1..(Len(q) - i) : r[j] = q[i + j]
  BY <1>1
<1>5. 1..(Len(q) - i) \subseteq Nat \ {0} /\ \A j \in 1..(Len(q) - i) : i + j \in 1..Len(q)
  BY <1>1
<1> QED BY <1>1, <1>2, <1>3, <1>4, <1>5

LEMMA EventGivebackUrbKeeps ==
  ASSUME DemuxInv, Overlap = {}, EventGivebackUrb
  PROVE  DemuxInv'
<1> USE SessionFacts
<1>0. /\ DemuxTypeOK /\ AssertionsHold /\ MapInv
      /\ Owners /\ Registering /\ Results /\ Leaving
      /\ OneAtATime /\ Defaults /\ QueueInv /\ DoneInv /\ AddrInv /\ KnownAddr /\ UrbInv
      /\ StatInv /\ UrbWork /\ ToDefault /\ ToAddress /\ CancelInv
      /\ Keyed /\ OutInv /\ OnePlace /\ MailInv /\ BackInv /\ GiveInv
  BY DEF DemuxInv
<1>1. /\ UNCHANGED <<pstate, addr, owner, cur, unlinked, nUrbs, nResets, nSession, got, kwork,
                     sess, mail, regs, drops, bq, ctrl, queue, held, demux>>
  BY DEF EventGivebackUrb, eventKeeps
<1>2. PICK i \in DOMAIN gives :
        /\ gives[i].s # 0 /\ gives' = SubSeq(gives, i + 1, Len(gives))
        /\ mailer' = forget_handle(gives[i].h) /\ lagging' = lagging \ {gives[i].h}
  BY DEF EventGivebackUrb
<1>3. PICK h \in Handles : h = gives[i].h
  BY <1>0, StreamFacts
<1>4. /\ gives' \in Seq([h : Handles, s : {0} \cup Session]) /\ DOMAIN gives' \subseteq Nat \ {0}
      /\ i \in Nat \ {0}
      /\ \A j \in DOMAIN gives' : i + j \in DOMAIN gives /\ gives'[j] = gives[i + j]
  <2>1. gives \in Seq([h : Handles, s : {0} \cup Session])
    BY <1>0 DEF DemuxTypeOK
  <2>2. PICK T : T = [h : Handles, s : {0} \cup Session]
    OBVIOUS
  <2>3. gives' = SubSeq(gives, i + 1, Len(gives)) /\ gives \in Seq(T)
    BY <1>2, <2>1, <2>2
  <2>4. /\ gives' \in Seq(T) /\ DOMAIN gives' \subseteq Nat \ {0} /\ i \in Nat \ {0}
        /\ \A j \in DOMAIN gives' : i + j \in DOMAIN gives /\ gives'[j] = gives[i + j]
    BY <2>3, SubSeqFacts
  <2> QED BY <2>2, <2>4
<1>5. /\ h \in lagging /\ ~Waits(h)
      /\ \A j \in DOMAIN gives : gives[j].s # 0 /\ gives[j].h = h => j = i
  BY <1>0, <1>2, <1>3 DEF GiveInv
<1>6. /\ Sound(mailer', Keys, Session, Opened)
      /\ \A o \in Kind : \A x : At(o, x)' = IF o = "key3" /\ x = h THEN None ELSE At(o, x)
  <2>1. h \in Keys /\ "key3" \in Kind /\ Opened \subseteq Session
    BY DEF Keys, Kind, Opened
  <2>2. mailer' = remove_by_key(mailer, "key3", h)
    BY <1>2, <1>3 DEF forget_handle
  <2>3. Sound(mailer, Keys, Session, Opened)
    BY <1>0 DEF MapInv
  <2>4. Put(remove_by_key(mailer, "key3", h), mailer, Keys, Session, Opened, "key3", h, None)
    BY <2>1, <2>3, GetRemoved
  <2> QED BY <2>2, <2>4 DEF At, Put
<1>7. /\ \A x : At("key1", x)' = At("key1", x) /\ At("key2", x)' = At("key2", x)
      /\ \A x : x # h => At("key3", x)' = At("key3", x)
      /\ At("key3", h)' = None
  BY <1>6 DEF Kind
<1>8. MapInv'
  BY <1>1, <1>6 DEF MapInv, Opened
<1>9. NoUrb /\ Quiet /\ StatOnly
  BY <1>0, <1>1, KworkSame, TypeFacts
<1>10. /\ Registering' /\ OneAtATime' /\ Defaults' /\ DoneInv' /\ StatInv' /\ ToDefault'
       /\ OnePlace' /\ MailInv'
  BY <1>0, <1>1, <1>9, FrRegistering, FrOneAtATime, FrDefaults, FrDone, FrStat, FrToDefault,
     FrOnePlace, FrMail
<1>11. Owners'
  BY <1>0, <1>1, <1>7 DEF Owners, Serves
<1>12. Results'
  BY <1>0, <1>1, <1>7 DEF Results, Unowned
<1>13. Leaving'
  BY <1>0, <1>1, <1>7 DEF Leaving, Leaves, Serves
<1>14. QueueInv'
  BY <1>0, <1>1, <1>7, <1>9, SameWaits DEF QueueInv, Enumerating
<1>15. AddrInv'
  BY <1>0, <1>1, <1>7 DEF AddrInv
<1>16. KnownAddr'
  BY <1>0, <1>1, <1>7, <1>9, SameWaits, MoreReady DEF KnownAddr
<1>17. UrbInv'
  BY <1>0, <1>1, <1>7, <1>9, SameWaits DEF UrbInv
<1>18. UrbWork'
  <2>1. \A j \in DOMAIN kwork : Urb(j) => kwork[j].h # h
    BY <1>5 DEF Waits
  <2> QED BY <1>0, <1>1, <1>2, <1>3, <2>1 DEF UrbWork, Urb
<1>19. ToAddress'
  BY <1>0, <1>1, <1>7 DEF ToAddress, Urb
<1>20. CancelInv'
  <2>1. \A k \in DOMAIN kwork : Cancels(k) => At("key3", kwork[k].h)' \in {None, kwork[k].to}
    BY <1>0, <1>1, <1>7 DEF CancelInv
  <2>2. \A k \in DOMAIN kwork : (Urb(k)' <=> Urb(k)) /\ (Cancels(k)' <=> Cancels(k))
    BY <1>1 DEF Urb, Cancels
  <2> QED BY <1>0, <1>1, <2>1, <2>2 DEF CancelInv
<1>21. Keyed'
  BY <1>0, <1>1, <1>2, <1>3, <1>7, <1>9, SameWaits DEF Keyed
<1>22. OutInv'
  <2>1. \A g : Out(g)' => Out(g)
    BY <1>1, SameOut DEF Out
  <2>2. \A g \in Handles : Out(g) => g # h
    BY <1>0, <1>5 DEF OutInv
  <2>3. \A k \in DOMAIN kwork : Cancels(k)' <=> Cancels(k)
    BY <1>1 DEF Cancels
  <2>4. \A g : Back(g)' <=> Back(g)
    BY <1>1 DEF Back
  <2> QED BY <1>0, <1>1, <1>2, <1>7, <1>9, <2>1, <2>2, <2>3, <2>4, SameWaits DEF OutInv
<1>23. BackInv'
  BY <1>0, <1>1, <1>2, <1>3, <1>7, <1>9, SameWaits DEF BackInv
<1>24. GiveInv'
  <2>1. \A j, k \in DOMAIN gives' : (i + j = i + k => j = k) /\ i + j # i
    BY <1>4
  <2>2. \A j \in DOMAIN gives' : gives'[j].s # 0 =>
          /\ gives'[j].h \in lagging /\ gives'[j].h # h /\ ~Waits(gives'[j].h)
          /\ \A k \in DOMAIN gives' : gives'[k].s # 0 /\ gives'[k].h = gives'[j].h => k = j
    BY <1>0, <1>4, <1>5, <2>1 DEF GiveInv
  <2> QED BY <1>2, <1>3, <1>9, <2>2, SameWaits DEF GiveInv
<1>25. DemuxTypeOK' /\ AssertionsHold'
  <2>1. KeyMapTypeOK(mailer', Keys, Session)
    BY <1>6 DEF Sound
  <2> QED BY <1>0, <1>1, <1>2, <1>4, <2>1 DEF DemuxTypeOK, AssertionsHold, Keys
<1> QED BY <1>8, <1>10, <1>11, <1>12, <1>13, <1>14, <1>15, <1>16, <1>17, <1>18, <1>19, <1>20,
           <1>21, <1>22, <1>23, <1>24, <1>25 DEF DemuxInv

LEMMA SendResumesKeeps ==
  ASSUME DemuxInv, Overlap = {}, SendResumes
  PROVE  DemuxInv'
<1> USE SessionFacts
<1>0. /\ DemuxTypeOK /\ AssertionsHold /\ MapInv
      /\ Owners /\ Registering /\ Results /\ Leaving
      /\ OneAtATime /\ Defaults /\ QueueInv /\ DoneInv /\ AddrInv /\ KnownAddr /\ UrbInv
      /\ StatInv /\ UrbWork /\ ToDefault /\ ToAddress /\ CancelInv
      /\ Keyed /\ OutInv /\ OnePlace /\ MailInv /\ BackInv /\ GiveInv
  BY DEF DemuxInv
<1>1. /\ UNCHANGED <<pstate, addr, owner, cur, unlinked, nUrbs, nResets, nSession, got, lagging,
                     kwork, sess, regs, gives, drops, bq, ctrl, mailer, queue, demux>>
      /\ held # <<>> /\ held' = <<>>
  BY DEF SendResumes, eventKeeps
<1>2. 1 \in DOMAIN held /\ held[1].s \in Session /\ held[1].w \in Work
  <2>1. held \in Seq([s : Session, w : Work])
    BY <1>0 DEF DemuxTypeOK
  <2>2. 1 \in DOMAIN held
    BY <1>1, <2>1
  <2> QED BY <1>0, <2>2, StreamFacts
<1>3. PICK s \in Session : s = held[1].s
  BY <1>2
<1>4. PICK w \in Work : w = held[1].w
  BY <1>2
<1>5. /\ w.to = s /\ (w.op = "PortStat" => owner[w.p] = s)
  BY <1>0, <1>2, <1>3, <1>4 DEF MailInv
<1>6. /\ mail' \in [Session -> Seq(Work)] /\ \A t \in Session : Len(mail'[t]) <= 1
      /\ \A t \in Session : t # s => mail'[t] = mail[t]
      /\ mail'[s] = mail[s] \/ (sess[s] = "open" /\ mail[s] = <<>> /\ mail'[s] = <<w>>)
  <2>1. mail \in [Session -> Seq(Work)]
    BY <1>0 DEF DemuxTypeOK
  <2>2. \A t \in Session : Len(mail[t]) <= 1
    BY <1>0, StreamFacts
  <2>3. \/ sess[s] = "open" /\ mail[s] = <<>> /\ mail' = [mail EXCEPT ![s] = <<w>>]
        \/ mail' = mail
    BY <1>3, <1>4 DEF SendResumes
  <2>4. <<w>> \in Seq(Work) /\ Len(<<w>>) <= 1
    OBVIOUS
  <2> QED BY <2>1, <2>2, <2>3, <2>4
<1>7. \A t \in Session : \A k \in DOMAIN mail'[t] :
        (k \in DOMAIN mail[t] /\ mail'[t][k] = mail[t][k]) \/ (t = s /\ sess[s] = "open" /\ mail[s] = <<>> /\ mail'[t][k] = w)
  BY <1>6
<1>8. NoUrb /\ Quiet /\ StatOnly
  BY <1>0, <1>1, KworkSame, TypeFacts
<1>9. /\ MapInv' /\ Owners' /\ Registering' /\ Results' /\ Leaving' /\ OneAtATime' /\ Defaults'
      /\ QueueInv' /\ DoneInv' /\ AddrInv' /\ KnownAddr' /\ UrbInv' /\ StatInv' /\ UrbWork'
      /\ ToDefault' /\ ToAddress' /\ CancelInv' /\ Keyed' /\ BackInv' /\ GiveInv'
  BY <1>0, <1>1, <1>8, FrMap, FrOwners, FrRegistering, FrResults, FrLeaving, FrOneAtATime,
     FrDefaults, FrQueue, FrDone, FrAddr, FrKnownAddr, FrUrb, FrStat, FrUrbWork, FrToDefault,
     FrToAddress, FrCancel, FrKeyed, FrBack, FrGive
<1>10. \A g : ~InHeld(g)'
  BY <1>1 DEF InHeld
<1>11. \A t \in Session : \A g : Carries(t, g)' => Carries(t, g) \/ (t = s /\ InHeld(g))
  <2>1. sess[s] = "open" /\ w.op = "ProcessUrb" => InHeld(w.h)
    BY <1>2, <1>3, <1>4 DEF InHeld
  <2> QED BY <1>7, <2>1 DEF Carries
<1>12. \A g : Out(g)' => Out(g)
  BY <1>1, <1>10, <1>11 DEF Out
<1>13. OutInv'
  BY <1>0, <1>1, <1>8, <1>12, SameWaits DEF OutInv, Back, At, Cancels
<1>14. OnePlace'
  BY <1>0, <1>1, <1>2, <1>3, <1>10, <1>11 DEF OnePlace
<1>15. MailInv'
  <2>1. \A t \in Session : sess[t] # "open" => mail'[t] = <<>>
    BY <1>0, <1>6 DEF MailInv
  <2>2. \A t \in Session : \A k \in DOMAIN mail'[t] :
          /\ mail'[t][k].to = t
          /\ mail'[t][k].op = "PortStat" => owner[mail'[t][k].p] = t
    BY <1>0, <1>5, <1>7 DEF MailInv
  <2> QED BY <1>1, <2>1, <2>2 DEF MailInv
<1>16. DemuxTypeOK' /\ AssertionsHold'
  <2>1. held' \in Seq([s : Session, w : Work]) /\ Len(held') <= 1
    BY <1>1
  <2> QED BY <1>0, <1>1, <1>6, <2>1 DEF DemuxTypeOK, AssertionsHold
<1> QED BY <1>9, <1>13, <1>14, <1>15, <1>16 DEF DemuxInv

LEMMA ReceiveKeeps ==
  ASSUME DemuxInv, Overlap = {}, NEW s \in Session, Receive(s)
  PROVE  DemuxInv'
<1> USE SessionFacts
<1>0. /\ DemuxTypeOK /\ AssertionsHold /\ MapInv
      /\ Owners /\ Registering /\ Results /\ Leaving
      /\ OneAtATime /\ Defaults /\ QueueInv /\ DoneInv /\ AddrInv /\ KnownAddr /\ UrbInv
      /\ StatInv /\ UrbWork /\ ToDefault /\ ToAddress /\ CancelInv
      /\ Keyed /\ OutInv /\ OnePlace /\ MailInv /\ BackInv /\ GiveInv
  BY DEF DemuxInv
<1>1. /\ UNCHANGED <<owner, cur, unlinked, nUrbs, nResets, lagging, nSession, sess, regs,
                     gives, drops, bq, ctrl, mailer, queue, held, demux>>
      /\ sess[s] = "open" /\ mail[s] # <<>> /\ mail' = [mail EXCEPT ![s] = <<>>]
  BY DEF Receive, taskVars
<1>2. 1 \in DOMAIN mail[s] /\ Head(mail[s]) = mail[s][1] /\ mail[s][1] \in Work
  <2>1. mail[s] \in Seq(Work)
    BY <1>0, StreamFacts
  <2> QED BY <1>1, <2>1, TailFacts
<1>3. PICK w \in Work : w = mail[s][1]
  BY <1>2
<1>4. /\ w.to = s /\ (w.op = "PortStat" => owner[w.p] = s /\ w.p \in Ports)
      /\ (w.op = "ProcessUrb" => Carries(s, w.h) /\ w.h \in Handles)
  BY <1>0, <1>2, <1>3, WorkFields DEF MailInv, Carries
<1>5. /\ got' = IF w.op = "ProcessUrb" THEN got \cup {w.h} ELSE got
      /\ IF w.op = "PortStat" /\ w.stat = "resetting" /\ pstate[w.p] = "resetting"
         THEN /\ pstate' = [pstate EXCEPT ![w.p] = "default"]
              /\ addr' = [addr EXCEPT ![w.p] = 0]
              /\ kwork' = Append(kwork, PortStat(w.p, s, "resetDone"))
         ELSE UNCHANGED <<pstate, addr, kwork>>
  BY <1>2, <1>3 DEF Receive
<1>6. /\ mail' \in [Session -> Seq(Work)] /\ mail'[s] = <<>>
      /\ \A t \in Session : t # s => mail'[t] = mail[t]
  <2>1. mail \in [Session -> Seq(Work)] /\ <<>> \in Seq(Work)
    BY <1>0 DEF DemuxTypeOK
  <2> QED BY <1>1, <2>1
<1>7. \A g : g \in got' => g \in got \/ (g \in Handles /\ Carries(s, g))
  BY <1>4, <1>5
<1>8. \A g : (InHeld(g)' <=> InHeld(g))
  BY <1>1 DEF InHeld
<1>9. \A t \in Session : \A g : Carries(t, g)' => Carries(t, g) /\ t # s
  BY <1>6 DEF Carries
<1>10. \A g : Out(g)' => Out(g)
  BY <1>7, <1>8, <1>9 DEF Out
<1>11. got' \subseteq DOMAIN cur
  BY <1>0, <1>4, <1>7, TypeFacts DEF OutInv, Out
<1>12. OnePlace'
  BY <1>0, <1>1, <1>7, <1>8, <1>9 DEF OnePlace
<1>13. /\ MapInv' /\ Registering' /\ Results' /\ Leaving'
  BY <1>0, <1>1, FrMap, FrRegistering, FrResults, FrLeaving
<1>14. MailInv'
  <2>1. Opened' = Opened
    BY <1>1 DEF Opened
  <2> QED BY <1>0, <1>1, <1>6, <2>1 DEF MailInv
<1>15. mail' \in [Session -> Seq(Work)] /\ \A t \in Session : Len(mail'[t]) <= 1
  BY <1>0, <1>6, StreamFacts
<1>16. CASE UNCHANGED <<pstate, addr, kwork>>
  <2>1. NoUrb /\ Quiet /\ StatOnly
    BY <1>0, <1>16, KworkSame, TypeFacts
  <2>2. /\ Owners' /\ OneAtATime' /\ Defaults' /\ QueueInv' /\ DoneInv' /\ AddrInv' /\ KnownAddr'
        /\ UrbInv' /\ StatInv' /\ UrbWork' /\ ToDefault' /\ ToAddress' /\ CancelInv' /\ Keyed'
        /\ BackInv' /\ GiveInv'
    BY <1>0, <1>1, <1>16, <2>1, FrOwners, FrOneAtATime, FrDefaults, FrQueue, FrDone, FrAddr,
       FrKnownAddr, FrUrb, FrStat, FrUrbWork, FrToDefault, FrToAddress, FrCancel, FrKeyed,
       FrBack, FrGive
  <2>3. OutInv'
    BY <1>0, <1>1, <1>10, <1>16, <2>1, SameWaits DEF OutInv, Back, At, Cancels
  <2>4. DemuxTypeOK' /\ AssertionsHold'
    BY <1>0, <1>1, <1>11, <1>15, <1>16 DEF DemuxTypeOK, AssertionsHold
  <2> QED BY <1>12, <1>13, <1>14, <2>2, <2>3, <2>4 DEF DemuxInv
<1>17. CASE w.op = "PortStat" /\ w.stat = "resetting" /\ pstate[w.p] = "resetting"
  <2>1. PICK p \in Ports : p = w.p
    BY <1>4, <1>17
  <2>2. PICK v : v = PortStat(p, s, "resetDone")
    OBVIOUS
  <2>3. PICK n : n = Len(kwork) + 1
    OBVIOUS
  <2>4. /\ pstate' = [pstate EXCEPT ![p] = "default"] /\ addr' = [addr EXCEPT ![p] = 0]
        /\ kwork' = Append(kwork, v) /\ pstate[p] = "resetting" /\ owner[p] = s
    BY <1>4, <1>5, <1>17, <2>1, <2>2
  <2>5. v \in Work /\ v.op = "PortStat" /\ v.p = p /\ v.to = s /\ v.stat = "resetDone"
    BY <2>2, WorkMade
  <2>6. NoUrb /\ StatOnly
    BY <1>0, <2>4, <2>5, KworkStat, TypeFacts
  <2>7. /\ DOMAIN kwork' = DOMAIN kwork \cup {n} /\ n \notin DOMAIN kwork /\ kwork'[n] = v
        /\ \A i \in DOMAIN kwork : kwork'[i] = kwork[i] /\ i < n /\ i \in Nat
        /\ n \in Nat /\ kwork' \in Seq(Work)
    BY <1>0, <2>3, <2>4, <2>5, AppendFacts, TypeFacts
  <2>8. /\ pstate' \in [Ports -> {"free", "connected", "resetting", "default", "addressed",
                                  "retired"}]
        /\ pstate'[p] = "default" /\ \A q \in Ports : q # p => pstate'[q] = pstate[q]
        /\ addr' \in [Ports -> {0} \cup Addresses]
        /\ addr'[p] = 0 /\ \A q \in Ports : q # p => addr'[q] = addr[q]
    BY <1>0, <2>4, TypeFacts
  <2>9. /\ Enumerating' = Enumerating /\ Enumerating = {p}
        /\ \A g \in DOMAIN cur : cur[g].s # s
    BY <1>0, <2>4, <2>8 DEF Enumerating, OneAtATime
  <2>10. Ready(p)'
    BY <2>5, <2>7 DEF Ready, Done
  <2>11. UrbWork' /\ CancelInv' /\ Keyed' /\ BackInv' /\ GiveInv'
    BY <1>0, <1>1, <2>6, FrUrbWork, FrCancel, FrKeyed, FrBack, FrGive
  <2>12. Owners'
    BY <1>0, <1>1, <2>4, <2>8 DEF Owners, At, Serves
  <2>13. OneAtATime'
    BY <1>0, <1>1, <2>8, <2>9 DEF OneAtATime
  <2>14. Defaults'
    <3>1. \A q \in Ports : pstate'[q] = "default" => q = p
      BY <2>8, <2>9 DEF Enumerating
    <3> QED BY <1>1, <2>4, <2>8, <2>9, <2>10, <3>1 DEF Defaults
  <2>15. QueueInv'
    BY <1>0, <1>1, <2>6, <2>9, SameWaits DEF QueueInv, At
  <2>16. DoneInv'
    <3>1. \A j \in DOMAIN kwork : (Done(j)' => Done(j)) /\ (Urb(j) => Urb(j)')
      BY <2>7 DEF Done, Urb
    <3> QED BY <1>0, <1>1, <2>5, <2>7, <2>9, <3>1 DEF DoneInv
  <2>17. AddrInv'
    BY <1>0, <1>1, <2>8 DEF AddrInv, At
  <2>18. KnownAddr'
    BY <1>0, <1>1, <2>6, <2>8, <2>10, SameWaits, MoreReady DEF KnownAddr, At
  <2>19. UrbInv'
    <3>1. \A q \in Ports : addr'[q] = addr[q] \/ addr'[q] = 0
      BY <2>8
    <3> QED BY <1>0, <1>1, <2>4, <2>6, <2>8, <3>1, SameWaits DEF UrbInv, At
  <2>20. StatInv'
    BY <1>0, <1>1, <2>4, <2>5, <2>7 DEF StatInv
  <2>21. ToDefault'
    <3>1. \A i \in DOMAIN kwork : ~(Urb(i) /\ kwork[i].addr = 0)
      BY <1>0, <2>4, <2>9 DEF ToDefault, Enumerating
    <3> QED BY <2>6, <3>1 DEF ToDefault, Urb, NoUrb, Longer
  <2>22. ToAddress'
    BY <1>0, <1>1, <2>4, <2>6, <2>8 DEF ToAddress, Urb, At, NoUrb, Longer
  <2>23. OutInv'
    <3>1. \A i \in DOMAIN kwork' : Cancels(i)' => i \in DOMAIN kwork /\ Cancels(i) /\ kwork'[i] = kwork[i]
      BY <2>6 DEF StatOnly, NoUrb, Longer, Cancels
    <3>2. \A g : Back(g)' <=> Back(g)
      BY <1>1 DEF Back
    <3> QED BY <1>0, <1>1, <1>10, <2>6, <3>1, <3>2, SameWaits DEF OutInv, At
  <2>24. DemuxTypeOK' /\ AssertionsHold'
    BY <1>0, <1>1, <1>11, <1>15, <2>7, <2>8 DEF DemuxTypeOK, AssertionsHold
  <2> QED BY <1>12, <1>13, <1>14, <2>11, <2>12, <2>13, <2>14, <2>15, <2>16, <2>17, <2>18, <2>19,
             <2>20, <2>21, <2>22, <2>23, <2>24 DEF DemuxInv
<1> QED BY <1>5, <1>16, <1>17

LEMMA CtrlTail ==
  ASSUME DemuxTypeOK, ctrl # <<>>, ctrl' = Tail(ctrl)
  PROVE  /\ ctrl' \in Seq(Outcomes) /\ 1 \in DOMAIN ctrl /\ Head(ctrl) = ctrl[1]
         /\ \A i \in DOMAIN ctrl' : i + 1 \in DOMAIN ctrl /\ ctrl'[i] = ctrl[i + 1] /\ i + 1 # 1
         /\ \A i, j \in DOMAIN ctrl' : i + 1 = j + 1 => i = j
<1>1. ctrl \in Seq(Outcomes)
  BY DEF DemuxTypeOK, Outcomes
<1>2. /\ ctrl' \in Seq(Outcomes) /\ 1 \in DOMAIN ctrl /\ Head(ctrl) = ctrl[1]
      /\ DOMAIN ctrl' \subseteq Nat \ {0}
      /\ \A i \in DOMAIN ctrl' : i + 1 \in DOMAIN ctrl /\ ctrl'[i] = ctrl[i + 1]
  BY <1>1, TailFacts
<1> QED BY <1>2

LEMMA EventControllerKeeps ==
  ASSUME DemuxInv, Overlap = {}, EventController
  PROVE  DemuxInv'
<1> USE SessionFacts
<1>0. /\ DemuxTypeOK /\ AssertionsHold /\ MapInv
      /\ Owners /\ Registering /\ Results /\ Leaving
      /\ OneAtATime /\ Defaults /\ QueueInv /\ DoneInv /\ AddrInv /\ KnownAddr /\ UrbInv
      /\ StatInv /\ UrbWork /\ ToDefault /\ ToAddress /\ CancelInv
      /\ Keyed /\ OutInv /\ OnePlace /\ MailInv /\ BackInv /\ GiveInv
  BY DEF DemuxInv
<1>1. /\ UNCHANGED <<pstate, addr, owner, cur, unlinked, nUrbs, nResets, nSession, got, lagging,
                     kwork, mail, regs, gives, drops, bq, queue, held>>
      /\ ctrl # <<>> /\ ctrl' = Tail(ctrl)
  BY DEF EventController, eventKeeps
<1>2. /\ ctrl' \in Seq(Outcomes) /\ 1 \in DOMAIN ctrl /\ Head(ctrl) = ctrl[1]
      /\ \A i \in DOMAIN ctrl' : i + 1 \in DOMAIN ctrl /\ ctrl'[i] = ctrl[i + 1] /\ i + 1 # 1
      /\ \A i, j \in DOMAIN ctrl' : i + 1 = j + 1 => i = j
  BY <1>0, <1>1, CtrlTail
<1>3. PICK s \in Session : s = ctrl[1].s
  BY <1>0, <1>2, StreamFacts
<1>4. PICK op \in {"register", "registerErr", "disconnect"} : op = ctrl[1].op
  BY <1>0, <1>2, StreamFacts
<1>5. /\ op # "disconnect" => /\ sess[s] = "registering"
                              /\ \A j \in DOMAIN ctrl' : ctrl'[j].op # "disconnect" => ctrl'[j].s # s
      /\ op = "disconnect" => sess[s] \in {"closing", "gone"}
  BY <1>0, <1>2, <1>3, <1>4 DEF Results
<1>6. op = "register" => ctrl[1].port \in Ports /\ owner[ctrl[1].port] = s
                         /\ At("key1", ctrl[1].port) = None
  BY <1>0, <1>2, <1>3, <1>4, StreamFacts DEF Results
<1>7. demux' = "run"
  BY <1>0, <1>2, <1>4, <1>6, AtFacts DEF EventController, Kind
<1>8. /\ mailer' = IF op = "register" THEN insert_by_key(mailer, "key1", ctrl[1].port, s) ELSE mailer
      /\ sess' = [sess EXCEPT ![s] = IF op = "register" THEN "open" ELSE "gone"]
  BY <1>2, <1>3, <1>4, <1>7 DEF EventController
<1>9. /\ sess' \in [Session -> {"none", "registering", "open", "closing", "gone"}]
      /\ sess'[s] = IF op = "register" THEN "open" ELSE "gone"
      /\ \A t \in Session : t # s => sess'[t] = sess[t]
  BY <1>0, <1>8, TypeFacts
<1>10. Opened' = Opened \cup {s}
  BY <1>9 DEF Opened
<1>11. /\ Sound(mailer', Keys, Session, Opened')
       /\ \A x : At("key2", x)' = At("key2", x) /\ At("key3", x)' = At("key3", x)
       /\ \A x : At("key1", x)' = IF op = "register" /\ x = ctrl[1].port THEN s ELSE At("key1", x)
  <2>1. Sound(mailer, Keys, Session, Opened) /\ Opened \subseteq Session
        /\ Kind = {"key1", "key2", "key3"}
    BY <1>0 DEF MapInv, Opened, Kind
  <2>2. CASE op = "register"
    <3>1. s \notin Opened /\ ctrl[1].port \in Keys /\ get_by_key(mailer, "key1", ctrl[1].port) = None
      BY <1>5, <1>6, <2>2 DEF Opened, Keys, At
    <3>2. PICK x : x = ctrl[1].port
      OBVIOUS
    <3>3. Put(insert_by_key(mailer, "key1", x, s), mailer, Keys, Session, Opened \cup {s},
              "key1", x, s)
      BY <2>1, <3>1, <3>2, GetInserted
    <3> QED BY <1>8, <1>10, <2>1, <2>2, <3>2, <3>3 DEF Put, At
  <2>3. CASE op # "register"
    <3>1. Sound(mailer, Keys, Session, Opened')
      BY <1>10, <2>1 DEF Sound, Known
    <3> QED BY <1>8, <2>3, <3>1 DEF At
  <2> QED BY <2>2, <2>3
<1>12. \A p \in Ports : At("key1", p) # None => At("key1", p)' = At("key1", p)
  BY <1>6, <1>11
<1>13. \A t \in Session : sess[t] = "open" => sess'[t] = "open"
  BY <1>5, <1>9
<1>14. \A p \in Ports : owner[p] # 0 => owner[p] \in Session
  BY <1>0, TypeFacts
<1>15. NoUrb /\ Quiet /\ StatOnly
  BY <1>0, <1>1, KworkSame, TypeFacts
<1>16. /\ OneAtATime' /\ StatInv' /\ UrbWork' /\ ToDefault' /\ GiveInv'
  BY <1>0, <1>1, <1>15, FrOneAtATime, FrStat, FrUrbWork, FrToDefault, FrGive
<1>17. MapInv'
  BY <1>11 DEF MapInv
<1>18. Owners'
  <2>1. \A p \in Ports : At("key1", p)' # None => At("key1", p)' = owner[p]
    BY <1>0, <1>6, <1>11 DEF Owners
  <2>2. ASSUME NEW p \in Ports, owner[p] # 0, At("key1", p)' = None
        PROVE  pstate[p] \in {"connected", "resetting"} /\ sess'[owner[p]] = "registering"
    <3>1. At("key1", p) = None /\ ~(op = "register" /\ p = ctrl[1].port)
      BY <1>11, <2>2
    <3>2. pstate[p] \in {"connected", "resetting"} /\ sess[owner[p]] = "registering"
      BY <1>0, <2>2, <3>1 DEF Owners
    <3>3. CASE owner[p] = s /\ op = "register"
      BY <1>0, <1>6, <2>2, <3>1, <3>3 DEF Owners
    <3>4. CASE owner[p] = s /\ op = "registerErr"
      <4>1. Unowned(s)
        BY <1>0, <1>2, <1>3, <1>4, <3>4 DEF Results
      <4> QED BY <3>4, <4>1 DEF Unowned
    <3>5. CASE owner[p] = s /\ op = "disconnect"
      BY <1>5, <3>2, <3>5
    <3>6. CASE owner[p] # s
      BY <1>9, <1>14, <2>2, <3>2, <3>6
    <3> QED BY <3>3, <3>4, <3>5, <3>6
  <2>3. ASSUME NEW t \in Session, sess'[t] \in {"open", "closing"}
        PROVE  \E p \in Ports : owner[p] = t /\ At("key1", p)' = t
    <3>1. CASE t = s
      BY <1>6, <1>9, <1>11, <2>3, <3>1
    <3>2. CASE t # s
      BY <1>0, <1>9, <1>12, <2>3, <3>2 DEF Owners, Serves
    <3> QED BY <3>1, <3>2
  <2>4. ASSUME NEW p \in Ports, pstate[p] = "retired" PROVE sess'[owner[p]] \in {"closing", "gone"}
    <3>1. owner[p] \in Session /\ sess[owner[p]] \in {"closing", "gone"}
      BY <1>0, <1>14, <2>4 DEF Owners
    <3> QED BY <1>5, <1>9, <3>1
  <2> QED BY <1>0, <1>1, <2>1, <2>2, <2>3, <2>4 DEF Owners, Serves
<1>19. Registering'
  <2>1. \A i \in DOMAIN regs : regs[i].s \in Session /\ regs[i].s # s
    <3>1. CASE op = "register"
      BY <1>0, <1>6, <3>1, StreamFacts DEF Registering, Unowned
    <3>2. CASE op = "registerErr"
      <4>1. \A j \in DOMAIN regs : s # regs[j].s
        BY <1>0, <1>2, <1>3, <1>4, <3>2 DEF Results
      <4> QED BY <1>0, <4>1, StreamFacts
    <3>3. CASE op = "disconnect"
      BY <1>0, <1>5, <3>3, StreamFacts DEF Registering
    <3> QED BY <3>1, <3>2, <3>3
  <2>2. \A i \in DOMAIN bq : bq[i].op = "connect" => bq[i].s \in Session /\ bq[i].s # s
    <3>1. CASE op = "register"
      BY <1>0, <1>6, <3>1, StreamFacts DEF Registering, Unowned
    <3>2. CASE op = "registerErr"
      <4>1. \A j \in DOMAIN bq : bq[j].op = "connect" => s # bq[j].s
        BY <1>0, <1>2, <1>3, <1>4, <3>2 DEF Results
      <4> QED BY <1>0, <4>1, StreamFacts
    <3>3. CASE op = "disconnect"
      BY <1>0, <1>5, <3>3, StreamFacts DEF Registering
    <3> QED BY <3>1, <3>2, <3>3
  <2>3. \A t \in Session : sess'[t] = "none" <=> sess[t] = "none"
    BY <1>5, <1>9
  <2>4. \A i \in DOMAIN regs : sess'[regs[i].s] = "registering"
    BY <1>0, <1>9, <2>1 DEF Registering
  <2>5. \A i \in DOMAIN bq : bq[i].op = "connect" => sess'[bq[i].s] = "registering"
    BY <1>0, <1>9, <2>2 DEF Registering
  <2>6. \A t \in Session : sess'[t] = "none" <=> t > nSession
    BY <1>0, <2>3 DEF Registering
  <2> QED BY <1>0, <1>1, <2>4, <2>5, <2>6 DEF Registering, Unowned
<1>20. Results'
  <2>1. \A i \in DOMAIN ctrl' : ctrl'[i].s \in Session
    BY <1>0, <1>2, StreamFacts
  <2>2. \A i \in DOMAIN ctrl' : ctrl'[i].op # "disconnect" => sess'[ctrl'[i].s] = "registering"
    <3>1. \A i \in DOMAIN ctrl' : ctrl'[i].op # "disconnect" => sess[ctrl'[i].s] = "registering"
      BY <1>0, <1>2 DEF Results
    <3>2. \A i \in DOMAIN ctrl' : ctrl'[i].op # "disconnect" => ctrl'[i].s # s
      BY <1>5, <3>1
    <3> QED BY <1>9, <2>1, <3>1, <3>2
  <2>3. \A i \in DOMAIN ctrl' : ctrl'[i].op = "disconnect" => sess'[ctrl'[i].s] \in {"closing", "gone"}
    <3>1. \A i \in DOMAIN ctrl' : ctrl'[i].op = "disconnect" =>
            sess[ctrl'[i].s] \in {"closing", "gone"}
      BY <1>0, <1>2 DEF Results
    <3>2. op = "register" => sess[s] = "registering"
      BY <1>5
    <3>3. \A t \in Session : sess[t] \in {"closing", "gone"} => sess'[t] \in {"closing", "gone"}
      BY <1>9, <3>2
    <3> QED BY <2>1, <3>1, <3>3
  <2>4. \A i \in DOMAIN ctrl' : ctrl'[i].op = "register" =>
          owner[ctrl'[i].port] = ctrl'[i].s /\ At("key1", ctrl'[i].port) = None
    BY <1>0, <1>2 DEF Results
  <2>5. \A i \in DOMAIN ctrl' : ctrl'[i].op = "register" /\ op = "register" =>
          ctrl'[i].port # ctrl[1].port
    BY <1>5, <1>6, <2>4
  <2>6. PICK c : c = ctrl'
    OBVIOUS
  <2>7. \A i \in DOMAIN c : c[i].op = "register" => At("key1", c[i].port)' = None
    BY <1>11, <2>4, <2>5, <2>6
  <2> QED BY <1>0, <1>1, <1>2, <2>2, <2>3, <2>4, <2>6, <2>7 DEF Results, Unowned
<1>21. Leaving'
  <2>1. \A t \in Session : Leaves(t) => Leaves(t)'
    BY <1>1, <1>5, <1>9, <1>12 DEF Leaves, Serves
  <2>2. \A i \in DOMAIN drops : drops[i] \in Session /\ Leaves(drops[i])
    BY <1>0, StreamFacts DEF Leaving
  <2>3. \A i \in DOMAIN bq : bq[i].op = "disconnect" => bq[i].s \in Session /\ Leaves(bq[i].s)
    BY <1>0, StreamFacts DEF Leaving
  <2> QED BY <1>1, <2>1, <2>2, <2>3 DEF Leaving
<1>22. Defaults'
  <2>1. \A p \in Ports : pstate[p] = "default" => owner[p] \in Session
    BY <1>0, <1>14 DEF Owners
  <2>2. \A p \in Ports : pstate[p] = "default" => sess'[owner[p]] = "open"
    BY <1>0, <1>13, <2>1 DEF Defaults
  <2>3. \A p : (Queued(p) => Queued(p)') /\ (Ready(p) => Ready(p)')
    BY <1>1, <1>15, MoreReady DEF Queued
  <2> QED BY <1>0, <1>1, <2>2, <2>3 DEF Defaults
<1>23. QueueInv'
  <2>1. \A p \in Enumerating : p \in Ports /\ owner[p] \in Session
    BY <1>0, <1>14 DEF Owners, Enumerating
  <2>2. \A i \in DOMAIN queue : sess'[owner[queue[i]]] = "open"
    BY <1>0, <1>13, <2>1 DEF QueueInv
  <2> QED BY <1>0, <1>1, <1>11, <1>15, <2>2, SameWaits DEF QueueInv, Enumerating
<1>24. DoneInv'
  <2>1. \A i \in DOMAIN kwork : kwork[i].to \in Session
    BY <1>0, TypeFacts, WorkFields
  <2>2. \A i \in DOMAIN kwork : Done(i) => sess'[kwork[i].to] = "open"
    BY <1>0, <1>13, <2>1 DEF DoneInv
  <2>3. \A i \in DOMAIN kwork : (Done(i)' <=> Done(i)) /\ (Urb(i)' <=> Urb(i))
    BY <1>1 DEF Done, Urb
  <2>4. Enumerating' = Enumerating
    BY <1>1 DEF Enumerating
  <2> QED BY <1>0, <1>1, <2>2, <2>3, <2>4 DEF DoneInv
<1>25. AddrInv'
  BY <1>0, <1>1, <1>11 DEF AddrInv
<1>26. KnownAddr'
  BY <1>0, <1>1, <1>11, <1>12, <1>15, SameWaits, MoreReady DEF KnownAddr
<1>27. UrbInv'
  BY <1>0, <1>1, <1>11, <1>15, SameWaits DEF UrbInv
<1>28. ToAddress'
  BY <1>0, <1>1, <1>11 DEF ToAddress, Urb
<1>29. CancelInv'
  BY <1>0, <1>1, <1>11 DEF CancelInv, Urb, Cancels
<1>30. Keyed'
  BY <1>0, <1>1, <1>11, <1>15, SameWaits DEF Keyed
<1>31. \A g : (InHeld(g)' => InHeld(g)) /\ \A t \in Session : Carries(t, g)' <=> Carries(t, g)
  <2>1. \A i \in DOMAIN held : held[i].s \in Opened
    BY <1>0 DEF MailInv
  <2>2. \A t \in Opened : sess'[t] = "open" => sess[t] = "open"
    BY <1>5, <1>9 DEF Opened
  <2> QED BY <1>1, <2>1, <2>2 DEF InHeld, Carries
<1>32. OutInv'
  <2>1. \A g : Out(g)' => Out(g)
    BY <1>1, <1>31 DEF Out
  <2>2. \A i \in DOMAIN kwork : Cancels(i)' <=> Cancels(i)
    BY <1>1 DEF Cancels
  <2>3. \A g : Back(g)' <=> Back(g)
    BY <1>1 DEF Back
  <2> QED BY <1>0, <1>1, <1>11, <1>15, <2>1, <2>2, <2>3, SameWaits DEF OutInv
<1>33. OnePlace'
  BY <1>0, <1>1, <1>31 DEF OnePlace
<1>34. MailInv'
  BY <1>0, <1>1, <1>10, <1>13 DEF MailInv
<1>35. BackInv'
  BY <1>0, <1>1, <1>11, <1>15, SameWaits DEF BackInv
<1>36. DemuxTypeOK' /\ AssertionsHold'
  <2>1. KeyMapTypeOK(mailer', Keys, Session)
    BY <1>11 DEF Sound
  <2> QED BY <1>0, <1>1, <1>2, <1>7, <1>9, <2>1 DEF DemuxTypeOK, AssertionsHold, Keys, Outcomes
<1> QED BY <1>16, <1>17, <1>18, <1>19, <1>20, <1>21, <1>22, <1>23, <1>24, <1>25, <1>26, <1>27,
           <1>28, <1>29, <1>30, <1>32, <1>33, <1>34, <1>35, <1>36 DEF DemuxInv

-----------------------------------------------------------------------------
(* The next work item: what it does to the mailer, and where it goes. *)
LinkedView(w) ==
  /\ Sound(linkedMailer(w), Keys, Session, Opened)
  /\ \A p \in Ports : get_by_key(linkedMailer(w), "key1", p) = At("key1", p)
  /\ \A a : get_by_key(linkedMailer(w), "key2", a) =
       IF setAddress(w) /\ a = w.set THEN w.to
       ELSE IF portReset(w) /\ At("key2", a) = w.to THEN None ELSE At("key2", a)
  /\ \A h : get_by_key(linkedMailer(w), "key3", h) =
       IF w.op = "ProcessUrb" /\ h = w.h THEN w.to
       ELSE IF w.op = "CancelUrb" /\ h = w.h THEN None
       ELSE IF portReset(w) /\ At("key3", h) = w.to THEN None ELSE At("key3", h)
Routed(w) ==
  /\ asserted(w) = "run"
  /\ sender(w) \in {None, w.to}
  /\ w.op = "ProcessUrb" \/ (w.op = "CancelUrb" /\ w.h \in got) => sender(w) = w.to

LEMMA WorkHead ==
  ASSUME DemuxTypeOK, kwork # <<>>
  PROVE  Head(kwork) = kwork[1] /\ kwork[1] \in Work /\ 1 \in DOMAIN kwork
         /\ DOMAIN kwork \subseteq Nat \ {0}
<1>1. kwork \in Seq(Work)
  BY TypeFacts
<1>2. PICK r : r = Tail(kwork)
  OBVIOUS
<1> QED BY <1>1, <1>2, TailFacts

LEMMA QueueHead ==
  ASSUME DemuxInv, NEW p \in Ports, Queued(p)
  PROVE  queue = <<p>> /\ Head(queue) = p /\ Tail(queue) = <<>> /\ p \in Enumerating
<1>1. queue \in Seq(Ports) /\ Len(queue) <= 1 /\ p \in Enumerating
  BY DEF DemuxInv, DemuxTypeOK, QueueInv, Queued
<1>2. queue # <<>> /\ queue[1] = p
  BY <1>1 DEF Queued
<1>3. queue = <<p>>
  BY <1>1, <1>2
<1> QED BY <1>1, <1>3

(* A port whose reset has ended is the next for the default address, unless it
   is so already; no other port is. *)
LEMMA ResetQueue ==
  ASSUME DemuxInv, NEW i \in DOMAIN kwork, Done(i)
  PROVE  /\ kwork[i].p \in Enumerating /\ kwork[i].p \in Ports
         /\ owner[kwork[i].p] = kwork[i].to /\ sess[kwork[i].to] = "open"
         /\ queue = <<>> \/ Queued(kwork[i].p)
<1>0. /\ DemuxTypeOK /\ AssertionsHold /\ MapInv
      /\ Owners /\ Registering /\ Results /\ Leaving
      /\ OneAtATime /\ Defaults /\ QueueInv /\ DoneInv /\ AddrInv /\ KnownAddr /\ UrbInv
      /\ StatInv /\ UrbWork /\ ToDefault /\ ToAddress /\ CancelInv
      /\ Keyed /\ OutInv /\ OnePlace /\ MailInv /\ BackInv /\ GiveInv
  BY DEF DemuxInv
<1>1. kwork[i].p \in Enumerating /\ owner[kwork[i].p] = kwork[i].to /\ sess[kwork[i].to] = "open"
  BY <1>0 DEF DoneInv, StatInv, Done
<1>2. \A k \in DOMAIN queue : queue[k] = kwork[i].p
  BY <1>0, <1>1 DEF QueueInv, OneAtATime
<1>3. queue \in Seq(Ports)
  BY <1>0 DEF DemuxTypeOK
<1>4. queue = <<>> \/ Queued(kwork[i].p)
  <2>1. queue # <<>> => 1 \in DOMAIN queue
    BY <1>3
  <2> QED BY <1>2, <2>1 DEF Queued
<1> QED BY <1>1, <1>4 DEF Enumerating

LEMMA ToDefaultHead ==
  ASSUME DemuxInv, kwork # <<>>, NEW w \in Work, w = kwork[1], w.op = "ProcessUrb", w.addr = 0
  PROVE  \E p \in Ports :
           /\ owner[p] = w.to /\ pstate[p] = "default" /\ sess[w.to] = "open"
           /\ At("key1", p) = w.to
           /\ queue = <<p>> /\ Head(queue) = p /\ Tail(queue) = <<>> /\ queue # <<>>
<1> USE SessionFacts
<1>0. /\ DemuxTypeOK /\ AssertionsHold /\ MapInv
      /\ Owners /\ Registering /\ Results /\ Leaving
      /\ OneAtATime /\ Defaults /\ QueueInv /\ DoneInv /\ AddrInv /\ KnownAddr /\ UrbInv
      /\ StatInv /\ UrbWork /\ ToDefault /\ ToAddress /\ CancelInv
      /\ Keyed /\ OutInv /\ OnePlace /\ MailInv /\ BackInv /\ GiveInv
  BY DEF DemuxInv
<1>1. 1 \in DOMAIN kwork /\ Urb(1) /\ kwork[1].addr = 0 /\ DOMAIN kwork \subseteq Nat \ {0}
      /\ w.to \in Session
  BY <1>0, WorkHead, WorkFields DEF Urb
<1>2. PICK p \in Ports : /\ owner[p] = w.to /\ pstate[p] = "default"
                         /\ Queued(p) \/ \E j \in DOMAIN kwork : j < 1 /\ Done(j) /\ kwork[j].p = p
  BY <1>0, <1>1 DEF ToDefault
<1>3. Queued(p)
  BY <1>1, <1>2
<1>4. sess[w.to] = "open"
  BY <1>0, <1>2 DEF Defaults
<1>5. At("key1", p) = w.to
  BY <1>0, <1>1, <1>2, <1>4 DEF Owners
<1>6. queue = <<p>> /\ Head(queue) = p /\ Tail(queue) = <<>>
  BY <1>3, QueueHead
<1>7. queue # <<>>
  BY <1>6
<1> QED BY <1>2, <1>4, <1>5, <1>6, <1>7

(* The Demuxer has not seen the handle of a URB that waits, nor its address. *)
LEMMA FreshHead ==
  ASSUME DemuxInv, kwork # <<>>, NEW w \in Work, w = kwork[1], w.op = "ProcessUrb"
  PROVE  /\ At("key3", w.h) = None /\ w.h \in Handles
         /\ Waits(w.h)
         /\ w.h \in DOMAIN cur => cur[w.h].s = w.to /\ cur[w.h].set = w.set /\ w.h \notin lagging
         /\ \A i \in DOMAIN kwork : Urb(i) /\ kwork[i].h = w.h => i = 1
<1>0. /\ DemuxTypeOK /\ AssertionsHold /\ MapInv
      /\ Owners /\ Registering /\ Results /\ Leaving
      /\ OneAtATime /\ Defaults /\ QueueInv /\ DoneInv /\ AddrInv /\ KnownAddr /\ UrbInv
      /\ StatInv /\ UrbWork /\ ToDefault /\ ToAddress /\ CancelInv
      /\ Keyed /\ OutInv /\ OnePlace /\ MailInv /\ BackInv /\ GiveInv
  BY DEF DemuxInv
<1>1. 1 \in DOMAIN kwork /\ Urb(1) /\ w.h \in Handles
  BY <1>0, WorkHead, WorkFields DEF Urb
<1>2. Waits(w.h)
  BY <1>1 DEF Waits
<1> QED BY <1>0, <1>1, <1>2 DEF Keyed, UrbWork

LEMMA FreshAddress ==
  ASSUME DemuxInv, kwork # <<>>, NEW w \in Work, w = kwork[1], w.op = "ProcessUrb", w.set # 0
  PROVE  /\ w.addr = 0 /\ w.h \in DOMAIN cur /\ w.set \in Addresses
         /\ At("key2", w.set) = None
         /\ \A q \in Ports : addr[q] # w.set
<1> USE SessionFacts
<1>0. /\ DemuxTypeOK /\ AssertionsHold /\ MapInv
      /\ Owners /\ Registering /\ Results /\ Leaving
      /\ OneAtATime /\ Defaults /\ QueueInv /\ DoneInv /\ AddrInv /\ KnownAddr /\ UrbInv
      /\ StatInv /\ UrbWork /\ ToDefault /\ ToAddress /\ CancelInv
      /\ Keyed /\ OutInv /\ OnePlace /\ MailInv /\ BackInv /\ GiveInv
  BY DEF DemuxInv
<1>1. 1 \in DOMAIN kwork /\ Urb(1) /\ w.set \in Addresses /\ w.to \in Session
      /\ DOMAIN kwork \subseteq Nat \ {0}
  BY <1>0, WorkHead, WorkFields DEF Urb
<1>2. w.addr = 0
  BY <1>0, <1>1 DEF ToAddress
<1>3. w.h \in DOMAIN cur
  BY <1>0, <1>1, <1>2 DEF ToDefault
<1>4. cur[w.h].s = w.to /\ cur[w.h].set = w.set /\ Waits(w.h)
      /\ \A i \in DOMAIN kwork : Urb(i) /\ kwork[i].h = w.h => i = 1
  BY <1>3, FreshHead
<1>5. PICK p \in Ports : /\ owner[p] = w.to /\ pstate[p] = "default"
                         /\ \A q \in Ports : addr[q] # w.set
  BY <1>0, <1>3, <1>4 DEF UrbInv
<1>6. p \in Enumerating
  BY <1>5 DEF Enumerating
<1>7. ~Ready(p)
  <2> SUFFICES ASSUME NEW i \in DOMAIN kwork, Done(i), kwork[i].p = p PROVE FALSE
    BY DEF Ready
  <2>1. kwork[i].to = w.to
    BY <1>5, ResetQueue
  <2>2. PICK j \in DOMAIN kwork : j > i /\ Urb(j) /\ kwork[j].h = w.h
    BY <1>0, <1>3, <1>4, <2>1 DEF DoneInv
  <2> QED BY <1>1, <1>4, <2>2
<1>8. \A q \in Ports : Ready(q) => q = p
  <2>1. \A q \in Ports : Ready(q) => q \in Enumerating
    BY ResetQueue DEF Ready
  <2> QED BY <1>0, <1>6, <2>1 DEF OneAtATime
<1>9. \A h \in DOMAIN cur : cur[h].set # 0 => h = w.h
  <2> SUFFICES ASSUME NEW h \in DOMAIN cur, cur[h].set # 0 PROVE h = w.h
    OBVIOUS
  <2>1. PICK q \in Ports : owner[q] = cur[h].s /\ pstate[q] = "default"
    BY <1>0 DEF UrbInv
  <2>2. q = p
    BY <1>0, <1>6, <2>1 DEF OneAtATime, Enumerating
  <2> QED BY <1>0, <1>3, <1>4, <1>5, <2>1, <2>2 DEF Defaults
<1>10. At("key2", w.set) = None
  <2> SUFFICES ASSUME At("key2", w.set) # None PROVE FALSE
    OBVIOUS
  <2>1. PICK q \in Ports :
          \/ addr[q] = w.set \/ Ready(q)
          \/ \E h \in DOMAIN cur : cur[h].s = owner[q] /\ cur[h].set = w.set /\ ~Waits(h)
    BY <1>0, <1>1 DEF KnownAddr
  <2>2. ~Ready(q) /\ addr[q] # w.set
    BY <1>5, <1>7, <1>8
  <2> QED BY <1>4, <1>9, <2>1, <2>2
<1> QED BY <1>1, <1>2, <1>3, <1>5, <1>10

LEMMA StatLinked ==
  ASSUME DemuxInv, kwork # <<>>, NEW w \in Work, w = kwork[1], w.op = "PortStat"
  PROVE  LinkedView(w) /\ Routed(w)
<1> USE SessionFacts
<1>0. /\ DemuxTypeOK /\ AssertionsHold /\ MapInv
      /\ Owners /\ Registering /\ Results /\ Leaving
      /\ OneAtATime /\ Defaults /\ QueueInv /\ DoneInv /\ AddrInv /\ KnownAddr /\ UrbInv
      /\ StatInv /\ UrbWork /\ ToDefault /\ ToAddress /\ CancelInv
      /\ Keyed /\ OutInv /\ OnePlace /\ MailInv /\ BackInv /\ GiveInv
  BY DEF DemuxInv
<1>1. PICK p \in Ports : p = w.p
  BY WorkFields
<1>2. owner[p] = w.to /\ 1 \in DOMAIN kwork /\ w.to \in Session
  BY <1>0, <1>1, WorkHead, WorkFields DEF StatInv
<1>3. At("key1", p) \in {None, w.to}
  BY <1>0, <1>2 DEF Owners
<1>4. /\ ~setAddress(w) /\ ~defaultAddress(w) /\ ~byAddress(w)
      /\ linkedMailer(w) = IF portReset(w) THEN unlink_all_but_key1(mailer, p) ELSE mailer
  BY <1>1 DEF setAddress, defaultAddress, byAddress, linkedMailer
<1>5. Sound(mailer, Keys, Session, Opened) /\ Opened \subseteq Session /\ p \in Keys
      /\ Kind = {"key1", "key2", "key3"}
  BY <1>0 DEF MapInv, Opened, Keys, Kind
<1>6. LinkedView(w)
  <2>1. CASE ~portReset(w)
    BY <1>4, <1>5, <2>1 DEF LinkedView, At
  <2>2. CASE portReset(w)
    <3>1. sess[w.to] = "open"
      BY <1>0, <1>2, <2>2 DEF DoneInv, Done, portReset
    <3>2. At("key1", p) = w.to
      BY <1>0, <1>2, <3>1 DEF Owners
    <3>3. PICK v : v = w.to
      OBVIOUS
    <3>4. Stripped(unlink_all_but_key1(mailer, p), mailer, Keys, Session, Opened, p, v)
      BY <1>2, <1>5, <3>2, <3>3, GetUnlinked DEF At
    <3>5. \A q \in Ports : At("key1", q) = v => q = p
      BY <1>0, <1>2, <3>3 DEF Owners
    <3> QED BY <1>4, <1>5, <2>2, <3>3, <3>4, <3>5 DEF LinkedView, Stripped, At
  <2> QED BY <2>1, <2>2
<1>7. sender(w) = At("key1", p)
  <2>1. sender(w) = get_by_key(linkedMailer(w), "key1", p)
    BY <1>1, <1>4 DEF sender
  <2> QED BY <1>6, <2>1 DEF LinkedView
<1>8. asserted(w) = "run"
  BY <1>4 DEF asserted
<1> QED BY <1>3, <1>6, <1>7, <1>8 DEF Routed

LEMMA CancelLinked ==
  ASSUME DemuxInv, kwork # <<>>, NEW w \in Work, w = kwork[1], w.op = "CancelUrb"
  PROVE  LinkedView(w) /\ Routed(w)
<1> USE SessionFacts
<1>0. /\ DemuxTypeOK /\ AssertionsHold /\ MapInv
      /\ Owners /\ Registering /\ Results /\ Leaving
      /\ OneAtATime /\ Defaults /\ QueueInv /\ DoneInv /\ AddrInv /\ KnownAddr /\ UrbInv
      /\ StatInv /\ UrbWork /\ ToDefault /\ ToAddress /\ CancelInv
      /\ Keyed /\ OutInv /\ OnePlace /\ MailInv /\ BackInv /\ GiveInv
  BY DEF DemuxInv
<1>1. 1 \in DOMAIN kwork /\ Cancels(1) /\ w.h \in Handles /\ DOMAIN kwork \subseteq Nat \ {0}
  BY <1>0, WorkHead, WorkFields DEF Cancels
<1>2. ~setAddress(w) /\ ~defaultAddress(w) /\ ~byAddress(w) /\ ~portReset(w)
  BY DEF setAddress, defaultAddress, byAddress, portReset
<1>3. linkedMailer(w) = remove_by_key(mailer, "key3", w.h)
  BY <1>2 DEF linkedMailer
<1>4. Sound(mailer, Keys, Session, Opened) /\ Opened \subseteq Session /\ w.h \in Keys
      /\ Kind = {"key1", "key2", "key3"}
  BY <1>0, <1>1 DEF MapInv, Opened, Keys, Kind
<1>5. PICK h : h = w.h
  OBVIOUS
<1>6. Put(remove_by_key(mailer, "key3", h), mailer, Keys, Session, Opened, "key3", h, None)
  BY <1>4, <1>5, GetRemoved
<1>7. LinkedView(w)
  BY <1>2, <1>3, <1>4, <1>5, <1>6 DEF LinkedView, Put, At
<1>8. sender(w) = At("key3", w.h) /\ asserted(w) = "run"
  BY <1>2 DEF sender, asserted, At
<1>9. At("key3", w.h) \in {None, w.to}
  BY <1>0, <1>1 DEF CancelInv
<1>10. w.h \in got => At("key3", w.h) = w.to
  <2> SUFFICES ASSUME w.h \in got PROVE At("key3", w.h) = w.to
    OBVIOUS
  <2>1. Out(w.h)
    BY DEF Out
  <2>2. /\ w.h \in DOMAIN cur /\ ~Waits(w.h)
        /\ At("key3", w.h) = cur[w.h].s
    BY <1>0, <1>1, <2>1 DEF OutInv
  <2>3. cur[w.h].s = w.to
    BY <1>0, <1>1, <2>2 DEF CancelInv, Waits
  <2> QED BY <2>2, <2>3
<1> QED BY <1>7, <1>8, <1>9, <1>10 DEF Routed

LEMMA AddressLinked ==
  ASSUME DemuxInv, kwork # <<>>, NEW w \in Work, w = kwork[1], w.op = "ProcessUrb", w.addr # 0
  PROVE  LinkedView(w) /\ Routed(w)
<1> USE SessionFacts
<1>0. /\ DemuxTypeOK /\ AssertionsHold /\ MapInv
      /\ Owners /\ Registering /\ Results /\ Leaving
      /\ OneAtATime /\ Defaults /\ QueueInv /\ DoneInv /\ AddrInv /\ KnownAddr /\ UrbInv
      /\ StatInv /\ UrbWork /\ ToDefault /\ ToAddress /\ CancelInv
      /\ Keyed /\ OutInv /\ OnePlace /\ MailInv /\ BackInv /\ GiveInv
  BY DEF DemuxInv
<1>1. 1 \in DOMAIN kwork /\ Urb(1) /\ w.h \in Handles /\ w.addr \in Addresses
      /\ w.to \in Session
  BY <1>0, WorkHead, WorkFields DEF Urb
<1>2. ~setAddress(w) /\ ~defaultAddress(w) /\ byAddress(w) /\ ~portReset(w)
  BY DEF setAddress, defaultAddress, byAddress, portReset
<1>3. PICK h : h = w.h
  OBVIOUS
<1>4. PICK a : a = w.addr
  OBVIOUS
<1>5. linkedMailer(w) = link_key_to_key(mailer, "key3", h, "key2", a)
  BY <1>2, <1>3, <1>4 DEF linkedMailer
<1>6. Sound(mailer, Keys, Session, Opened) /\ Opened \subseteq Session /\ h \in Keys /\ a \in Keys
      /\ Kind = {"key1", "key2", "key3"}
  BY <1>0, <1>1, <1>3, <1>4 DEF MapInv, Opened, Keys, Kind
<1>7. /\ get_by_key(mailer, "key3", h) = None
      /\ get_by_key(mailer, "key2", a) = w.to
  BY <1>0, <1>1, <1>3, <1>4, FreshHead DEF ToAddress, At
<1>8. PICK v : v = get_by_key(mailer, "key2", a)
  OBVIOUS
<1>9. Put(link_key_to_key(mailer, "key3", h, "key2", a), mailer, Keys, Session, Opened, "key3", h, v)
  BY <1>1, <1>6, <1>7, <1>8, GetLinked
<1>10. link_result(mailer, "key3", h, "key2", a) = "Success"
  BY <1>1, <1>6, <1>7, LinkSucceeds, ZenonT(30)
<1>11. LinkedView(w)
  BY <1>2, <1>3, <1>5, <1>6, <1>7, <1>8, <1>9 DEF LinkedView, Put, At
<1>12. asserted(w) = "run"
  BY <1>2, <1>3, <1>4, <1>10 DEF asserted
<1>13. sender(w) = get_by_key(linkedMailer(w), "key2", a)
  BY <1>2, <1>4 DEF sender
<1>14. sender(w) = w.to
  BY <1>2, <1>4, <1>7, <1>11, <1>13 DEF LinkedView, At
<1> QED BY <1>11, <1>12, <1>14 DEF Routed

LEMMA DefaultLinked ==
  ASSUME DemuxInv, kwork # <<>>, NEW w \in Work, w = kwork[1], w.op = "ProcessUrb", w.addr = 0,
         w.set = 0
  PROVE  LinkedView(w) /\ Routed(w)
<1> USE SessionFacts
<1>0. /\ DemuxTypeOK /\ AssertionsHold /\ MapInv
      /\ Owners /\ Registering /\ Results /\ Leaving
      /\ OneAtATime /\ Defaults /\ QueueInv /\ DoneInv /\ AddrInv /\ KnownAddr /\ UrbInv
      /\ StatInv /\ UrbWork /\ ToDefault /\ ToAddress /\ CancelInv
      /\ Keyed /\ OutInv /\ OnePlace /\ MailInv /\ BackInv /\ GiveInv
  BY DEF DemuxInv
<1>1. w.h \in Handles /\ w.to \in Session
  BY WorkFields
<1>2. PICK p \in Ports : At("key1", p) = w.to /\ Head(queue) = p /\ queue # <<>>
  BY ToDefaultHead
<1>3. ~setAddress(w) /\ defaultAddress(w) /\ ~byAddress(w) /\ ~portReset(w)
  BY <1>2 DEF setAddress, defaultAddress, byAddress, portReset
<1>4. PICK h : h = w.h
  OBVIOUS
<1>5. linkedMailer(w) = link_key_to_key(mailer, "key3", h, "key1", p)
  BY <1>2, <1>3, <1>4 DEF linkedMailer
<1>6. Sound(mailer, Keys, Session, Opened) /\ Opened \subseteq Session /\ h \in Keys /\ p \in Keys
      /\ Kind = {"key1", "key2", "key3"}
  BY <1>0, <1>1, <1>4 DEF MapInv, Opened, Keys, Kind
<1>7. /\ get_by_key(mailer, "key3", h) = None
      /\ get_by_key(mailer, "key1", p) = w.to
  BY <1>2, <1>4, FreshHead DEF At
<1>8. PICK v : v = get_by_key(mailer, "key1", p)
  OBVIOUS
<1>9. Put(link_key_to_key(mailer, "key3", h, "key1", p), mailer, Keys, Session, Opened, "key3", h, v)
  BY <1>1, <1>6, <1>7, <1>8, GetLinked
<1>10. link_result(mailer, "key3", h, "key1", p) = "Success"
  BY <1>1, <1>6, <1>7, LinkSucceeds, ZenonT(30)
<1>11. LinkedView(w)
  BY <1>3, <1>4, <1>5, <1>6, <1>7, <1>8, <1>9 DEF LinkedView, Put, At
<1>12. asserted(w) = "run"
  BY <1>2, <1>3, <1>4, <1>10 DEF asserted
<1>13. sender(w) = get_by_key(linkedMailer(w), "key1", p)
  BY <1>2, <1>3 DEF sender
<1>14. sender(w) = w.to
  BY <1>2, <1>11, <1>13 DEF LinkedView
<1> QED BY <1>11, <1>12, <1>14 DEF Routed

LEMMA SetAddressLinked ==
  ASSUME DemuxInv, kwork # <<>>, NEW w \in Work, w = kwork[1], w.op = "ProcessUrb", w.set # 0
  PROVE  LinkedView(w) /\ Routed(w)
<1> USE SessionFacts
<1>0. /\ DemuxTypeOK /\ AssertionsHold /\ MapInv
      /\ Owners /\ Registering /\ Results /\ Leaving
      /\ OneAtATime /\ Defaults /\ QueueInv /\ DoneInv /\ AddrInv /\ KnownAddr /\ UrbInv
      /\ StatInv /\ UrbWork /\ ToDefault /\ ToAddress /\ CancelInv
      /\ Keyed /\ OutInv /\ OnePlace /\ MailInv /\ BackInv /\ GiveInv
  BY DEF DemuxInv
<1>1. /\ w.h \in Handles /\ w.to \in Session /\ w.addr = 0 /\ w.set \in Addresses
      /\ At("key2", w.set) = None
  BY WorkFields, FreshAddress
<1>2. PICK p \in Ports : At("key1", p) = w.to /\ Head(queue) = p /\ queue # <<>>
  BY <1>1, ToDefaultHead
<1>3. setAddress(w) /\ ~defaultAddress(w) /\ ~byAddress(w) /\ ~portReset(w)
  BY <1>1, <1>2 DEF setAddress, defaultAddress, byAddress, portReset
<1>4. PICK h : h = w.h
  OBVIOUS
<1>5. PICK a : a = w.set
  OBVIOUS
<1>6. Sound(mailer, Keys, Session, Opened) /\ Opened \subseteq Session
      /\ h \in Keys /\ p \in Keys /\ a \in Keys /\ Kind = {"key1", "key2", "key3"}
  BY <1>0, <1>1, <1>4, <1>5 DEF MapInv, Opened, Keys, Kind
<1>7. /\ get_by_key(mailer, "key3", h) = None
      /\ get_by_key(mailer, "key1", p) = w.to
      /\ get_by_key(mailer, "key2", a) = None
      /\ get_by_key(mailer, "key2", 0) = None
  BY <1>0, <1>1, <1>2, <1>4, <1>5, FreshHead DEF KnownAddr, At
<1>8. remove_by_key(mailer, "key2", 0) = mailer
  <2>1. ~contains_key(mailer, "key2", 0)
    <3>1. "key2" \in Kind /\ At("key2", 0) = None
      BY <1>6, <1>7 DEF At
    <3> QED BY <1>0, <3>1, AtFacts
  <2> QED BY <2>1, NotRemoved
<1>9. addressed(w) = link_key_to_key(mailer, "key2", a, "key1", p)
  BY <1>2, <1>5, <1>8 DEF addressed
<1>10. PICK m : m = addressed(w)
  OBVIOUS
<1>11. PICK v \in Session : v = get_by_key(mailer, "key1", p)
  BY <1>1, <1>7
<1>12. Put(link_key_to_key(mailer, "key2", a, "key1", p), mailer, Keys, Session, Opened, "key2", a, v)
  BY <1>6, <1>7, <1>11, GetLinked
<1>13. /\ Sound(m, Keys, Session, Opened)
       /\ \A o \in Kind : \A x :
            get_by_key(m, o, x) = IF o = "key2" /\ x = a THEN v ELSE get_by_key(mailer, o, x)
  BY <1>9, <1>10, <1>12 DEF Put
<1>14. get_by_key(m, "key3", h) = None /\ get_by_key(m, "key1", p) = v
  BY <1>6, <1>7, <1>11, <1>13
<1>15. Put(link_key_to_key(m, "key3", h, "key1", p), m, Keys, Session, Opened, "key3", h,
           get_by_key(m, "key1", p))
  BY <1>6, <1>13, <1>14, GetLinked
<1>16. link_result(mailer, "key3", h, "key1", p) = "Success"
  BY <1>6, <1>7, <1>11, LinkSucceeds, ZenonT(30)
<1>17. linkedMailer(w) = link_key_to_key(m, "key3", h, "key1", p)
  BY <1>2, <1>3, <1>4, <1>10 DEF linkedMailer
<1>18. v = w.to
  BY <1>7, <1>11
<1>19. LinkedView(w)
  BY <1>3, <1>4, <1>5, <1>6, <1>13, <1>14, <1>15, <1>17, <1>18 DEF LinkedView, Put, At
<1>20. asserted(w) = "run"
  BY <1>2, <1>3, <1>4, <1>16 DEF asserted
<1>21. sender(w) = get_by_key(linkedMailer(w), "key1", p)
  BY <1>2, <1>3 DEF sender
<1>22. sender(w) = w.to
  BY <1>2, <1>19, <1>21 DEF LinkedView
<1> QED BY <1>19, <1>20, <1>22 DEF Routed

(* The next work item goes to its session or nowhere, and no assertion fails. *)
LEMMA HeadLinked ==
  ASSUME DemuxInv, kwork # <<>>, NEW w \in Work, w = kwork[1]
  PROVE  LinkedView(w) /\ Routed(w)
<1>1. w.op \in {"PortStat", "ProcessUrb", "CancelUrb"}
  BY WorkFields
<1>2. CASE w.op = "ProcessUrb" /\ w.addr # 0
  BY <1>2, AddressLinked
<1>3. CASE w.op = "ProcessUrb" /\ w.addr = 0 /\ w.set = 0
  BY <1>3, DefaultLinked
<1>4. CASE w.op = "ProcessUrb" /\ w.set # 0
  BY <1>4, SetAddressLinked
<1> QED BY <1>1, <1>2, <1>3, <1>4, StatLinked, CancelLinked

(* What the step does: u is the session whose addresses and handles are dropped
   because its port was reset, if there is one. *)
Shifted ==
  /\ kwork' \in Seq(Work)
  /\ DOMAIN kwork \subseteq Nat \ {0} /\ DOMAIN kwork' \subseteq Nat \ {0} /\ 1 \in DOMAIN kwork
  /\ \A i \in DOMAIN kwork' : i + 1 \in DOMAIN kwork /\ kwork'[i] = kwork[i + 1]
  /\ \A i \in DOMAIN kwork : i = 1 \/ (i - 1 \in DOMAIN kwork' /\ kwork'[i - 1] = kwork[i])
Relinked(w, u) ==
  /\ \A p \in Ports : At("key1", p)' = At("key1", p)
  /\ \A a : At("key2", a)' = IF w.op = "ProcessUrb" /\ w.set # 0 /\ a = w.set THEN w.to
                             ELSE IF At("key2", a) = u THEN None ELSE At("key2", a)
  /\ \A h : At("key3", h)' = IF w.op = "ProcessUrb" /\ h = w.h THEN w.to
                             ELSE IF w.op = "CancelUrb" /\ h = w.h THEN None
                             ELSE IF At("key3", h) = u THEN None ELSE At("key3", h)
Sent(w) ==
  \/ mail' = mail /\ held' = <<>>
  \/ /\ sess[w.to] = "open" /\ mail[w.to] = <<>>
     /\ mail' = [mail EXCEPT ![w.to] = <<w>>] /\ held' = <<>>
  \/ sess[w.to] = "open" /\ mail' = mail /\ held' = <<[s |-> w.to, w |-> w]>>

LEMMA EventWorkShifts ==
  ASSUME DemuxInv, EventWork
  PROVE  /\ UNCHANGED <<pstate, addr, owner, cur, unlinked, nUrbs, nResets, nSession, got,
                        lagging, sess, regs, gives, drops, bq, ctrl>>
         /\ held = <<>> /\ kwork # <<>> /\ kwork[1] \in Work /\ Shifted
         /\ mailer' = linkedMailer(kwork[1]) /\ queue' = queueAfter(kwork[1])
<1>0. /\ DemuxTypeOK /\ AssertionsHold /\ MapInv
      /\ Owners /\ Registering /\ Results /\ Leaving
      /\ OneAtATime /\ Defaults /\ QueueInv /\ DoneInv /\ AddrInv /\ KnownAddr /\ UrbInv
      /\ StatInv /\ UrbWork /\ ToDefault /\ ToAddress /\ CancelInv
      /\ Keyed /\ OutInv /\ OnePlace /\ MailInv /\ BackInv /\ GiveInv
  BY DEF DemuxInv
<1>1. kwork # <<>> /\ kwork' = Tail(kwork) /\ kwork \in Seq(Work) /\ Head(kwork) = kwork[1]
  BY <1>0, WorkHead, TypeFacts DEF EventWork
<1>2. Shifted /\ kwork[1] \in Work
  BY <1>1, TailFacts DEF Shifted
<1> QED BY <1>1, <1>2 DEF EventWork, eventKeeps, Running

LEMMA EventWorkSends ==
  ASSUME DemuxInv, EventWork, NEW w \in Work, w = kwork[1]
  PROVE  demux' = "run" /\ Sent(w)
<1>0. /\ DemuxTypeOK /\ AssertionsHold /\ MapInv
      /\ Owners /\ Registering /\ Results /\ Leaving
      /\ OneAtATime /\ Defaults /\ QueueInv /\ DoneInv /\ AddrInv /\ KnownAddr /\ UrbInv
      /\ StatInv /\ UrbWork /\ ToDefault /\ ToAddress /\ CancelInv
      /\ Keyed /\ OutInv /\ OnePlace /\ MailInv /\ BackInv /\ GiveInv
  BY DEF DemuxInv
<1>1. kwork # <<>> /\ Head(kwork) = w
  BY <1>0, WorkHead DEF EventWork
<1>2. Routed(w)
  BY <1>1, HeadLinked
<1>3. PICK tx : tx = sender(w)
  OBVIOUS
<1>4. tx \in {None, w.to} /\ asserted(w) = "run"
  BY <1>2, <1>3 DEF Routed
<1>5. PICK send \in BOOLEAN : send = (tx # None /\ sess[tx] = "open")
  OBVIOUS
<1>6. /\ demux' = "run"
      /\ mail' = IF send /\ mail[tx] = <<>> THEN [mail EXCEPT ![tx] = <<w>>] ELSE mail
      /\ held' = IF send /\ mail[tx] # <<>> THEN <<[s |-> tx, w |-> w]>> ELSE <<>>
  BY <1>1, <1>3, <1>4, <1>5 DEF EventWork
<1>7. CASE ~send
  BY <1>6, <1>7 DEF Sent
<1>8. CASE send
  <2>1. tx = w.to /\ sess[w.to] = "open"
    BY <1>4, <1>5, <1>8
  <2> QED BY <1>6, <1>8, <2>1 DEF Sent
<1> QED BY <1>6, <1>7, <1>8

LEMMA EventWorkLinks ==
  ASSUME DemuxInv, EventWork, NEW w \in Work, w = kwork[1]
  PROVE  /\ Sound(mailer', Keys, Session, Opened)
         /\ Relinked(w, IF portReset(w) THEN w.to ELSE None)
<1> USE SessionFacts
<1>1. mailer' = linkedMailer(w) /\ kwork # <<>>
  BY EventWorkShifts
<1>2. LinkedView(w)
  BY <1>1, HeadLinked
<1>3. setAddress(w) <=> w.op = "ProcessUrb" /\ w.set # 0
  <2>1. w.op = "ProcessUrb" /\ w.set # 0 => w.addr = 0 /\ queue # <<>>
    BY <1>1, FreshAddress, ToDefaultHead
  <2> QED BY <2>1 DEF setAddress
<1>4. PICK u : u = IF portReset(w) THEN w.to ELSE None
  OBVIOUS
<1>5. PICK m : m = linkedMailer(w)
  OBVIOUS
<1>6. /\ \A p \in Ports : get_by_key(m, "key1", p) = At("key1", p)
      /\ \A a : get_by_key(m, "key2", a) =
           IF w.op = "ProcessUrb" /\ w.set # 0 /\ a = w.set THEN w.to
           ELSE IF At("key2", a) = u THEN None ELSE At("key2", a)
      /\ \A h : get_by_key(m, "key3", h) =
           IF w.op = "ProcessUrb" /\ h = w.h THEN w.to
           ELSE IF w.op = "CancelUrb" /\ h = w.h THEN None
           ELSE IF At("key3", h) = u THEN None ELSE At("key3", h)
  BY <1>2, <1>3, <1>4, <1>5 DEF LinkedView
<1>7. Relinked(w, u)
  BY <1>1, <1>5, <1>6 DEF Relinked, At
<1>8. Sound(mailer', Keys, Session, Opened)
  BY <1>1, <1>2 DEF LinkedView
<1> QED BY <1>4, <1>7, <1>8

(* Who waits at the default address after the step. *)
LEMMA EventWorkQueues ==
  ASSUME DemuxInv, EventWork, NEW w \in Work, w = kwork[1]
  PROVE  /\ queue' \in Seq(Ports) /\ Len(queue') <= 1
         /\ \A p : Queued(p)' <=> \/ Queued(p) /\ ~(w.op = "ProcessUrb" /\ w.set # 0)
                                  \/ portReset(w) /\ p = w.p
         /\ portReset(w) => queue = <<>>
         /\ Done(1) => Queued(w.p)'
<1>1. queue' = queueAfter(w) /\ kwork # <<>> /\ 1 \in DOMAIN kwork
  BY EventWorkShifts DEF Shifted
<1>2. queue \in Seq(Ports) /\ Len(queue) <= 1
  BY DEF DemuxInv, DemuxTypeOK, QueueInv
<1>3. w.op = "PortStat" => w.p \in Ports
  BY WorkFields
<1>4. Done(1) => queue = <<>> \/ Queued(w.p)
  BY <1>1, ResetQueue
<1>5. CASE portReset(w)
  <2>1. queue = <<>> /\ w.op = "PortStat"
    BY <1>4, <1>5 DEF portReset, Done, Queued
  <2>2. PICK p \in Ports : p = w.p
    BY <1>3, <2>1
  <2>3. queue' = <<p>>
    BY <1>1, <1>5, <2>1, <2>2 DEF queueAfter
  <2> QED BY <1>5, <2>1, <2>2, <2>3 DEF Queued
<1>6. CASE w.op = "ProcessUrb" /\ w.set # 0
  <2>1. queue' = <<>>
    <3>1. w.addr = 0
      BY <1>1, <1>6, FreshAddress
    <3>2. Tail(queue) = <<>> /\ queue # <<>>
      BY <1>1, <1>6, <3>1, ToDefaultHead
    <3>3. setAddress(w) /\ ~portReset(w)
      BY <1>6, <3>1, <3>2 DEF setAddress, portReset
    <3> QED BY <1>1, <3>2, <3>3 DEF queueAfter
  <2> QED BY <1>6, <2>1 DEF Queued, portReset, Done
<1>7. CASE ~portReset(w) /\ ~(w.op = "ProcessUrb" /\ w.set # 0)
  <2>1. queue' = queue
    BY <1>1, <1>7 DEF queueAfter, setAddress
  <2>2. Done(1) => Queued(w.p)
    BY <1>7 DEF portReset, Done, Queued
  <2> QED BY <1>2, <1>7, <2>1, <2>2 DEF Queued
<1> QED BY <1>5, <1>6, <1>7

(* The items that wait have moved up by one. *)
LEMMA ShiftedItems ==
  ASSUME DemuxInv, Shifted, NEW w \in Work, w = kwork[1]
  PROVE  /\ \A i \in DOMAIN kwork' : /\ Urb(i)' <=> Urb(i + 1)
                                     /\ Cancels(i)' <=> Cancels(i + 1)
                                     /\ Done(i)' <=> Done(i + 1)
         /\ \A h : Waits(h)' <=> Waits(h) /\ ~(w.op = "ProcessUrb" /\ h = w.h)
         /\ \A p : Ready(p) => Ready(p)' \/ (Done(1) /\ p = w.p)
         /\ \A p : Ready(p)' => Ready(p)
<1>1. \A i \in DOMAIN kwork' : /\ Urb(i)' <=> Urb(i + 1)
                               /\ Cancels(i)' <=> Cancels(i + 1)
                               /\ Done(i)' <=> Done(i + 1)
  BY DEF Shifted, Urb, Cancels, Done
<1>2. \A i \in DOMAIN kwork : i # 1 => /\ i - 1 \in DOMAIN kwork' /\ kwork'[i - 1] = kwork[i]
                                       /\ Urb(i - 1)' <=> Urb(i)
                                       /\ Done(i - 1)' <=> Done(i)
  BY DEF Shifted, Urb, Done
<1>3. \A i \in DOMAIN kwork' : i + 1 \in DOMAIN kwork /\ i + 1 # 1 /\ kwork'[i] = kwork[i + 1]
  BY DEF Shifted
<1>4. w.op = "ProcessUrb" => (\A i \in DOMAIN kwork : Urb(i) /\ kwork[i].h = w.h => i = 1)
  <2>1. kwork # <<>>
    BY DEF Shifted
  <2> QED BY <2>1, FreshHead
<1>5. \A h : Waits(h)' => Waits(h) /\ ~(w.op = "ProcessUrb" /\ h = w.h)
  BY <1>1, <1>3, <1>4 DEF Waits
<1>6. \A h : Waits(h) /\ ~(w.op = "ProcessUrb" /\ h = w.h) => Waits(h)'
  <2> SUFFICES ASSUME NEW h, NEW i \in DOMAIN kwork, Urb(i), kwork[i].h = h,
                      ~(w.op = "ProcessUrb" /\ h = w.h)
               PROVE  Waits(h)'
    BY DEF Waits
  <2>1. i # 1
    BY DEF Urb
  <2> QED BY <1>2, <2>1 DEF Waits
<1>7. \A p : Ready(p) => Ready(p)' \/ (Done(1) /\ p = w.p)
  <2> SUFFICES ASSUME NEW p, NEW i \in DOMAIN kwork, Done(i), kwork[i].p = p, ~(Done(1) /\ p = w.p)
               PROVE  Ready(p)'
    BY DEF Ready
  <2> QED BY <1>2 DEF Ready
<1>8. \A p : Ready(p)' => Ready(p)
  BY <1>1, <1>3 DEF Ready
<1> QED BY <1>1, <1>5, <1>6, <1>7, <1>8

(* A session whose port was reset has nothing in progress that is older. *)
LEMMA ResetSession ==
  ASSUME DemuxInv, kwork # <<>>, NEW w \in Work, w = kwork[1], portReset(w)
  PROVE  /\ w.op = "PortStat" /\ Done(1) /\ w.p \in Ports /\ w.p \in Enumerating
         /\ owner[w.p] = w.to /\ sess[w.to] = "open"
         /\ \A q \in Ports : owner[q] = w.to => q = w.p
         /\ \A h \in DOMAIN cur : cur[h].s = w.to => Waits(h)
<1>0. /\ DemuxTypeOK /\ AssertionsHold /\ MapInv
      /\ Owners /\ Registering /\ Results /\ Leaving
      /\ OneAtATime /\ Defaults /\ QueueInv /\ DoneInv /\ AddrInv /\ KnownAddr /\ UrbInv
      /\ StatInv /\ UrbWork /\ ToDefault /\ ToAddress /\ CancelInv
      /\ Keyed /\ OutInv /\ OnePlace /\ MailInv /\ BackInv /\ GiveInv
  BY DEF DemuxInv
<1>1. w.op = "PortStat" /\ Done(1) /\ 1 \in DOMAIN kwork /\ w.to \in Session
  BY <1>0, WorkHead, WorkFields DEF portReset, Done
<1>2. w.p \in Enumerating /\ w.p \in Ports /\ owner[w.p] = w.to /\ sess[w.to] = "open"
  BY <1>1, ResetQueue
<1>3. \A h \in DOMAIN cur : cur[h].s = w.to => Waits(h)
  BY <1>0, <1>1 DEF DoneInv, Waits
<1>4. \A q \in Ports : owner[q] = w.to => q = w.p
  BY <1>0, <1>1, <1>2, PortFacts
<1> QED BY <1>1, <1>2, <1>3, <1>4

LEMMA SetAddressSession ==
  ASSUME DemuxInv, kwork # <<>>, NEW w \in Work, w = kwork[1], w.op = "ProcessUrb", w.set # 0
  PROVE  /\ w.h \in DOMAIN cur /\ cur[w.h].s = w.to /\ cur[w.h].set = w.set
         /\ \A q \in Ports : addr[q] # w.set
         /\ \E p \in Ports : /\ owner[p] = w.to /\ pstate[p] = "default" /\ At("key1", p) = w.to
                             /\ \A q : Queued(q) => q = p
         /\ \A h \in DOMAIN cur : cur[h].s = w.to \/ cur[h].set # 0 => h = w.h
<1>0. /\ DemuxTypeOK /\ AssertionsHold /\ MapInv
      /\ Owners /\ Registering /\ Results /\ Leaving
      /\ OneAtATime /\ Defaults /\ QueueInv /\ DoneInv /\ AddrInv /\ KnownAddr /\ UrbInv
      /\ StatInv /\ UrbWork /\ ToDefault /\ ToAddress /\ CancelInv
      /\ Keyed /\ OutInv /\ OnePlace /\ MailInv /\ BackInv /\ GiveInv
  BY DEF DemuxInv
<1>1. w.addr = 0 /\ w.h \in DOMAIN cur /\ \A q \in Ports : addr[q] # w.set
  BY FreshAddress
<1>2. cur[w.h].s = w.to /\ cur[w.h].set = w.set
  BY <1>1, FreshHead
<1>3. PICK p \in Ports : /\ owner[p] = w.to /\ pstate[p] = "default" /\ At("key1", p) = w.to
                         /\ queue = <<p>>
  BY <1>1, ToDefaultHead
<1>4. \A q : Queued(q) => q = p
  BY <1>3 DEF Queued
<1>5. \A h \in DOMAIN cur : cur[h].s = w.to => h = w.h
  BY <1>0, <1>1, <1>2, <1>3 DEF Defaults
<1>6. \A h \in DOMAIN cur : cur[h].set # 0 => cur[h].s = w.to
  <2> SUFFICES ASSUME NEW h \in DOMAIN cur, cur[h].set # 0 PROVE cur[h].s = w.to
    OBVIOUS
  <2>1. PICK q \in Ports : owner[q] = cur[h].s /\ pstate[q] = "default"
    BY <1>0 DEF UrbInv
  <2>2. q = p
    BY <1>0, <1>3, <2>1 DEF OneAtATime, Enumerating
  <2> QED BY <1>3, <2>1, <2>2
<1> QED BY <1>1, <1>2, <1>3, <1>4, <1>5, <1>6

(* A URB for a session that is open is in progress. *)
LEMMA OpenUrb ==
  ASSUME DemuxInv, kwork # <<>>, NEW w \in Work, w = kwork[1], w.op = "ProcessUrb",
         sess[w.to] = "open"
  PROVE  w.h \in DOMAIN cur
<1>0. /\ DemuxTypeOK /\ AssertionsHold /\ MapInv
      /\ Owners /\ Registering /\ Results /\ Leaving
      /\ OneAtATime /\ Defaults /\ QueueInv /\ DoneInv /\ AddrInv /\ KnownAddr /\ UrbInv
      /\ StatInv /\ UrbWork /\ ToDefault /\ ToAddress /\ CancelInv
      /\ Keyed /\ OutInv /\ OnePlace /\ MailInv /\ BackInv /\ GiveInv
  BY DEF DemuxInv
<1>1. 1 \in DOMAIN kwork /\ Urb(1)
  BY <1>0, WorkHead DEF Urb
<1>2. CASE w.addr = 0
  BY <1>0, <1>1, <1>2 DEF ToDefault
<1>3. CASE w.addr # 0
  <2>1. PICK p \in Ports : owner[p] = w.to /\ (pstate[p] = "retired" \/ w.h \in DOMAIN cur)
    BY <1>0, <1>1, <1>3 DEF ToAddress
  <2>2. pstate[p] # "retired"
    BY <1>0, <2>1 DEF Owners
  <2> QED BY <2>1, <2>2
<1> QED BY <1>2, <1>3

LEMMA EventWorkKeeps ==
  ASSUME DemuxInv, Overlap = {}, EventWork
  PROVE  DemuxInv'
<1> USE SessionFacts
<1>0. /\ DemuxTypeOK /\ AssertionsHold /\ MapInv
      /\ Owners /\ Registering /\ Results /\ Leaving
      /\ OneAtATime /\ Defaults /\ QueueInv /\ DoneInv /\ AddrInv /\ KnownAddr /\ UrbInv
      /\ StatInv /\ UrbWork /\ ToDefault /\ ToAddress /\ CancelInv
      /\ Keyed /\ OutInv /\ OnePlace /\ MailInv /\ BackInv /\ GiveInv
  BY DEF DemuxInv
<1>1. /\ UNCHANGED <<pstate, addr, owner, cur, unlinked, nUrbs, nResets, nSession, got,
                     lagging, sess, regs, gives, drops, bq, ctrl>>
      /\ held = <<>> /\ kwork # <<>> /\ Shifted
  BY EventWorkShifts
<1>2. PICK w \in Work : w = kwork[1]
  BY EventWorkShifts
<1>3. PICK s \in Session : s = w.to
  BY WorkFields
<1>4. PICK u : u = IF portReset(w) THEN w.to ELSE None
  OBVIOUS
<1>5. /\ demux' = "run" /\ Sent(w) /\ Sound(mailer', Keys, Session, Opened) /\ Relinked(w, u)
      /\ \A i \in DOMAIN kwork' : /\ Urb(i)' <=> Urb(i + 1)
                                  /\ Cancels(i)' <=> Cancels(i + 1)
                                  /\ Done(i)' <=> Done(i + 1)
  BY <1>1, <1>2, <1>4, EventWorkSends, EventWorkLinks, ShiftedItems
<1>6. /\ kwork' \in Seq(Work) /\ 1 \in DOMAIN kwork
      /\ \A i \in DOMAIN kwork' : i + 1 \in DOMAIN kwork /\ i + 1 # 1 /\ kwork'[i] = kwork[i + 1]
      /\ \A i \in DOMAIN kwork' : \A j \in DOMAIN kwork' : i + 1 = j + 1 => i = j
      /\ \A i \in DOMAIN kwork' : \A j \in DOMAIN kwork :
           j > i + 1 => j - 1 \in DOMAIN kwork' /\ j - 1 > i /\ kwork'[j - 1] = kwork[j]
      /\ \A i \in DOMAIN kwork' : \A j \in DOMAIN kwork :
           j < i + 1 => j = 1 \/ (j - 1 \in DOMAIN kwork' /\ j - 1 < i /\ kwork'[j - 1] = kwork[j])
  BY <1>1 DEF Shifted
<1>7. /\ \A h : Waits(h)' <=> Waits(h) /\ ~(w.op = "ProcessUrb" /\ h = w.h)
      /\ \A p : Ready(p) => Ready(p)' \/ (Done(1) /\ p = w.p)
      /\ Done(1) => Ready(w.p)
  <2>1. Done(1) => Ready(w.p)
    BY <1>2, <1>6 DEF Ready
  <2> QED BY <1>1, <1>2, <2>1, ShiftedItems
<1>8. /\ queue' \in Seq(Ports) /\ Len(queue') <= 1
      /\ \A p : Queued(p)' <=> \/ Queued(p) /\ ~(w.op = "ProcessUrb" /\ w.set # 0)
                               \/ u # None /\ p = w.p
      /\ Done(1) => Queued(w.p)'
  BY <1>2, <1>3, <1>4, EventWorkQueues
<1>9. u # None =>
        /\ w.op = "PortStat" /\ u = s /\ Done(1)
        /\ w.p \in Ports /\ w.p \in Enumerating /\ owner[w.p] = s /\ sess[s] = "open"
        /\ \A q \in Ports : owner[q] = s => q = w.p
        /\ \A h \in DOMAIN cur : cur[h].s = s => Waits(h)
  BY <1>1, <1>2, <1>3, <1>4, ResetSession
<1>10. Done(1) /\ u = None => Queued(w.p)
  BY <1>2, <1>3, <1>4 DEF portReset, Done, Queued
<1>11. w.op = "ProcessUrb" /\ w.set # 0 =>
         /\ w.h \in DOMAIN cur /\ cur[w.h].s = s /\ cur[w.h].set = w.set
         /\ \A q \in Ports : addr[q] # w.set
         /\ \E p \in Ports : /\ owner[p] = s /\ pstate[p] = "default" /\ At("key1", p) = s
                             /\ \A q : Queued(q) => q = p
         /\ \A h \in DOMAIN cur : cur[h].s = s \/ cur[h].set # 0 => h = w.h
  BY <1>1, <1>2, <1>3, SetAddressSession
<1>12. w.op = "ProcessUrb" =>
         /\ Urb(1) /\ At("key3", w.h) = None /\ w.h \in Handles /\ Waits(w.h)
         /\ w.h \in DOMAIN cur => cur[w.h].s = s /\ cur[w.h].set = w.set /\ w.h \notin lagging
         /\ \A i \in DOMAIN kwork : Urb(i) /\ kwork[i].h = w.h => i = 1
  BY <1>1, <1>2, <1>3, FreshHead DEF Urb
<1>13. /\ \A p \in Ports : At("key1", p)' = At("key1", p)
       /\ \A a : At("key2", a)' = IF w.op = "ProcessUrb" /\ w.set # 0 /\ a = w.set THEN s
                                  ELSE IF At("key2", a) = u THEN None ELSE At("key2", a)
       /\ \A h : At("key3", h)' = IF w.op = "ProcessUrb" /\ h = w.h THEN s
                                  ELSE IF w.op = "CancelUrb" /\ h = w.h THEN None
                                  ELSE IF At("key3", h) = u THEN None ELSE At("key3", h)
  BY <1>3, <1>5 DEF Relinked
<1>14. MapInv'
  BY <1>1, <1>5 DEF MapInv, Opened
<1>15. Registering' /\ OneAtATime'
  BY <1>0, <1>1, FrRegistering, FrOneAtATime
<1>16. Owners'
  BY <1>0, <1>1, <1>13 DEF Owners, Serves
<1>17. Results'
  <2>1. PICK c : c = ctrl
    OBVIOUS
  <2>2. \A i \in DOMAIN c : c[i].op = "register" =>
          c[i].port \in Ports /\ At("key1", c[i].port) = None
    BY <1>0, <2>1, StreamFacts DEF Results
  <2>3. \A i \in DOMAIN c : c[i].op = "register" => At("key1", c[i].port)' = None
    BY <1>13, <2>2
  <2> QED BY <1>0, <1>1, <2>1, <2>3 DEF Results, Unowned
<1>18. Leaving'
  BY <1>0, <1>1, <1>13 DEF Leaving, Leaves, Serves
<1>19. Defaults'
  <2> SUFFICES ASSUME NEW p \in Ports, pstate[p] = "default"
               PROVE  \/ Queued(p)' \/ Ready(p)'
                      \/ \E h \in DOMAIN cur : cur[h].s = owner[p] /\ cur[h].set # 0
    BY <1>0, <1>1 DEF Defaults
  <2>1. CASE Queued(p)
    BY <1>8, <1>11, <2>1
  <2>2. CASE Ready(p)
    BY <1>7, <1>8, <2>2
  <2> QED BY <1>0, <2>1, <2>2 DEF Defaults
<1>20. QueueInv'
  <2>1. ASSUME NEW p, Queued(p)'
        PROVE  /\ p \in Enumerating /\ sess[owner[p]] = "open"
               /\ \A a \in Addresses : At("key2", a)' # owner[p]
               /\ \A h \in DOMAIN cur : cur[h].s = owner[p] /\ cur[h].set # 0 => Waits(h)'
    <3>1. CASE u # None /\ p = w.p
      BY <1>7, <1>9, <1>13, <3>1
    <3>2. CASE Queued(p) /\ ~(w.op = "ProcessUrb" /\ w.set # 0)
      <4>1. /\ p \in Enumerating /\ sess[owner[p]] = "open" /\ owner[p] # None
            /\ \A a \in Addresses : At("key2", a) # owner[p]
            /\ \A h \in DOMAIN cur : cur[h].s = owner[p] /\ cur[h].set # 0 => Waits(h)
        BY <1>0, <3>2 DEF QueueInv, Queued, Owners, Enumerating
      <4>2. \A a \in Addresses : At("key2", a)' # owner[p]
        BY <1>13, <3>2, <4>1
      <4>3. \A h \in DOMAIN cur : cur[h].set # 0 /\ Waits(h) => Waits(h)'
        BY <1>7, <1>12, <3>2
      <4> QED BY <4>1, <4>2, <4>3
    <3> QED BY <1>8, <2>1, <3>1, <3>2
  <2>2. PICK q : q = queue'
    OBVIOUS
  <2>3. \A i \in DOMAIN q :
          /\ q[i] \in Enumerating /\ sess[owner[q[i]]] = "open"
          /\ \A a \in Addresses : At("key2", a)' # owner[q[i]]
          /\ \A h \in DOMAIN cur : cur[h].s = owner[q[i]] /\ cur[h].set # 0 => Waits(h)'
    <3> SUFFICES ASSUME NEW i \in DOMAIN q
                 PROVE  Queued(q[i])'
      BY <2>1
    <3> QED BY <2>2 DEF Queued
  <2> QED BY <1>1, <1>8, <2>2, <2>3 DEF QueueInv, Enumerating
<1>21. DoneInv'
  <2> SUFFICES ASSUME NEW i \in DOMAIN kwork', Done(i)'
               PROVE  /\ kwork'[i].p \in Enumerating /\ sess[kwork'[i].to] = "open"
                      /\ \A h \in DOMAIN cur : cur[h].s = kwork'[i].to =>
                           \E j \in DOMAIN kwork' : j > i /\ Urb(j)' /\ kwork'[j].h = h
    BY <1>1 DEF DoneInv, Enumerating
  <2>1. /\ i + 1 \in DOMAIN kwork /\ Done(i + 1) /\ kwork'[i] = kwork[i + 1]
    BY <1>5, <1>6
  <2>2. ASSUME NEW h \in DOMAIN cur, cur[h].s = kwork'[i].to
        PROVE  \E j \in DOMAIN kwork' : j > i /\ Urb(j)' /\ kwork'[j].h = h
    <3>1. PICK j \in DOMAIN kwork : j > i + 1 /\ Urb(j) /\ kwork[j].h = h
      BY <1>0, <2>1, <2>2 DEF DoneInv
    <3>2. j - 1 \in DOMAIN kwork' /\ j - 1 > i /\ kwork'[j - 1] = kwork[j]
      BY <1>6, <3>1
    <3>3. Urb(j - 1)'
      BY <3>1, <3>2 DEF Urb
    <3> QED BY <3>1, <3>2, <3>3
  <2> QED BY <1>0, <2>1, <2>2 DEF DoneInv
<1>22. AddrInv'
  <2>1. ASSUME NEW p \in Ports, pstate[p] = "addressed"
        PROVE  At("key2", addr[p])' = owner[p]
    <3>a. PICK a : a = addr[p]
      OBVIOUS
    <3>1. At("key2", a) = owner[p] /\ owner[p] # None
      BY <1>0, <2>1, <3>a DEF AddrInv, Owners
    <3>2. ~(w.op = "ProcessUrb" /\ w.set # 0 /\ a = w.set)
      BY <1>11, <3>a
    <3>3. owner[p] # u
      BY <1>9, <2>1, <3>1 DEF Enumerating
    <3>4. At("key2", a)' = owner[p]
      BY <1>13, <3>1, <3>2, <3>3
    <3> QED BY <1>1, <3>a, <3>4
  <2> QED BY <1>0, <1>1, <2>1 DEF AddrInv
<1>23. KnownAddr'
  <2>1. At("key2", 0)' = None
    BY <1>0, <1>13 DEF KnownAddr
  <2>2. ASSUME NEW a \in Addresses, At("key2", a)' # None
        PROVE  \E p \in Ports :
                 /\ owner[p] = At("key2", a)' /\ At("key1", p)' = At("key2", a)'
                 /\ \/ addr[p] = a \/ Ready(p)'
                    \/ \E h \in DOMAIN cur : cur[h].s = owner[p] /\ cur[h].set = a /\ ~Waits(h)'
    <3>1. CASE w.op = "ProcessUrb" /\ w.set # 0 /\ a = w.set
      <4>1. At("key2", a)' = s
        BY <1>13, <3>1
      <4> QED BY <1>7, <1>11, <1>13, <3>1, <4>1
    <3>2. CASE ~(w.op = "ProcessUrb" /\ w.set # 0 /\ a = w.set)
      <4>1. At("key2", a)' = At("key2", a) /\ At("key2", a) # u /\ At("key2", a) # None
        BY <1>13, <2>2, <3>2
      <4>2. PICK p \in Ports :
              /\ owner[p] = At("key2", a) /\ At("key1", p) = At("key2", a)
              /\ \/ addr[p] = a \/ Ready(p)
                 \/ \E h \in DOMAIN cur : cur[h].s = owner[p] /\ cur[h].set = a /\ ~Waits(h)
        BY <1>0, <4>1 DEF KnownAddr
      <4>3. Ready(p) => Ready(p)'
        <5> SUFFICES ASSUME Done(1), p = w.p PROVE FALSE
          BY <1>7
        <5>1. CASE u # None
          BY <1>9, <4>1, <4>2, <5>1
        <5>2. CASE u = None
          BY <1>0, <1>10, <4>2, <5>2 DEF QueueInv, Queued
        <5> QED BY <5>1, <5>2
      <4>4. At("key1", p)' = At("key1", p)
        BY <1>13
      <4> QED BY <1>7, <4>1, <4>2, <4>3, <4>4
    <3> QED BY <3>1, <3>2
  <2> QED BY <1>1, <2>1, <2>2 DEF KnownAddr
<1>24. UrbInv'
  <2>1. ASSUME NEW h \in DOMAIN cur, NEW p \in Ports, owner[p] = cur[h].s, cur[h].set # 0,
               NEW a, a = cur[h].set, ~Waits(h) => At("key2", a) = owner[p], ~Waits(h)'
        PROVE  At("key2", a)' = owner[p]
    <3>1. CASE w.op = "ProcessUrb" /\ w.set # 0
      <4>1. h = w.h
        BY <1>11, <2>1, <3>1
      <4>2. cur[h].set = w.set /\ owner[p] = s
        BY <1>11, <2>1, <3>1, <4>1
      <4> QED BY <1>13, <2>1, <3>1, <4>2
    <3>2. CASE ~(w.op = "ProcessUrb" /\ w.set # 0)
      <4>1. ~Waits(h)
        BY <1>7, <1>12, <2>1, <3>2
      <4>2. cur[h].s # u
        BY <1>0, <1>9, <4>1, TypeFacts
      <4> QED BY <1>13, <2>1, <3>2, <4>1, <4>2
    <3> QED BY <3>1, <3>2
  <2>2. ASSUME NEW h \in DOMAIN cur
        PROVE  \E p \in Ports :
                 /\ owner[p] = cur[h].s /\ pstate[p] \in {"default", "addressed"}
                 /\ cur[h].set # 0 => /\ pstate[p] = "default"
                                      /\ \A q \in Ports : addr[q] # cur[h].set
                                      /\ ~Waits(h)' => At("key2", cur[h].set)' = owner[p]
    <3>1. PICK a : a = cur[h].set
      OBVIOUS
    <3>2. PICK p \in Ports :
            /\ owner[p] = cur[h].s /\ pstate[p] \in {"default", "addressed"}
            /\ a # 0 => /\ pstate[p] = "default"
                        /\ \A q \in Ports : addr[q] # a
                        /\ ~Waits(h) => At("key2", a) = owner[p]
      BY <1>0, <3>1 DEF UrbInv
    <3>3. a # 0 /\ ~Waits(h)' => At("key2", a)' = owner[p]
      BY <2>1, <3>1, <3>2
    <3> QED BY <1>1, <3>1, <3>2, <3>3
  <2> QED BY <1>1, <2>2 DEF UrbInv
<1>25. StatInv'
  BY <1>0, <1>1, <1>6 DEF StatInv
<1>26. UrbWork'
  <2> SUFFICES ASSUME NEW i \in DOMAIN kwork', Urb(i)'
               PROVE  /\ \A j \in DOMAIN kwork' : Urb(j)' /\ kwork'[i].h = kwork'[j].h => i = j
                      /\ kwork'[i].h \in DOMAIN cur \cup lagging
                      /\ kwork'[i].h \in DOMAIN cur =>
                           /\ cur[kwork'[i].h].s = kwork'[i].to /\ cur[kwork'[i].h].set = kwork'[i].set
                           /\ kwork'[i].h \notin lagging
    BY <1>1 DEF UrbWork
  <2>1. i + 1 \in DOMAIN kwork /\ Urb(i + 1) /\ kwork'[i] = kwork[i + 1]
    BY <1>5, <1>6
  <2>2. \A j \in DOMAIN kwork' : Urb(j)' /\ kwork'[i].h = kwork'[j].h => i = j
    BY <1>0, <1>5, <1>6, <2>1 DEF UrbWork
  <2> QED BY <1>0, <2>1, <2>2 DEF UrbWork
<1>27. ToDefault'
  <2> SUFFICES ASSUME NEW i \in DOMAIN kwork', Urb(i)', kwork'[i].addr = 0
               PROVE  /\ kwork'[i].h \in DOMAIN cur
                      /\ \E p \in Ports :
                           /\ owner[p] = kwork'[i].to /\ pstate[p] = "default"
                           /\ \/ Queued(p)'
                              \/ \E j \in DOMAIN kwork' : j < i /\ Done(j)' /\ kwork'[j].p = p
    BY <1>1 DEF ToDefault
  <2>1. i + 1 \in DOMAIN kwork /\ Urb(i + 1) /\ kwork'[i] = kwork[i + 1] /\ i + 1 # 1
    BY <1>5, <1>6
  <2>2. PICK p \in Ports :
          /\ owner[p] = kwork'[i].to /\ pstate[p] = "default"
          /\ Queued(p) \/ \E j \in DOMAIN kwork : j < i + 1 /\ Done(j) /\ kwork[j].p = p
    BY <1>0, <2>1 DEF ToDefault
  <2>3. kwork'[i].h \in DOMAIN cur
    BY <1>0, <2>1 DEF ToDefault
  <2>4. CASE Queued(p)
    <3>1. cur[kwork'[i].h].s = kwork'[i].to
      BY <1>0, <2>1, <2>3 DEF UrbWork
    <3>2. ~(w.op = "ProcessUrb" /\ w.set # 0)
      <4> SUFFICES ASSUME w.op = "ProcessUrb", w.set # 0 PROVE FALSE
        OBVIOUS
      <4>1. owner[p] = s
        BY <1>11, <2>4
      <4>2. kwork'[i].h = w.h
        BY <1>11, <2>2, <2>3, <3>1, <4>1
      <4> QED BY <1>12, <2>1, <4>2
    <3> QED BY <1>8, <2>2, <2>3, <2>4, <3>2
  <2>5. ASSUME NEW j \in DOMAIN kwork, j < i + 1, Done(j), kwork[j].p = p
        PROVE  Queued(p)' \/ \E k \in DOMAIN kwork' : k < i /\ Done(k)' /\ kwork'[k].p = p
    <3>1. CASE j = 1
      BY <1>2, <1>8, <2>5, <3>1
    <3>2. CASE j # 1
      <4>1. j - 1 \in DOMAIN kwork' /\ j - 1 < i /\ kwork'[j - 1] = kwork[j]
        BY <1>6, <2>5, <3>2
      <4>2. Done(j - 1)'
        BY <2>5, <4>1 DEF Done
      <4> QED BY <2>5, <4>1, <4>2
    <3> QED BY <3>1, <3>2
  <2> QED BY <2>2, <2>3, <2>4, <2>5
<1>28. ToAddress'
  <2>1. PICK k : k = kwork'
    OBVIOUS
  <2>2. ASSUME NEW i \in DOMAIN k, Urb(i)', k[i].addr # 0
        PROVE  /\ k[i].set = 0 /\ At("key2", k[i].addr)' = k[i].to
               /\ \E p \in Ports :
                    /\ owner[p] = k[i].to /\ addr[p] = k[i].addr
                    /\ \/ pstate[p] = "retired"
                       \/ pstate[p] = "addressed" /\ k[i].h \in DOMAIN cur
    <3>1. i + 1 \in DOMAIN kwork /\ Urb(i + 1) /\ k[i] = kwork[i + 1]
      BY <1>5, <1>6, <2>1, <2>2
    <3>2. PICK a : a = k[i].addr
      OBVIOUS
    <3>3. PICK t \in Session : t = k[i].to
      BY <1>0, <3>1, TypeFacts, WorkFields
    <3>4. k[i].set = 0 /\ At("key2", a) = t
      BY <1>0, <2>2, <3>1, <3>2, <3>3 DEF ToAddress
    <3>5. PICK p \in Ports : /\ owner[p] = t /\ addr[p] = a
                             /\ \/ pstate[p] = "retired"
                                \/ pstate[p] = "addressed" /\ k[i].h \in DOMAIN cur
      BY <1>0, <2>2, <3>1, <3>2, <3>3 DEF ToAddress
    <3>6. ~(w.op = "ProcessUrb" /\ w.set # 0 /\ a = w.set)
      BY <1>11, <3>5
    <3>7. t # u
      BY <1>9, <3>5 DEF Enumerating
    <3>8. At("key2", a)' = t
      BY <1>13, <3>4, <3>6, <3>7
    <3> QED BY <3>2, <3>3, <3>4, <3>5, <3>8
  <2> QED BY <1>1, <2>1, <2>2 DEF ToAddress
<1>29. CancelInv'
  <2>1. PICK k : k = kwork'
    OBVIOUS
  <2>2. ASSUME NEW i \in DOMAIN k, Cancels(i)'
        PROVE  /\ At("key3", k[i].h)' \in {None, k[i].to}
               /\ \A j \in DOMAIN k : j < i /\ Urb(j)' /\ k[j].h = k[i].h => k[j].to = k[i].to
               /\ k[i].h \in DOMAIN cur =>
                    \/ \E j \in DOMAIN k : j > i /\ Urb(j)' /\ k[j].h = k[i].h
                    \/ /\ k[i].h \in unlinked /\ cur[k[i].h].s = k[i].to
                       /\ \A j \in DOMAIN k : Cancels(j)' /\ k[j].h = k[i].h => j <= i
    <3>1. i + 1 \in DOMAIN kwork /\ Cancels(i + 1) /\ k[i] = kwork[i + 1] /\ i + 1 > 1
          /\ i \in Nat
      BY <1>1, <1>5, <1>6, <2>1, <2>2 DEF Shifted
    <3>2. PICK g : g = k[i].h
      OBVIOUS
    <3>3. PICK t : t = k[i].to
      OBVIOUS
    <3>4. /\ At("key3", g) \in {None, t}
          /\ \A j \in DOMAIN kwork : j < i + 1 /\ Urb(j) /\ kwork[j].h = g => kwork[j].to = t
          /\ g \in DOMAIN cur =>
               \/ \E j \in DOMAIN kwork : j > i + 1 /\ Urb(j) /\ kwork[j].h = g
               \/ /\ g \in unlinked /\ cur[g].s = t
                  /\ \A j \in DOMAIN kwork : Cancels(j) /\ kwork[j].h = g => j <= i + 1
      BY <1>0, <3>1, <3>2, <3>3 DEF CancelInv
    <3>5. At("key3", g)' \in {None, t}
      <4>1. w.op = "ProcessUrb" /\ g = w.h => s = t
        BY <1>2, <1>3, <1>6, <1>12, <3>1, <3>4
      <4> QED BY <1>13, <3>4, <4>1
    <3>6. \A j \in DOMAIN kwork' : j < i /\ Urb(j)' /\ kwork'[j].h = g => kwork'[j].to = t
      <4> SUFFICES ASSUME NEW j \in DOMAIN kwork', j < i, Urb(j)', kwork'[j].h = g
                   PROVE  kwork'[j].to = t
        OBVIOUS
      <4>1. j + 1 \in DOMAIN kwork /\ Urb(j + 1) /\ kwork'[j] = kwork[j + 1] /\ j + 1 < i + 1
        BY <1>1, <1>5, <1>6, <3>1 DEF Shifted
      <4> QED BY <3>4, <4>1
    <3>7. ASSUME NEW j \in DOMAIN kwork, j > i + 1, Urb(j), kwork[j].h = g
          PROVE  \E z \in DOMAIN kwork' : z > i /\ Urb(z)' /\ kwork'[z].h = g
      <4>1. j - 1 \in DOMAIN kwork' /\ j - 1 > i /\ kwork'[j - 1] = kwork[j]
        BY <1>6, <2>1, <3>7
      <4>2. Urb(j - 1)'
        BY <3>7, <4>1 DEF Urb
      <4> QED BY <3>7, <4>1, <4>2
    <3>8. (\A j \in DOMAIN kwork : Cancels(j) /\ kwork[j].h = g => j <= i + 1) =>
            \A j \in DOMAIN kwork' : Cancels(j)' /\ kwork'[j].h = g => j <= i
      <4> SUFFICES ASSUME \A j \in DOMAIN kwork : Cancels(j) /\ kwork[j].h = g => j <= i + 1,
                          NEW j \in DOMAIN kwork', Cancels(j)', kwork'[j].h = g
                   PROVE  j <= i
        OBVIOUS
      <4>1. j + 1 \in DOMAIN kwork /\ Cancels(j + 1) /\ kwork'[j] = kwork[j + 1] /\ j \in Nat
        BY <1>1, <1>5, <1>6 DEF Shifted
      <4>2. j + 1 <= i + 1
        BY <4>1
      <4> QED BY <3>1, <4>1, <4>2
    <3> QED BY <2>1, <3>2, <3>3, <3>4, <3>5, <3>6, <3>7, <3>8
  <2> QED BY <1>1, <2>1, <2>2 DEF CancelInv
<1>30. Keyed'
  <2> SUFFICES ASSUME NEW h \in Handles, At("key3", h)' # None
               PROVE  /\ h \in DOMAIN cur \cup lagging /\ ~Waits(h)'
                      /\ h \in DOMAIN cur => At("key3", h)' = cur[h].s
    BY <1>1 DEF Keyed
  <2>1. CASE w.op = "ProcessUrb" /\ h = w.h
    <3>1. h \in DOMAIN cur \cup lagging
      BY <1>0, <1>2, <1>6, <1>12, <2>1 DEF UrbWork
    <3>2. At("key3", h)' = s /\ ~Waits(h)'
      BY <1>7, <1>13, <2>1
    <3> QED BY <1>12, <2>1, <3>1, <3>2
  <2>2. CASE ~(w.op = "ProcessUrb" /\ h = w.h)
    <3>1. At("key3", h)' = At("key3", h) /\ At("key3", h) # None
      BY <1>13, <2>2
    <3> QED BY <1>0, <1>7, <3>1 DEF Keyed
  <2> QED BY <2>1, <2>2
<1>31. /\ mail' \in [Session -> Seq(Work)] /\ \A t \in Session : Len(mail'[t]) <= 1
       /\ held' \in Seq([s : Session, w : Work]) /\ Len(held') <= 1
       /\ \A t \in Session : \A k \in DOMAIN mail'[t] :
            \/ k \in DOMAIN mail[t] /\ mail'[t][k] = mail[t][k]
            \/ t = s /\ sess[s] = "open" /\ mail'[t][k] = w /\ mail[s] = <<>> /\ held' = <<>>
       /\ \A t \in Session : sess[t] # "open" => mail'[t] = mail[t]
       /\ \A i \in DOMAIN held' : /\ held'[i].s = s /\ held'[i].w = w /\ sess[s] = "open"
                                  /\ mail' = mail
  <2>1. mail \in [Session -> Seq(Work)] /\ \A t \in Session : Len(mail[t]) <= 1
    BY <1>0, StreamFacts DEF DemuxTypeOK
  <2>2. <<w>> \in Seq(Work) /\ Len(<<w>>) = 1 /\ DOMAIN <<w>> = {1} /\ <<w>>[1] = w
    OBVIOUS
  <2>3. PICK e : e = [s |-> s, w |-> w]
    OBVIOUS
  <2>4. e \in [s : Session, w : Work] /\ e.s = s /\ e.w = w
    BY <2>3
  <2>5. <<e>> \in Seq([s : Session, w : Work]) /\ Len(<<e>>) = 1 /\ DOMAIN <<e>> = {1} /\ <<e>>[1] = e
    BY <2>4
  <2>6. <<>> \in Seq([s : Session, w : Work]) /\ Len(<<>>) = 0 /\ DOMAIN <<>> = {}
    OBVIOUS
  <2>7. CASE mail' = mail /\ held' = <<>>
    BY <2>1, <2>6, <2>7
  <2>8. CASE sess[s] = "open" /\ mail[s] = <<>> /\ mail' = [mail EXCEPT ![s] = <<w>>] /\ held' = <<>>
    <3>1. mail' \in [Session -> Seq(Work)] /\ mail'[s] = <<w>>
          /\ \A t \in Session : t # s => mail'[t] = mail[t]
      BY <2>1, <2>2, <2>8
    <3> QED BY <2>1, <2>2, <2>6, <2>8, <3>1
  <2>9. CASE sess[s] = "open" /\ mail' = mail /\ held' = <<e>>
    BY <2>1, <2>4, <2>5, <2>9
  <2> QED BY <1>3, <1>5, <2>3, <2>7, <2>8, <2>9 DEF Sent
<1>32. ~InHeld(w.h) /\ \A g : ~InHeld(g)
  BY <1>1 DEF InHeld
<1>33. \A g : InHeld(g)' => w.op = "ProcessUrb" /\ g = w.h /\ sess[s] = "open" /\ mail' = mail
  BY <1>31 DEF InHeld
<1>34. \A t \in Session : \A g : Carries(t, g)' =>
         \/ Carries(t, g)
         \/ w.op = "ProcessUrb" /\ g = w.h /\ t = s /\ sess[s] = "open" /\ held' = <<>>
  BY <1>31 DEF Carries
<1>35. \A g : Out(g)' => Out(g) \/ (w.op = "ProcessUrb" /\ g = w.h /\ sess[s] = "open")
  BY <1>1, <1>33, <1>34 DEF Out
<1>36. w.op = "ProcessUrb" /\ sess[s] = "open" => w.h \in DOMAIN cur
  BY <1>1, <1>2, <1>3, OpenUrb
<1>37. w.op = "ProcessUrb" => ~Out(w.h)
  BY <1>0, <1>12 DEF OutInv
<1>38. \A g : Back(g)' <=> Back(g)
  BY <1>1 DEF Back
<1>39. \A g : (\A i \in DOMAIN kwork : ~(Cancels(i) /\ kwork[i].h = g /\ i # 1)) =>
              \A i \in DOMAIN kwork' : ~(Cancels(i)' /\ kwork'[i].h = g)
  BY <1>5, <1>6
<1>40. OutInv'
  <2> SUFFICES ASSUME NEW h \in Handles, Out(h)'
               PROVE  /\ h \in DOMAIN cur /\ h \notin lagging /\ ~Waits(h)' /\ ~Back(h)
                      /\ \/ At("key3", h)' = cur[h].s
                         \/ h \in unlinked /\ \A i \in DOMAIN kwork' : ~(Cancels(i)' /\ kwork'[i].h = h)
    BY <1>1, <1>38 DEF OutInv
  <2>1. CASE w.op = "ProcessUrb" /\ h = w.h /\ sess[s] = "open"
    <3>1. ~Back(h)
      BY <1>0, <1>12, <2>1 DEF BackInv, Back
    <3>2. At("key3", h)' = s /\ ~Waits(h)'
      BY <1>7, <1>13, <2>1
    <3> QED BY <1>12, <1>36, <2>1, <3>1, <3>2
  <2>2. CASE Out(h)
    <3>1. /\ h \in DOMAIN cur /\ h \notin lagging /\ ~Waits(h) /\ ~Back(h)
          /\ \/ At("key3", h) = cur[h].s
             \/ h \in unlinked /\ \A i \in DOMAIN kwork : ~(Cancels(i) /\ kwork[i].h = h)
      BY <1>0, <2>2 DEF OutInv
    <3>2. ~(w.op = "ProcessUrb" /\ h = w.h) /\ ~Waits(h)'
      BY <1>7, <1>37, <2>2, <3>1
    <3>3. CASE w.op = "CancelUrb" /\ h = w.h
      <4>1. Cancels(1) /\ kwork[1].h = h
        BY <1>2, <3>3 DEF Cancels
      <4>2. /\ h \in unlinked
            /\ \A j \in DOMAIN kwork : Cancels(j) /\ kwork[j].h = h => j <= 1
        BY <1>0, <1>6, <3>1, <4>1 DEF CancelInv, Waits
      <4>3. \A j \in DOMAIN kwork : ~(Cancels(j) /\ kwork[j].h = h /\ j # 1)
        BY <1>1, <4>2 DEF Shifted
      <4> QED BY <1>39, <3>1, <3>2, <4>2, <4>3
    <3>4. CASE ~(w.op = "CancelUrb" /\ h = w.h) /\ At("key3", h) = cur[h].s
      <4>1. cur[h].s # u
        BY <1>0, <1>9, <3>1, TypeFacts
      <4> QED BY <1>13, <3>1, <3>2, <3>4, <4>1
    <3>5. CASE h \in unlinked /\ \A i \in DOMAIN kwork : ~(Cancels(i) /\ kwork[i].h = h)
      BY <1>39, <3>1, <3>2, <3>5
    <3> QED BY <3>1, <3>3, <3>4, <3>5
  <2> QED BY <1>35, <2>1, <2>2
<1>41. OnePlace'
  <2>1. ASSUME NEW h \in got PROVE ~InHeld(h)' /\ \A t \in Session : ~Carries(t, h)'
    <3>1. Out(h)
      BY <2>1 DEF Out
    <3>2. \A t \in Session : ~Carries(t, h)
      BY <1>0, <2>1 DEF OnePlace
    <3> QED BY <1>33, <1>34, <1>37, <3>1, <3>2
  <2>2. ASSUME NEW t \in Session, NEW h \in Handles, Carries(t, h)'
        PROVE  cur[h].s = t /\ ~InHeld(h)'
    <3>1. CASE Carries(t, h)
      <4>1. Out(h) /\ cur[h].s = t
        BY <1>0, <3>1 DEF OnePlace, Out
      <4> QED BY <1>33, <1>37, <4>1
    <3>2. CASE w.op = "ProcessUrb" /\ h = w.h /\ t = s /\ sess[s] = "open" /\ held' = <<>>
      BY <1>12, <1>36, <3>2 DEF InHeld
    <3> QED BY <1>34, <2>2, <3>1, <3>2
  <2>3. ASSUME NEW i \in DOMAIN held', NEW h \in Handles, InHeld(h)' PROVE cur[h].s = held'[i].s
    BY <1>12, <1>31, <1>33, <1>36, <2>3
  <2> QED BY <1>1, <2>1, <2>2, <2>3 DEF OnePlace
<1>42. MailInv'
  <2>1. w.op = "PortStat" => owner[w.p] = s
    BY <1>0, <1>2, <1>3, <1>6 DEF StatInv
  <2>2. sess[s] = "open" => s \in Opened
    BY DEF Opened
  <2>3. Opened' = Opened
    BY <1>1 DEF Opened
  <2>4. \A t \in Session : \A k \in DOMAIN mail'[t] :
          /\ mail'[t][k].to = t
          /\ mail'[t][k].op = "PortStat" => owner[mail'[t][k].p] = t
    BY <1>0, <1>3, <1>31, <2>1 DEF MailInv
  <2> QED BY <1>0, <1>1, <1>3, <1>31, <2>1, <2>2, <2>3, <2>4 DEF MailInv
<1>43. BackInv'
  <2>1. \A i \in DOMAIN bq : bq[i].op = "giveback" =>
          ~Waits(bq[i].h)' /\ (bq[i].h \in lagging \/ At("key3", bq[i].h)' = None)
    <3> SUFFICES ASSUME NEW i \in DOMAIN bq, bq[i].op = "giveback"
                 PROVE  ~Waits(bq[i].h)' /\ (bq[i].h \in lagging \/ At("key3", bq[i].h)' = None)
      OBVIOUS
    <3>1. PICK g : g = bq[i].h
      OBVIOUS
    <3>2. ~Waits(g) /\ (g \in lagging \/ At("key3", g) = None)
      BY <1>0, <3>1 DEF BackInv
    <3>3. ~Waits(g)' /\ ~(w.op = "ProcessUrb" /\ g = w.h)
      BY <1>7, <1>12, <3>2
    <3>4. g \in lagging \/ At("key3", g)' = None
      BY <1>13, <3>2, <3>3
    <3> QED BY <1>1, <3>1, <3>3, <3>4
  <2> QED BY <1>0, <1>1, <2>1 DEF BackInv
<1>44. GiveInv'
  BY <1>0, <1>1, <1>7 DEF GiveInv
<1>45. DemuxTypeOK' /\ AssertionsHold'
  <2>1. KeyMapTypeOK(mailer', Keys, Session)
    BY <1>5 DEF Sound
  <2> QED BY <1>0, <1>1, <1>5, <1>6, <1>8, <1>31, <2>1 DEF DemuxTypeOK, AssertionsHold, Keys
<1> QED BY <1>14, <1>15, <1>16, <1>17, <1>18, <1>19, <1>20, <1>21, <1>22, <1>23, <1>24, <1>25,
           <1>26, <1>27, <1>28, <1>29, <1>30, <1>40, <1>41, <1>42, <1>43, <1>44, <1>45
      DEF DemuxInv

-----------------------------------------------------------------------------
LEMMA InitHolds == DemuxInit => DemuxInv
<1> SUFFICES ASSUME DemuxInit PROVE DemuxInv
  OBVIOUS
<1> USE SessionFacts
<1>1. /\ Sound(mailer, Keys, Session, Opened)
      /\ \A o \in Kind : \A x : At(o, x) = None
  <2>1. mailer = with_capacities
    BY DEF DemuxInit
  <2>2. /\ Sound(with_capacities, Keys, Session, Opened)
        /\ \A o \in Kind : \A x : get_by_key(with_capacities, o, x) = None
    BY EmptySound
  <2> QED BY <2>1, <2>2 DEF At
<1>2. \A x : At("key1", x) = None /\ At("key2", x) = None /\ At("key3", x) = None
  BY <1>1 DEF Kind
<1>3. /\ pstate = [p \in Ports |-> "free"] /\ addr = [p \in Ports |-> 0]
      /\ owner = [p \in Ports |-> 0] /\ unlinked = {} /\ lagging = {} /\ got = {}
      /\ nUrbs = 0 /\ nResets = 0 /\ nSession = 0
      /\ sess = [s \in Session |-> "none"] /\ mail = [s \in Session |-> <<>>]
      /\ kwork = <<>> /\ regs = <<>> /\ gives = <<>> /\ drops = <<>> /\ bq = <<>> /\ ctrl = <<>>
      /\ queue = <<>> /\ held = <<>> /\ demux = "run" /\ cur = EmptyMap
  BY DEF DemuxInit
<1>4. /\ DOMAIN kwork = {} /\ DOMAIN regs = {} /\ DOMAIN gives = {} /\ DOMAIN drops = {}
      /\ DOMAIN bq = {} /\ DOMAIN ctrl = {} /\ DOMAIN queue = {} /\ DOMAIN held = {}
      /\ \A s \in Session : DOMAIN mail[s] = {}
  BY <1>3
<1>5. DOMAIN cur = {} /\ IsMap(cur, Handles, [s : Session, set : {0} \cup Addresses])
  BY <1>3 DEF EmptyMap, IsMap
<1>6. DemuxTypeOK
  <2>1. KeyMapTypeOK(mailer, Keys, Session)
    BY <1>1 DEF Sound
  <2>2. mail \in [Session -> Seq(Work)] /\ \A s \in Session : Len(mail[s]) <= 1
    BY <1>3
  <2>3. nUrbs \in 0..MaxUrb /\ nResets \in 0..MaxReset /\ nSession \in 0..MaxSession
    BY <1>3, DemuxAssumption
  <2> QED BY <1>3, <1>5, <2>1, <2>2, <2>3 DEF DemuxTypeOK, Keys
<1>7. MapInv /\ AssertionsHold
  BY <1>1, <1>3 DEF MapInv, AssertionsHold
<1>8. Owners
  BY <1>2, <1>3 DEF Owners
<1>9. Registering /\ Results /\ Leaving
  BY <1>3, <1>4 DEF Registering, Results, Leaving
<1>10. OneAtATime /\ Defaults /\ QueueInv /\ DoneInv /\ UrbInv
  <2>1. Len(queue) = 0
    BY <1>3
  <2> QED BY <1>3, <1>4, <1>5, <2>1 DEF OneAtATime, Enumerating, Defaults, QueueInv, DoneInv, UrbInv
<1>11. AddrInv /\ KnownAddr
  BY <1>2, <1>3 DEF AddrInv, KnownAddr
<1>12. StatInv /\ UrbWork /\ ToDefault /\ ToAddress /\ CancelInv
  BY <1>4 DEF StatInv, UrbWork, ToDefault, ToAddress, CancelInv
<1>13. Keyed
  BY <1>2 DEF Keyed
<1>14. \A h : ~InHeld(h) /\ \A s \in Session : ~Carries(s, h)
  BY <1>4 DEF InHeld, Carries
<1>15. OutInv /\ OnePlace
  BY <1>3, <1>4, <1>14 DEF OutInv, OnePlace, Out
<1>16. MailInv /\ BackInv /\ GiveInv
  BY <1>3, <1>4 DEF MailInv, BackInv, GiveInv
<1> QED BY <1>6, <1>7, <1>8, <1>9, <1>10, <1>11, <1>12, <1>13, <1>15, <1>16 DEF DemuxInv

LEMMA StutterKeeps ==
  ASSUME DemuxInv, UNCHANGED demuxVars
  PROVE  DemuxInv'
<1>0. /\ DemuxTypeOK /\ AssertionsHold /\ MapInv
      /\ Owners /\ Registering /\ Results /\ Leaving
      /\ OneAtATime /\ Defaults /\ QueueInv /\ DoneInv /\ AddrInv /\ KnownAddr /\ UrbInv
      /\ StatInv /\ UrbWork /\ ToDefault /\ ToAddress /\ CancelInv
      /\ Keyed /\ OutInv /\ OnePlace /\ MailInv /\ BackInv /\ GiveInv
  BY DEF DemuxInv
<1>1. UNCHANGED <<pstate, addr, owner, cur, unlinked, nUrbs, nResets, kwork, lagging, nSession,
                  sess, mail, got, regs, gives, drops, bq, ctrl, mailer, queue, held, demux>>
  BY DEF demuxVars, guestVars, sessionVars, taskVars
<1>2. NoUrb /\ Quiet /\ StatOnly
  BY <1>0, <1>1, KworkSame, TypeFacts
<1>3. /\ MapInv' /\ Owners' /\ Registering' /\ Results' /\ Leaving' /\ OneAtATime' /\ Defaults'
      /\ QueueInv' /\ DoneInv' /\ AddrInv' /\ KnownAddr' /\ UrbInv' /\ StatInv' /\ UrbWork'
      /\ ToDefault' /\ ToAddress' /\ CancelInv' /\ Keyed' /\ BackInv' /\ GiveInv'
      /\ OutInv' /\ OnePlace' /\ MailInv'
  BY <1>0, <1>1, <1>2, FrMap, FrOwners, FrRegistering, FrResults, FrLeaving, FrOneAtATime,
     FrDefaults, FrQueue, FrDone, FrAddr, FrKnownAddr, FrUrb, FrStat, FrUrbWork, FrToDefault,
     FrToAddress, FrCancel, FrKeyed, FrBack, FrGive, FrOut, FrOnePlace, FrMail
<1>4. DemuxTypeOK' /\ AssertionsHold'
  BY <1>0, <1>1 DEF DemuxTypeOK, AssertionsHold
<1> QED BY <1>3, <1>4 DEF DemuxInv

LEMMA NextKeeps ==
  ASSUME DemuxInv, Overlap = {}, [DemuxNext]_demuxVars
  PROVE  DemuxInv'
<1>1. ASSUME Guest PROVE DemuxInv'
  BY <1>1, ResetPortKeeps, SubmitKeeps, CancelKeeps DEF Guest
<1>2. ASSUME Users PROVE DemuxInv'
  BY <1>2, registerKeeps, giveback_urbKeeps, disconnectKeeps DEF Users
<1>3. ASSUME NEW s \in Session, Receive(s) PROVE DemuxInv'
  BY <1>3, ReceiveKeeps
<1>4. ASSUME Thread PROVE DemuxInv'
  BY <1>4, RunConnectKeeps, RunGivebackKeeps, RunDisconnectKeeps DEF Thread
<1>5. CASE EventRegister \/ EventGivebackUrb \/ EventDisconnect
  BY <1>5, EventRegisterKeeps, EventGivebackUrbKeeps, EventDisconnectKeeps
<1>6. CASE EventController \/ EventWork \/ SendResumes
  BY <1>6, EventControllerKeeps, EventWorkKeeps, SendResumesKeeps
<1>7. CASE UNCHANGED demuxVars
  BY <1>7, StutterKeeps
<1> QED BY <1>1, <1>2, <1>3, <1>4, <1>5, <1>6, <1>7 DEF DemuxNext

LEMMA Invariant == ASSUME Overlap = {} PROVE DemuxSpec => []DemuxInv
<1>1. DemuxInv /\ [DemuxNext]_demuxVars => DemuxInv'
  BY NextKeeps
<1> QED BY <1>1, InitHolds, PTL DEF DemuxSpec

-----------------------------------------------------------------------------
(* Demuxer::demux keeps its streams, channels and tables well formed, and no
   key of its mailer leads past the end of the mailer's vector. *)
THEOREM DemuxTypes == ASSUME Overlap = {} PROVE DemuxSpec => []DemuxTypeOK
<1>1. DemuxInv => DemuxTypeOK
  BY DEF DemuxInv
<1> QED BY <1>1, Invariant, PTL

(* The asserts in demux() never fire: the handle of a URB is not linked yet,
   the head of register_queue and the device's address are known, and a port
   that registers has no entry. *)
THEOREM AssertsHold == ASSUME Overlap = {} PROVE DemuxSpec => []AssertionsHold
<1>1. DemuxInv => AssertionsHold
  BY DEF DemuxInv
<1> QED BY <1>1, Invariant, PTL

(* A work item that Event::Work sends is in the channel of the session it is
   for, however late the Demuxer comes to it. *)
THEOREM WorkReachesItsSession == ASSUME Overlap = {} PROVE DemuxSpec => []RoutedToOwner
<1>1. DemuxInv => RoutedToOwner
  BY DEF DemuxInv, MailInv, RoutedToOwner
<1> QED BY <1>1, Invariant, PTL

(* Event::Work finds the session of every URB, by default address or by
   address, and by handle that of every cancellation of a URB which that
   session has. *)
THEOREM SessionIsFound == ASSUME Overlap = {} PROVE DemuxSpec => []FindsOwner
<1>1. DemuxInv => FindsOwner
  <2> SUFFICES ASSUME DemuxInv, kwork # <<>> PROVE FindsOwner
    BY DEF FindsOwner
  <2>1. Head(kwork) = kwork[1] /\ kwork[1] \in Work
    BY WorkHead DEF DemuxInv
  <2>2. PICK w \in Work : w = kwork[1] /\ w = Head(kwork)
    BY <2>1
  <2>3. Routed(w)
    BY <2>2, HeadLinked
  <2> QED BY <2>2, <2>3 DEF FindsOwner, Routed
<1> QED BY <1>1, Invariant, PTL
=============================================================================
