-------------------------------- MODULE Demux --------------------------------
(***************************************************************************)
(* Demuxer::demux: the task that hands the work items of one virtual host  *)
(* controller to the sessions behind its ports.  It finds the session by   *)
(* port, by device address or by URB handle in a ThreeKeyMap, the mailer,  *)
(* and learns the addresses by watching resets and SET_ADDRESS go by.      *)
(*                                                                         *)
(* Its five event streams are merged: only the order within each is kept.  *)
(* External: the controller with its guest, and the sessions, as far as    *)
(* the Demuxer can tell them apart.  A session is known by its number.     *)
(***************************************************************************)
EXTENDS ThreeKeyMap

CONSTANTS Ports, Handles, Addresses,
          MaxSession,   \* bound: sessions that register
          MaxUrb,       \* bound: URBs the guest submits
          MaxReset,     \* bound: port resets
          Overlap       \* what is used again before the Demuxer is done with it

ASSUME DemuxAssumption ==
  /\ MaxSession \in Nat /\ MaxUrb \in Nat /\ MaxReset \in Nat
  /\ 0 \notin Addresses
  /\ Overlap \subseteq {"port", "address", "handle", "reset", "enumeration"}

VARIABLES
  pstate, addr, owner,  \* port -> its state, its device's address, its session
  cur,                  \* handle -> the URB that has it: [s, set]
  unlinked, lagging,    \* handles: cancelled; not yet forgotten by the Demuxer
  nUrbs, nResets, nSession,
  kwork,                \* work items the Demuxer has not received
  sess, mail,           \* session -> its state, its channel of one work item
  got,                  \* handles of URBs that reached their session
  regs, gives, drops,   \* the register, giveback and disconnect streams
  bq,                   \* closures of the one blocking thread
  ctrl,                 \* controller results, and the one the thread is sending
  mailer, queue,        \* the Demuxer's map and register_queue
  held,                 \* the work item it waits with for a full channel
  demux                 \* "run", or the assertion that ended the task

guestVars == <<pstate, addr, owner, cur, unlinked, nUrbs, nResets, kwork>>
sessionVars == <<nSession, sess, mail, got, regs, gives, drops>>
taskVars == <<mailer, queue, held, demux>>
demuxVars == <<guestVars, lagging, sessionVars, bq, ctrl, taskVars>>

Session == 1..MaxSession
AnyPort == "Any"
PortStat(p, s, stat) == [op |-> "PortStat", p |-> p, to |-> s, stat |-> stat]
ProcessUrb(h, s, a, set) ==
  [op |-> "ProcessUrb", h |-> h, to |-> s, addr |-> a, set |-> set]
CancelUrb(h, s) == [op |-> "CancelUrb", h |-> h, to |-> s]
Work == [op : {"PortStat"}, p : Ports, to : Session,
         stat : {"connected", "resetting", "resetDone", "gone"}]
        \cup [op : {"ProcessUrb"}, h : Handles, to : Session,
              addr : {0} \cup Addresses, set : {0} \cup Addresses]
        \cup [op : {"CancelUrb"}, h : Handles, to : Session]

DemuxInit ==
  /\ pstate = [p \in Ports |-> "free"]
  /\ addr = [p \in Ports |-> 0] /\ owner = [p \in Ports |-> 0]
  /\ cur = EmptyMap /\ unlinked = {} /\ lagging = {} /\ got = {}
  /\ nUrbs = 0 /\ nResets = 0 /\ nSession = 0 /\ kwork = <<>>
  /\ sess = [s \in Session |-> "none"] /\ mail = [s \in Session |-> <<>>]
  /\ regs = <<>> /\ gives = <<>> /\ drops = <<>> /\ bq = <<>> /\ ctrl = <<>>
  /\ mailer = with_capacities /\ queue = <<>> /\ held = <<>> /\ demux = "run"

-----------------------------------------------------------------------------
(* The guest.  A bus has one default address, so one port at a time is reset
   and given an address.  Without the matching Overlap, a port with URBs in
   progress is not reset, and handles and addresses are not reused early. *)
PortOf(s) == CHOOSE p \in Ports : owner[p] = s
Enumerating == {p \in Ports : pstate[p] \in {"resetting", "default"}}
InProgress(s) == {h \in DOMAIN cur : cur[h].s = s}

ResetPort(p) ==
  /\ pstate[p] \in {"connected", "resetting", "default", "addressed"} /\ nResets < MaxReset
  /\ Enumerating \subseteq {p} \/ "enumeration" \in Overlap
  /\ InProgress(owner[p]) = {} \/ "reset" \in Overlap
  /\ nResets' = nResets + 1
  /\ pstate' = [q \in Ports |-> IF q = p THEN "resetting"
                                ELSE IF q \in Enumerating THEN "connected" ELSE pstate[q]]
  /\ kwork' = Append(kwork, PortStat(p, owner[p], "resetting"))
  /\ UNCHANGED <<addr, owner, cur, unlinked, nUrbs, lagging, sessionVars, bq, ctrl,
                 taskVars>>

NewAddress(p) == Addresses \ {addr[q] : q \in
  IF "address" \in Overlap THEN {q \in Ports \ {p} : pstate[q] = "addressed"}
                           ELSE Ports \ {p}}

Submit(p, h, set) ==
  /\ pstate[p] \in {"default", "addressed"} /\ nUrbs < MaxUrb
  /\ h \notin DOMAIN cur /\ (h \notin lagging \/ "handle" \in Overlap)
  /\ pstate[p] = "default" => InProgress(owner[p]) = {}
  /\ set # 0 => pstate[p] = "default" /\ set \in NewAddress(p)
  /\ nUrbs' = nUrbs + 1
  /\ cur' = Insert(cur, h, [s |-> owner[p], set |-> set])
  /\ kwork' = Append(kwork, ProcessUrb(h, owner[p],
                       IF pstate[p] = "default" THEN 0 ELSE addr[p], set))
  /\ UNCHANGED <<pstate, addr, owner, unlinked, nResets, lagging, sessionVars,
                 bq, ctrl, taskVars>>

Unlink(h) ==
  /\ h \in DOMAIN cur \ unlinked /\ cur[h].set = 0
  /\ unlinked' = unlinked \cup {h}
  /\ kwork' = Append(kwork, CancelUrb(h, cur[h].s))
  /\ UNCHANGED <<pstate, addr, owner, cur, nUrbs, nResets, lagging, sessionVars,
                 bq, ctrl, taskVars>>

-----------------------------------------------------------------------------
(* The sessions: Controller::register, disconnect, reset_done and
   VhciRemote::giveback_urb. *)
register(port) ==
  /\ nSession < MaxSession
  /\ nSession' = nSession + 1
  /\ sess' = [sess EXCEPT ![nSession + 1] = "registering"]
  /\ regs' = Append(regs, [s |-> nSession + 1, port |-> port])
  /\ UNCHANGED <<guestVars, lagging, mail, got, gives, drops, bq, ctrl, taskVars>>

(* A session receives a work item; it ends the reset of its port, in time. *)
Receive(s) ==
  /\ sess[s] = "open" /\ mail[s] # <<>>
  /\ LET w == Head(mail[s]) IN
       /\ got' = IF w.op = "ProcessUrb" THEN got \cup {w.h} ELSE got
       /\ IF w.op = "PortStat" /\ w.stat = "resetting" /\ pstate[w.p] = "resetting"
          THEN /\ pstate' = [pstate EXCEPT ![w.p] = "default"]
               /\ addr' = [addr EXCEPT ![w.p] = 0]
               /\ kwork' = Append(kwork, PortStat(w.p, s, "resetDone"))
          ELSE UNCHANGED <<pstate, addr, kwork>>
  /\ mail' = [mail EXCEPT ![s] = <<>>]
  /\ UNCHANGED <<owner, cur, unlinked, nUrbs, nResets, lagging, nSession, sess, regs,
                 gives, drops, bq, ctrl, taskVars>>

giveback_urb(h) ==
  /\ h \in got /\ sess[cur[h].s] = "open"
  /\ got' = got \ {h} /\ lagging' = lagging \cup {h}
  /\ bq' = Append(bq, [op |-> "giveback", h |-> h])
  /\ gives' = Append(gives, [h |-> h, s |-> cur[h].s])
  /\ UNCHANGED <<guestVars, nSession, sess, mail, regs, drops, ctrl, taskVars>>

(* The session ends: its receiver is dropped, and with it the notifications
   of givebacks it has not yet sent, which stay here as Lost; then it unplugs
   its port. *)
Lost(h) == [h |-> h, s |-> 0]
disconnect(s) ==
  /\ sess[s] = "open"
  /\ PortOf(s) \notin Enumerating \/ "enumeration" \in Overlap
  /\ sess' = [sess EXCEPT ![s] = "closing"]
  /\ mail' = [mail EXCEPT ![s] = <<>>]
  /\ gives' \in {gives, [i \in DOMAIN gives |-> IF gives[i].s = s THEN Lost(gives[i].h)
                                                ELSE gives[i]]}
  /\ drops' = Append(drops, s)
  /\ UNCHANGED <<guestVars, lagging, nSession, got, regs, bq, ctrl, taskVars>>

-----------------------------------------------------------------------------
(* The blocking thread.  A controller call's result is sent to the Demuxer
   on a channel of one, and the thread waits while that is full. *)
Closure(op) == bq # <<>> /\ Head(bq).op = op /\ bq' = Tail(bq) /\ Len(ctrl) <= 1

RunConnect ==
  /\ Closure("connect")
  /\ LET s == Head(bq).s
         free == {p \in Ports : pstate[p] = "free" /\ Head(bq).port \in {AnyPort, p}}
     IN \/ \E p \in free :
             /\ pstate' = [pstate EXCEPT ![p] = "connected"]
             /\ owner' = [owner EXCEPT ![p] = s]
             /\ kwork' = Append(kwork, PortStat(p, s, "connected"))
             /\ ctrl' = Append(ctrl, [op |-> "register", s |-> s, port |-> p])
        \/ /\ free = {}
           /\ ctrl' = Append(ctrl, [op |-> "registerErr", s |-> s])
           /\ UNCHANGED <<pstate, owner, kwork>>
  /\ UNCHANGED <<addr, cur, unlinked, nUrbs, nResets, lagging, sessionVars, taskVars>>

RunGiveback ==
  /\ Closure("giveback")
  /\ LET h == Head(bq).h IN
       IF h \in DOMAIN cur
       THEN LET p == PortOf(cur[h].s) IN
            /\ cur' = Remove(cur, h) /\ unlinked' = unlinked \ {h}
            /\ IF cur[h].set # 0 /\ pstate[p] = "default"
               THEN /\ pstate' = [pstate EXCEPT ![p] = "addressed"]
                    /\ addr' = [addr EXCEPT ![p] = cur[h].set]
               ELSE UNCHANGED <<pstate, addr>>
       ELSE UNCHANGED <<pstate, addr, cur, unlinked>>
  /\ UNCHANGED <<owner, nUrbs, nResets, kwork, lagging, sessionVars, ctrl, taskVars>>

(* The port is free again; the guest's URBs on it end unannounced. *)
RunDisconnect ==
  /\ Closure("disconnect")
  /\ LET s == Head(bq).s
         p == PortOf(s)
     IN /\ pstate' = [pstate EXCEPT ![p] = IF "port" \in Overlap THEN "free" ELSE "retired"]
        /\ cur' = [h \in DOMAIN cur \ InProgress(s) |-> cur[h]]
        /\ unlinked' = unlinked \ InProgress(s) /\ got' = got \ InProgress(s)
        /\ lagging' = lagging \cup InProgress(s)
        /\ kwork' = Append(kwork, PortStat(p, s, "gone"))
        /\ ctrl' = Append(ctrl, [op |-> "disconnect", s |-> s])
  /\ UNCHANGED <<addr, owner, nUrbs, nResets, nSession, sess, mail, regs, gives, drops,
                 taskVars>>

-----------------------------------------------------------------------------
(* The events of the Demuxer. *)
Running == demux = "run" /\ held = <<>>
eventKeeps == UNCHANGED <<pstate, addr, owner, cur, unlinked, nUrbs, nResets, nSession, got>>

EventRegister ==
  /\ Running /\ regs # <<>>
  /\ regs' = Tail(regs)
  /\ bq' = Append(bq, [op |-> "connect", s |-> Head(regs).s, port |-> Head(regs).port])
  /\ eventKeeps /\ UNCHANGED <<lagging, kwork, sess, mail, gives, drops, ctrl, taskVars>>

forget_handle_Ignored(h) == mailer
forget_handle(h) == remove_by_key(mailer, "key3", h)
EventGivebackUrb ==
  /\ Running
  /\ \E i \in DOMAIN gives :
       /\ gives[i].s # 0 /\ \A j \in 1..(i - 1) : gives[j].s = 0
       /\ gives' = SubSeq(gives, i + 1, Len(gives))
       /\ mailer' = forget_handle(gives[i].h)
       /\ lagging' = lagging \ {gives[i].h}
  /\ eventKeeps /\ UNCHANGED <<kwork, sess, mail, regs, drops, bq, ctrl, queue, held, demux>>

(* The port's entry stays in the mailer. *)
EventDisconnect ==
  /\ Running /\ drops # <<>>
  /\ drops' = Tail(drops)
  /\ bq' = Append(bq, [op |-> "disconnect", s |-> Head(drops)])
  /\ eventKeeps /\ UNCHANGED <<lagging, kwork, sess, mail, regs, gives, ctrl, taskVars>>

EventController ==
  /\ Running /\ ctrl # <<>>
  /\ LET r == Head(ctrl) IN
       /\ mailer' = IF r.op = "register"
                    THEN insert_by_key(mailer, "key1", r.port, r.s) ELSE mailer
       /\ demux' = IF r.op = "register" /\ contains_key(mailer, "key1", r.port)
                   THEN "registerAssert" ELSE "run"
       /\ sess' = [sess EXCEPT ![r.s] = IF r.op = "register" /\ demux' = "run"
                                        THEN "open" ELSE "gone"]
  /\ ctrl' = Tail(ctrl)
  /\ eventKeeps /\ UNCHANGED <<lagging, kwork, mail, regs, gives, drops, bq, queue, held>>

(* Where Event::Work finds the session of a work item, and what it does to the
   mailer and to register_queue before: a port that was reset is next in line
   for the default address, the SET_ADDRESS takes it out of the queue. *)
portReset(w) ==
  w.op = "PortStat" /\ w.stat = "resetDone" /\ \A i \in DOMAIN queue : queue[i] # w.p
setAddress(w) == w.op = "ProcessUrb" /\ w.set # 0 /\ w.addr = 0 /\ queue # <<>>
defaultAddress(w) ==
  w.op = "ProcessUrb" /\ w.set = 0 /\ w.addr = 0 /\ queue # <<>>
byAddress(w) == w.op = "ProcessUrb" /\ ~setAddress(w) /\ ~defaultAddress(w)

queueAfter_Keeps(w) == IF portReset(w) THEN Append(queue, w.p) ELSE queue
queueAfter(w) ==
  IF portReset(w) THEN Append(queue, w.p)
  ELSE IF setAddress(w) THEN Tail(queue) ELSE queue

addressed(w) == link_key_to_key(remove_by_key(mailer, "key2", 0), "key2", w.set,
                                "key1", Head(queue))
linkedMailer(w) ==
  CASE w.op = "PortStat" ->
         IF portReset(w) THEN unlink_all_but_key1(mailer, w.p) ELSE mailer
    [] setAddress(w) -> link_key_to_key(addressed(w), "key3", w.h, "key1", Head(queue))
    [] defaultAddress(w) -> link_key_to_key(mailer, "key3", w.h, "key1", Head(queue))
    [] byAddress(w) -> link_key_to_key(mailer, "key3", w.h, "key2", w.addr)
    [] w.op = "CancelUrb" -> remove_by_key(mailer, "key3", w.h)

(* The links that are asserted. *)
asserted(w) ==
  CASE setAddress(w) \/ defaultAddress(w) ->
         IF link_result(mailer, "key3", w.h, "key1", Head(queue)) = "Success"
         THEN "run" ELSE "linkAssert"
    [] byAddress(w) ->
         IF link_result(mailer, "key3", w.h, "key2", w.addr) = "ExistingKeyDoesNotExist"
         THEN "addressAssert" ELSE "run"
    [] OTHER -> "run"

sender(w) ==
  CASE w.op = "PortStat" -> get_by_key(linkedMailer(w), "key1", w.p)
    [] setAddress(w) \/ defaultAddress(w) ->
         get_by_key(linkedMailer(w), "key1", Head(queue))
    [] byAddress(w) -> get_by_key(linkedMailer(w), "key2", w.addr)
    [] w.op = "CancelUrb" -> get_by_key(mailer, "key3", w.h)

(* A work item without a session, or whose session has dropped its receiver,
   is discarded; for a full channel the whole Demuxer waits. *)
EventWork ==
  /\ Running /\ kwork # <<>>
  /\ LET w == Head(kwork)
         tx == sender(w)
         send == asserted(w) = "run" /\ tx # None /\ sess[tx] = "open"
     IN /\ demux' = asserted(w)
        /\ mailer' = linkedMailer(w) /\ queue' = queueAfter(w)
        /\ mail' = IF send /\ mail[tx] = <<>> THEN [mail EXCEPT ![tx] = <<w>>] ELSE mail
        /\ held' = IF send /\ mail[tx] # <<>> THEN <<[s |-> tx, w |-> w]>> ELSE <<>>
  /\ kwork' = Tail(kwork)
  /\ eventKeeps /\ UNCHANGED <<lagging, sess, regs, gives, drops, bq, ctrl>>

SendResumes ==
  /\ held # <<>>
  /\ \/ /\ sess[held[1].s] = "open" /\ mail[held[1].s] = <<>>
        /\ mail' = [mail EXCEPT ![held[1].s] = <<held[1].w>>]
     \/ sess[held[1].s] # "open" /\ UNCHANGED mail
  /\ held' = <<>>
  /\ eventKeeps /\ UNCHANGED <<lagging, kwork, sess, regs, gives, drops, bq, ctrl,
                               mailer, queue, demux>>

-----------------------------------------------------------------------------
Guest == \/ \E p \in Ports : ResetPort(p)
         \/ \E p \in Ports, h \in Handles, set \in {0} \cup Addresses : Submit(p, h, set)
         \/ \E h \in Handles : Unlink(h)
Users == \/ \E port \in Ports \cup {AnyPort} : register(port)
         \/ \E h \in Handles : giveback_urb(h)
         \/ \E s \in Session : disconnect(s)
Thread == RunConnect \/ RunGiveback \/ RunDisconnect

DemuxNext ==
  \/ Guest \/ Users \/ \E s \in Session : Receive(s)
  \/ Thread
  \/ EventRegister \/ EventGivebackUrb \/ EventDisconnect \/ EventController
  \/ EventWork \/ SendResumes

DemuxSpec == DemuxInit /\ [][DemuxNext]_demuxVars

-----------------------------------------------------------------------------
(* Every variable keeps its type, and no key of the mailer leads past the end
   of its vector: a registered port is never lost with the last of its URBs. *)
DemuxTypeOK ==
  /\ pstate \in [Ports -> {"free", "connected", "resetting", "default",
                           "addressed", "retired"}]
  /\ addr \in [Ports -> {0} \cup Addresses] /\ owner \in [Ports -> {0} \cup Session]
  /\ IsMap(cur, Handles, [s : Session, set : {0} \cup Addresses])
  /\ unlinked \subseteq DOMAIN cur /\ lagging \subseteq Handles /\ got \subseteq DOMAIN cur
  /\ nUrbs \in 0..MaxUrb /\ nResets \in 0..MaxReset /\ nSession \in 0..MaxSession
  /\ kwork \in Seq(Work)
  /\ sess \in [Session -> {"none", "registering", "open", "closing", "gone"}]
  /\ mail \in [Session -> Seq(Work)] /\ \A s \in Session : Len(mail[s]) <= 1
  /\ held \in Seq([s : Session, w : Work]) /\ Len(held) <= 1
  /\ regs \in Seq([s : Session, port : Ports \cup {AnyPort}])
  /\ gives \in Seq([h : Handles, s : {0} \cup Session]) /\ drops \in Seq(Session)
  /\ bq \in Seq([op : {"connect"}, s : Session, port : Ports \cup {AnyPort}]
                \cup [op : {"giveback"}, h : Handles] \cup [op : {"disconnect"}, s : Session])
  /\ ctrl \in Seq([op : {"register"}, s : Session, port : Ports]
                  \cup [op : {"registerErr", "disconnect"}, s : Session])
  /\ KeyMapTypeOK(mailer, Ports \cup Addresses \cup Handles, Session)
  /\ queue \in Seq(Ports)
  /\ demux \in {"run", "registerAssert", "linkAssert", "addressAssert"}

(* A URB, and the cancellation of one that is in progress, finds its session
   as long as that is open: by default address, by address or by handle. *)
FindsOwner ==
  Running /\ kwork # <<>> =>
    LET w == Head(kwork) IN
      /\ w.op = "ProcessUrb" \/ (w.op = "CancelUrb" /\ w.h \in got)
      /\ sess[w.to] = "open"
      => sender(w) = w.to

(* No work item is ever put into the channel of another session. *)
RoutedToOwner ==
  /\ \A s \in Session : \A i \in DOMAIN mail[s] : mail[s][i].to = s
  /\ \A i \in DOMAIN held : held[i].w.to = held[i].s

(* The links the Demuxer asserts succeed: a handle or a port that comes up
   again has been forgotten before, an address is known. *)
AssertionsHold == demux = "run"

-----------------------------------------------------------------------------
(* What the code asserts of the controller, and the program does not keep:
   the port of a new session has no entry in the mailer. *)
PortIsNew == demux # "registerAssert"
=============================================================================
