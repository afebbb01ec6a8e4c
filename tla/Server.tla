-------------------------------- MODULE Server --------------------------------
(***************************************************************************)
(* The server and its clients: connections, the request that opens a       *)
(* stream and its answer, the task of each session, the devices and ports  *)
(* it holds, and the one cancellation token they all share.  The two loops *)
(* of a lent device (module Session) are one state here, "lending" or      *)
(* "borrowing", that ends when they would end.                             *)
(***************************************************************************)
EXTENDS Naturals, Sequences, FiniteSets

CONSTANTS Clients,      \* each has one connection
          Devices,      \* of the server's machine
          NumPorts,     \* of the server's virtual host controller
          OpenErrors,   \* how open_device may fail
          MayDiffer,    \* clients that may be of an incompatible version
          MaxReq        \* bound: requests

NoDev == "no device"
Rusb == {"Io", "InvalidParam", "Access", "NoDevice", "NotFound", "Busy", "Timeout",
         "Overflow", "BadDescriptor", "Other"}
ASSUME ServerAssumption ==
  /\ NoDev \notin Devices /\ OpenErrors \subseteq Rusb /\ MayDiffer \subseteq Clients
  /\ NumPorts \in Nat /\ MaxReq \in Nat

VARIABLES
  foreign,     \* the clients of an incompatible version
  token,       \* cancel_token of serve, of every session and of the ServerHandle
  asked,       \* shutdown was called
  client,      \* what a client is doing
  nReq,        \* how many requests there were
  link,        \* its connection
  streams,     \* the streams it opened that its session has not read yet
  resp,        \* the answer on the stream it opened last
  told,        \* what the client's last request came to
  half,        \* its end of the stream that its session is serving is open
  sess,        \* where its session task is on the server
  held, ports, \* the device its session has open; the sessions with a port
  done,        \* the channel of ended sessions, of capacity 1
  reported,    \* the sessions serve has heard of
  late         \* requests its session accepted after the token was cancelled

clientVars == <<foreign, client, nReq, told>>
serverVars == <<token, asked, sess, held, ports, done, reported, late>>
srvVars == <<clientVars, serverVars, link, streams, resp, half>>

(* What a stream opens with: a request, one that cannot be read, or its end. *)
Req == [what : {"list", "borrow", "lend"}, dev : Devices, form : {"good", "corrupt", "empty"}]

ServerInit ==
  /\ token = FALSE /\ asked = FALSE /\ foreign \in SUBSET MayDiffer
  /\ client = [c \in Clients |-> "off"] /\ nReq = 0
  /\ link = [c \in Clients |-> "none"]
  /\ streams = [c \in Clients |-> <<>>] /\ resp = [c \in Clients |-> "none"]
  /\ told = [c \in Clients |-> "nothing"] /\ half = [c \in Clients |-> FALSE]
  /\ sess = [c \in Clients |-> "none"]
  /\ held = [c \in Clients |-> NoDev] /\ ports = {}
  /\ done = <<>> /\ reported = {} /\ late = [c \in Clients |-> 0]

-----------------------------------------------------------------------------
(* The client.  It drops its connection when it is done, and when it panics. *)
connect(c) ==
  /\ client[c] = "off"
  /\ client' = [client EXCEPT ![c] = "connecting"]
  /\ link' = [link EXCEPT ![c] = "incoming"]
  /\ UNCHANGED <<foreign, nReq, told, serverVars, streams, resp, half>>

connected(c) ==
  /\ client[c] = "connecting" /\ link[c] = "open"
  /\ client' = [client EXCEPT ![c] = "idle"]
  /\ UNCHANGED <<foreign, nReq, told, serverVars, link, streams, resp, half>>

(* Refused, or timed out: nobody takes connections after the token. *)
connectFails(c) ==
  /\ client[c] = "connecting" /\ (link[c] = "closed" \/ (token /\ sess[c] = "none"))
  /\ client' = [client EXCEPT ![c] = "panicked"]
  /\ link' = [link EXCEPT ![c] = "closed"]
  /\ UNCHANGED <<foreign, nReq, told, serverVars, streams, resp, half>>

(* open_bi and send_req.  A foreign version may lay its request out in a way
   that cannot be read.  req_lend opens its device first; when it cannot, it
   returns, and the stream it opened ends with nothing on it. *)
ask(c, r) ==
  /\ client[c] = "idle" /\ link[c] = "open" /\ nReq < MaxReq
  /\ r.form = "corrupt" => c \in foreign
  /\ r.form = "empty" => r.what = "lend"
  /\ streams' = [streams EXCEPT ![c] = Append(@, r)]
  /\ resp' = [resp EXCEPT ![c] = "none"]
  /\ client' = [client EXCEPT ![c] = IF r.form = "empty" THEN "idle" ELSE r.what]
  /\ nReq' = nReq + 1
  /\ UNCHANGED <<foreign, told, serverVars, link, half>>

(* open_bi on a connection that is closed: unwrap. *)
askFails(c) ==
  /\ client[c] = "idle" /\ link[c] = "closed" /\ nReq < MaxReq
  /\ client' = [client EXCEPT ![c] = "panicked"]
  /\ UNCHANGED <<foreign, nReq, told, serverVars, link, streams, resp, half>>

Waiting(c) == client[c] \in {"list", "borrow", "lend"}

(* What req_list_devices, req_borrow and req_lend make of an answer: a grant,
   an error for their caller, or unimplemented!. *)
outcome_NoProto(what, a) == IF a \in {what, "VersionMismatch", "NoDev", "DevBusy"}
                            THEN a ELSE IF a = "Proto" THEN "NoDev" ELSE "panic"
outcome(what, a) ==
  CASE a \in {what, "VersionMismatch"} -> a
    [] what # "list" /\ a = "Proto" -> "VersionMismatch"
    [] what # "list" /\ a \in {"NoDev", "DevBusy"} -> a
    [] OTHER -> "panic"

answered(c) ==
  /\ Waiting(c) /\ resp[c] # "none"
  /\ LET o == outcome(client[c], resp[c])
         granted == o \in {"borrow", "lend"}
     IN /\ client' = [client EXCEPT ![c] = IF o = "panic" THEN "panicked" ELSE
                                           IF granted THEN "using" ELSE "idle"]
        /\ told' = [told EXCEPT ![c] = o]
        /\ link' = [link EXCEPT ![c] = IF o = "panic" THEN "closed" ELSE @]
  /\ resp' = [resp EXCEPT ![c] = "none"]
  /\ UNCHANGED <<foreign, nReq, serverVars, streams, half>>

(* Closing a connection discards what is still under way.  When the session had
   taken the stream, its end may arrive before that: BufferShort, which is
   unimplemented! except for the list. *)
unanswered(c) ==
  /\ Waiting(c) /\ link[c] = "closed"
  /\ \/ client' = [client EXCEPT ![c] = "idle"] /\ told' = [told EXCEPT ![c] = "Network"]
     \/ /\ client[c] # "list" /\ streams[c] = <<>>
        /\ client' = [client EXCEPT ![c] = "panicked"] /\ told' = [told EXCEPT ![c] = "panic"]
  /\ UNCHANGED <<foreign, nReq, serverVars, link, streams, resp, half>>

(* borrow or lend on the client's side ends: the server's side has ended, or
   its own token is cancelled, or its device is gone. *)
halfEnds(c) ==
  /\ client[c] = "using"
  /\ client' = [client EXCEPT ![c] = "idle"] /\ half' = [half EXCEPT ![c] = FALSE]
  /\ UNCHANGED <<foreign, nReq, told, serverVars, link, streams, resp>>

Serving(c) == sess[c] \in {"lending", "registering", "borrowing"} /\ half[c]
serverEnded(c) == ~Serving(c) /\ halfEnds(c)
cancelled(c) == Serving(c) /\ halfEnds(c)

leave(c) ==
  /\ client[c] \notin {"off", "gone", "panicked"}
  /\ client' = [client EXCEPT ![c] = "gone"] /\ half' = [half EXCEPT ![c] = FALSE]
  /\ link' = [link EXCEPT ![c] = "closed"] /\ streams' = [streams EXCEPT ![c] = <<>>]
  /\ UNCHANGED <<foreign, nReq, told, serverVars, resp>>

-----------------------------------------------------------------------------
(* serve: connections become session tasks; ended sessions are heard of; its
   merged stream of events has no end, so nothing follows its loop. *)
incoming(c) ==
  /\ link[c] # "none" /\ sess[c] = "none" /\ ~token
  /\ sess' = [sess EXCEPT ![c] = "connecting"]
  /\ UNCHANGED <<clientVars, token, asked, held, ports, done, reported, late,
                 link, streams, resp, half>>

taskEnded_StopsOnCancel == done # <<>> /\ ~token
taskEnded == done # <<>>
serve ==
  /\ taskEnded
  /\ done' = <<>> /\ reported' = reported \cup {done[1]}
  /\ UNCHANGED <<clientVars, token, asked, sess, held, ports, late, link, streams, resp, half>>

shutdown ==
  /\ ~asked /\ asked' = TRUE /\ token' = TRUE
  /\ UNCHANGED <<clientVars, sess, held, ports, done, reported, late, link, streams, resp, half>>

-----------------------------------------------------------------------------
(* open_session.  Its task keeps a connection for as long as it runs. *)
goesTo(c, s) == sess' = [sess EXCEPT ![c] = s]
rest == <<clientVars, asked, done, reported>>

(* It returns, or unwinds: the connection is dropped with it. *)
ends_KeepsConnection(c) == goesTo(c, "ending") /\ UNCHANGED link
ends(c) == goesTo(c, "ending") /\ link' = [link EXCEPT ![c] = "closed"]
panics(c) == goesTo(c, "panicked") /\ link' = [link EXCEPT ![c] = "closed"]

establish(c) ==
  /\ sess[c] = "connecting"
  /\ \/ link[c] = "incoming" /\ goesTo(c, "loop")
        /\ link' = [link EXCEPT ![c] = "open"]
     \/ link[c] = "closed" /\ panics(c)
     \/ token /\ ends(c)
  /\ UNCHANGED <<rest, token, held, ports, late, streams, resp, half>>

mayGoOn_NoToken(c) == link[c] = "open"
mayGoOn(c) == link[c] = "open" /\ ~token
loop(c) ==
  /\ sess[c] = "loop"
  /\ \/ mayGoOn(c) /\ goesTo(c, "accept") /\ UNCHANGED link
     \/ ~mayGoOn(c) /\ ends(c)
  /\ UNCHANGED <<rest, token, held, ports, late, streams, resp, half>>

(* accept_bi: a stream, or an error that is unwrapped. *)
accept_bi(c) ==
  /\ sess[c] = "accept"
  /\ \/ /\ link[c] = "open" /\ streams[c] # <<>>
        /\ goesTo(c, "reading") /\ UNCHANGED link
        /\ late' = [late EXCEPT ![c] = IF token THEN @ + 1 ELSE @]
     \/ link[c] = "closed" /\ panics(c) /\ UNCHANGED late
  /\ UNCHANGED <<rest, token, held, ports, streams, resp, half>>

(* The request of the stream is read; r is what it is, and the answer a goes
   out before anything else. *)
This(c) == Head(streams[c])
send_resp(c, a) == resp' = [resp EXCEPT ![c] = a]
reads(c) ==
  /\ sess[c] = "reading" /\ link[c] = "open"
  /\ streams' = [streams EXCEPT ![c] = Tail(@)]
  /\ UNCHANGED <<rest, token, ports, late>>

accept_empty(c) ==
  /\ reads(c) /\ This(c).form = "empty"
  /\ panics(c) /\ UNCHANGED <<held, resp, half>>
accept_corrupt(c) ==
  /\ reads(c) /\ This(c).form = "corrupt"
  /\ send_resp(c, "Proto") /\ ends(c) /\ UNCHANGED <<held, half>>

is_compat_Any(c) == TRUE
is_compat(c) == c \notin foreign
accept_foreign(c) ==
  /\ reads(c) /\ This(c).form = "good" /\ ~is_compat(c)
  /\ send_resp(c, "VersionMismatch") /\ ends(c) /\ UNCHANGED <<held, half>>

asks(c, what) == reads(c) /\ This(c).form = "good" /\ is_compat(c) /\ This(c).what = what
accept_list(c) ==
  /\ asks(c, "list") /\ goesTo(c, "listing") /\ UNCHANGED link /\ UNCHANGED <<held, resp, half>>
accept_lend(c) ==
  /\ asks(c, "lend") /\ send_resp(c, "lend")
  /\ half' = [half EXCEPT ![c] = TRUE]
  /\ goesTo(c, "registering") /\ UNCHANGED <<link, held>>

(* open_device: the device that another session has claimed is reset, and the
   claim that then fails is todo!. *)
claimed_NotSeen(d) == FALSE
claimed(d) == \E c \in Clients : held[c] = d
statusOf(e) ==
  CASE e \in {"Io", "Access"} -> "Failed"
    [] e \in {"NoDevice", "NotFound"} -> "NoDev"
    [] e = "Busy" -> "DevBusy"
    [] e = "Timeout" -> e
    [] e = "BadDescriptor" -> "DevErr"
    [] OTHER -> "Unexpected"
accept_borrow_AnswersFirst(c) ==
  /\ asks(c, "borrow") /\ send_resp(c, "borrow")
  /\ half' = [half EXCEPT ![c] = TRUE] /\ UNCHANGED link
  /\ \/ ~claimed(This(c).dev) /\ held' = [held EXCEPT ![c] = This(c).dev] /\ goesTo(c, "lending")
     \/ OpenErrors # {} /\ goesTo(c, "loop") /\ UNCHANGED held
accept_borrow(c) ==
  /\ asks(c, "borrow")
  /\ \/ /\ ~claimed(This(c).dev) /\ held' = [held EXCEPT ![c] = This(c).dev]
        /\ send_resp(c, "borrow") /\ half' = [half EXCEPT ![c] = TRUE]
        /\ goesTo(c, "lending") /\ UNCHANGED link
     \/ claimed(This(c).dev) /\ panics(c) /\ UNCHANGED <<held, resp, half>>
     \/ \E e \in OpenErrors :
          /\ IF e \in {"Io", "Overflow", "BadDescriptor"}   \* Error::from: todo!
             THEN panics(c) /\ UNCHANGED resp
             ELSE send_resp(c, statusOf(e)) /\ ends(c)
          /\ UNCHANGED <<held, half>>

(* Reading, or answering, on a connection that is closed. *)
accept_lost(c) ==
  /\ sess[c] \in {"reading", "listing"} /\ link[c] = "closed" /\ ends(c)
  /\ UNCHANGED <<rest, token, held, ports, late, streams, resp, half>>

send_device_list(c) ==
  /\ sess[c] = "listing" /\ link[c] = "open"
  /\ \/ send_resp(c, "list") /\ goesTo(c, "loop") /\ UNCHANGED link
     \/ send_resp(c, "Failed") /\ ends(c)
  /\ UNCHANGED <<rest, token, held, ports, late, streams, half>>

(* lend: when both loops have ended, which may be with an error, it cancels the
   token it was given, drops the device and waits for its libusb thread. *)
peerGone(c) == link[c] = "closed" \/ ~half[c]
lendEnds(c) ==
  /\ sess[c] = "lending"
  /\ token' = TRUE
  /\ held' = [held EXCEPT ![c] = NoDev]
  /\ half' = [half EXCEPT ![c] = FALSE]
  /\ ends(c) \/ (goesTo(c, "loop") /\ UNCHANGED link)
  /\ UNCHANGED <<rest, ports, late, streams, resp>>
lendStops(c) == (token \/ peerGone(c)) /\ lendEnds(c)
unplug(c) == ~token /\ ~peerGone(c) /\ lendEnds(c)

(* borrow: a port first, which there may be none of; then the same end. *)
freePort_OffByOne == Cardinality(ports) <= NumPorts
freePort == Cardinality(ports) < NumPorts
register(c) ==
  /\ sess[c] = "registering"
  /\ IF freePort
     THEN ports' = ports \cup {c} /\ goesTo(c, "borrowing") /\ UNCHANGED link
     ELSE ends(c) /\ UNCHANGED ports
  /\ UNCHANGED <<rest, token, held, late, streams, resp, half>>
borrowStops(c) ==
  /\ sess[c] = "borrowing" /\ (token \/ peerGone(c))
  /\ token' = TRUE
  /\ half' = [half EXCEPT ![c] = FALSE]
  /\ goesTo(c, "disconnecting")
  /\ UNCHANGED <<rest, held, ports, late, link, streams, resp>>
disconnect(c) ==
  /\ sess[c] = "disconnecting"
  /\ ports' = ports \ {c}
  /\ ends(c) \/ (goesTo(c, "loop") /\ UNCHANGED link)
  /\ UNCHANGED <<rest, token, held, late, streams, resp, half>>

(* The task tells serve how its session ended. *)
report(c) ==
  /\ sess[c] = "ending" /\ done = <<>>
  /\ done' = <<c>> /\ goesTo(c, "done")
  /\ UNCHANGED <<clientVars, token, asked, held, ports, reported, late,
                 link, streams, resp, half>>

-----------------------------------------------------------------------------
Accept(c) == \/ accept_bi(c) \/ accept_lost(c) \/ accept_empty(c) \/ accept_corrupt(c)
             \/ accept_foreign(c) \/ accept_list(c) \/ accept_borrow(c) \/ accept_lend(c)
SessionStep(c) ==
  \/ establish(c) \/ loop(c) \/ Accept(c) \/ send_device_list(c)
  \/ lendStops(c)
  \/ register(c) \/ borrowStops(c) \/ disconnect(c) \/ report(c)
ClientStep(c) ==
  \/ connected(c) \/ connectFails(c) \/ answered(c) \/ unanswered(c)
  \/ serverEnded(c)
ClientChoice(c) ==
  \/ connect(c) \/ (\E r \in Req : ask(c, r)) \/ askFails(c)
  \/ cancelled(c) \/ leave(c)

ServerNext ==
  \/ serve \/ shutdown
  \/ \E c \in Clients : \/ incoming(c) \/ SessionStep(c) \/ unplug(c)
                        \/ ClientStep(c) \/ ClientChoice(c)

(* Tasks that can run are polled: serve, every session, every client that
   waits for something.  Nobody has to ask, leave, unplug or shut down. *)
ServerSpec ==
  /\ ServerInit /\ [][ServerNext]_srvVars
  /\ WF_srvVars(serve)
  /\ \A c \in Clients : WF_srvVars(incoming(c)) /\ WF_srvVars(SessionStep(c))
                          /\ WF_srvVars(ClientStep(c))

-----------------------------------------------------------------------------
(* Every variable keeps its type. *)
ServerTypeOK ==
  /\ token \in BOOLEAN /\ asked \in BOOLEAN
  /\ client \in [Clients -> {"off", "connecting", "idle", "list", "borrow", "lend", "using",
                             "gone", "panicked"}]
  /\ nReq \in 0..MaxReq /\ foreign \subseteq MayDiffer
  /\ link \in [Clients -> {"none", "incoming", "open", "closed"}]
  /\ \A c \in Clients : Len(streams[c]) <= MaxReq /\ \A i \in DOMAIN streams[c] : streams[c][i] \in Req
  /\ half \in [Clients -> BOOLEAN] /\ held \in [Clients -> Devices \cup {NoDev}]
  /\ sess \in [Clients -> {"none", "connecting", "loop", "accept", "reading", "listing",
                           "lending", "registering", "borrowing", "disconnecting",
                           "ending", "done", "panicked"}]
  /\ ports \subseteq Clients /\ Cardinality(ports) <= NumPorts
  /\ Len(done) <= 1 /\ reported \subseteq {c \in Clients : sess[c] = "done"}
  /\ late \in [Clients -> 0..MaxReq]

(* A device is lent to one client at a time, and only by a session that still
   runs its loops: no way out of a session keeps a device or a port. *)
HeldOnce ==
  \A c \in Clients :
    /\ held[c] # NoDev => /\ sess[c] = "lending"
                          /\ \A d \in Clients \ {c} : held[d] # held[c]
    /\ c \in ports => sess[c] \in {"borrowing", "disconnecting"}

(* A peer of another version gets no device and no port, and what it is told
   is the version mismatch, whether or not its request could be read. *)
VersionGate ==
  \A c \in foreign : /\ held[c] = NoDev /\ c \notin ports
                     /\ told[c] \in {"nothing", "VersionMismatch", "Network", "panic"}

(* A client that runs its half has been answered by a session that got as far:
   the answer is never ahead of the device. *)
GrantBacked ==
  \A c \in Clients : client[c] = "using" /\ half[c] /\ link[c] = "open" =>
    /\ told[c] = "borrow" => held[c] # NoDev
    /\ told[c] = "lend" => sess[c] \in {"registering", "borrowing"}

(* Once the token is cancelled a session takes one more request at most. *)
OneMoreAfterCancel == \A c \in Clients : late[c] <= 1

(* Every request comes to an end for the client that waits for it. *)
RequestResolves == \A c \in Clients : Waiting(c) ~> ~Waiting(c)

(* The token, or the loss of its client, ends a session that lends or borrows,
   with all it holds (HeldOnce), and serve hears of it. *)
DeviceSessionEnds ==
  \A c \in Clients : sess[c] \in {"lending", "borrowing"} /\ (token \/ link[c] = "closed")
                       ~> c \in reported

-----------------------------------------------------------------------------
(* BorrowDevice::borrow: a session that borrows is only told to stop for a
   reason of its own, or by shutdown. *)
StopsForItself ==
  \A c \in Clients : token /\ sess[c] = "borrowing" => asked
=============================================================================
