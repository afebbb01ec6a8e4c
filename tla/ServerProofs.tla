----------------------------- MODULE ServerProofs -----------------------------
(***************************************************************************)
(* The server for any number of clients, devices, ports and requests: what *)
(* a session holds it gives back on every way out, a peer of another       *)
(* version gets nothing, and the token lets one more request through.      *)
(***************************************************************************)
EXTENDS Server, FiniteSetTheorems, SequenceTheorems, TLAPS

ClientStates == {"off", "connecting", "idle", "list", "borrow", "lend", "using",
                 "gone", "panicked"}
LinkStates == {"none", "incoming", "open", "closed"}
SessStates == {"none", "connecting", "loop", "accept", "reading", "listing",
               "lending", "registering", "borrowing", "disconnecting",
               "ending", "done", "panicked"}
Answers == {"none", "list", "borrow", "lend", "Proto", "VersionMismatch", "NoDev", "DevBusy",
            "Failed", "Timeout", "DevErr", "Unexpected"}
Told == Answers \cup {"nothing", "Network", "panic"}
Served == {"listing", "lending", "registering", "borrowing", "disconnecting"}

(* The inductive invariant.  The types first; then what is counted; what a
   session holds and in which states; a peer of another version, which is
   answered but never served; and the one request that may slip through while
   the session is past its look at the token. *)
SrvTypes ==
  /\ token \in BOOLEAN /\ asked \in BOOLEAN /\ nReq \in Nat
  /\ foreign \subseteq MayDiffer /\ ports \subseteq Clients
  /\ client \in [Clients -> ClientStates] /\ link \in [Clients -> LinkStates]
  /\ sess \in [Clients -> SessStates] /\ half \in [Clients -> BOOLEAN]
  /\ held \in [Clients -> Devices \cup {NoDev}]
  /\ streams \in [Clients -> Seq(Req)] /\ late \in [Clients -> Nat]
  /\ resp \in [Clients -> Answers] /\ told \in [Clients -> Told]
Counted ==
  /\ nReq <= MaxReq /\ \A c \in Clients : Len(streams[c]) <= nReq
  /\ \A c \in Clients : late[c] # 0 => nReq # 0
Readable ==
  \A c \in Clients : /\ sess[c] = "reading" => link[c] = "closed" \/ streams[c] # <<>>
                     /\ link[c] = "none" => sess[c] = "none"
                     /\ client[c] = "off" => link[c] = "none"
PortsOK == IsFiniteSet(ports) /\ Cardinality(ports) <= NumPorts
Ended ==
  /\ reported \subseteq {c \in Clients : sess[c] = "done"}
  /\ done = <<>> \/ \E c \in Clients : done = <<c>> /\ sess[c] = "done"
Gated ==
  \A c \in foreign : /\ sess[c] \notin Served
                     /\ resp[c] \in {"none", "Proto", "VersionMismatch"}
                     /\ told[c] \in {"nothing", "VersionMismatch", "Network", "panic"}
Slipped ==
  \A c \in Clients : \/ late[c] = 0
                     \/ late[c] = 1 /\ token /\ sess[c] \notin {"none", "connecting", "accept"}

LEMMA TypesStep ==
  ASSUME SrvTypes, Readable, [ServerNext]_srvVars
  PROVE  SrvTypes'
<1>1. ASSUME NEW c \in Clients, connect(c) PROVE SrvTypes'
  BY <1>1 DEF SrvTypes, connect, serverVars, ClientStates, LinkStates
<1>2. ASSUME NEW c \in Clients, connected(c) PROVE SrvTypes'
  BY <1>2 DEF SrvTypes, connected, serverVars, ClientStates
<1>3. ASSUME NEW c \in Clients, connectFails(c) PROVE SrvTypes'
  BY <1>3 DEF SrvTypes, connectFails, serverVars, ClientStates, LinkStates
<1>4. ASSUME NEW c \in Clients, NEW r \in Req, ask(c, r) PROVE SrvTypes'
  <2>1. r.what \in ClientStates
    BY DEF Req, ClientStates
  <2>2. Append(streams[c], r) \in Seq(Req)
    BY DEF SrvTypes
  <2> QED BY <1>4, <2>1, <2>2 DEF SrvTypes, Answers, ask, serverVars, ClientStates
<1>5. ASSUME NEW c \in Clients, askFails(c) PROVE SrvTypes'
  BY <1>5 DEF SrvTypes, askFails, serverVars, ClientStates
<1>6. ASSUME NEW c \in Clients, answered(c) PROVE SrvTypes'
  <2>1. outcome(client[c], resp[c]) \in Told
    <3>1. resp[c] \in Answers
      BY DEF SrvTypes
    <3> QED BY <3>1 DEF outcome, Told, Answers
  <2>2. "none" \in Answers
    BY DEF Answers
  <2> QED BY <1>6, <2>1, <2>2 DEF SrvTypes, answered, serverVars, ClientStates, LinkStates
<1>7. ASSUME NEW c \in Clients, unanswered(c) PROVE SrvTypes'
  BY <1>7 DEF SrvTypes, Told, unanswered, serverVars, ClientStates
<1>8. ASSUME NEW c \in Clients, halfEnds(c) PROVE SrvTypes'
  BY <1>8 DEF SrvTypes, halfEnds, serverVars, ClientStates
<1>9. ASSUME NEW c \in Clients, leave(c) PROVE SrvTypes'
  BY <1>9 DEF SrvTypes, leave, serverVars, ClientStates, LinkStates
<1>10. ASSUME NEW c \in Clients, incoming(c) PROVE SrvTypes'
  BY <1>10 DEF SrvTypes, incoming, clientVars, SessStates
<1>11. CASE serve
  BY <1>11 DEF SrvTypes, serve, clientVars
<1>12. CASE shutdown
  BY <1>12 DEF SrvTypes, shutdown, clientVars
<1>13. ASSUME NEW c \in Clients, establish(c) PROVE SrvTypes'
  BY <1>13 DEF SrvTypes, establish, goesTo, ends, panics, rest, clientVars, SessStates, LinkStates
<1>14. ASSUME NEW c \in Clients, loop(c) PROVE SrvTypes'
  BY <1>14 DEF SrvTypes, loop, goesTo, ends, rest, clientVars, SessStates, LinkStates
<1>15. ASSUME NEW c \in Clients, accept_bi(c) PROVE SrvTypes'
  <2>1. late[c] \in Nat /\ late[c] + 1 \in Nat
    BY DEF SrvTypes
  <2>2. late' \in [Clients -> Nat]
    BY <1>15, <2>1 DEF SrvTypes, accept_bi
  <2> QED BY <1>15, <2>2
      DEF SrvTypes, accept_bi, goesTo, panics, rest, clientVars, SessStates, LinkStates
<1>16. ASSUME NEW c \in Clients, accept_lost(c) PROVE SrvTypes'
  BY <1>16 DEF SrvTypes, accept_lost, goesTo, ends, rest, clientVars, SessStates, LinkStates
<1>17. ASSUME NEW c \in Clients, reads(c)
       PROVE  streams' \in [Clients -> Seq(Req)] /\ UNCHANGED <<rest, token, ports, late>>
  <2>1. streams[c] \in Seq(Req) /\ streams[c] # <<>>
    BY <1>17 DEF SrvTypes, Readable, reads
  <2>2. Tail(streams[c]) \in Seq(Req)
    BY <2>1
  <2> QED BY <1>17, <2>2 DEF SrvTypes, reads
<1>18. ASSUME NEW c \in Clients, accept_empty(c) PROVE SrvTypes'
  <2>1. streams' \in [Clients -> Seq(Req)] /\ UNCHANGED <<rest, token, ports, late>>
    BY <1>17, <1>18 DEF accept_empty
  <2> QED BY <1>18, <2>1 DEF SrvTypes, accept_empty, goesTo, panics, rest, clientVars, SessStates, LinkStates
<1>19. ASSUME NEW c \in Clients, accept_corrupt(c) PROVE SrvTypes'
  <2>1. streams' \in [Clients -> Seq(Req)] /\ UNCHANGED <<rest, token, ports, late>>
    BY <1>17, <1>19 DEF accept_corrupt
  <2> QED BY <1>19, <2>1 DEF SrvTypes, Answers, accept_corrupt, send_resp, goesTo, ends, rest, clientVars, SessStates, LinkStates
<1>20. ASSUME NEW c \in Clients, accept_foreign(c) PROVE SrvTypes'
  <2>1. streams' \in [Clients -> Seq(Req)] /\ UNCHANGED <<rest, token, ports, late>>
    BY <1>17, <1>20 DEF accept_foreign
  <2> QED BY <1>20, <2>1 DEF SrvTypes, Answers, accept_foreign, send_resp, goesTo, ends, rest, clientVars, SessStates, LinkStates
<1>21. ASSUME NEW c \in Clients, accept_list(c) PROVE SrvTypes'
  <2>1. streams' \in [Clients -> Seq(Req)] /\ UNCHANGED <<rest, token, ports, late>>
    BY <1>17, <1>21 DEF accept_list, asks
  <2> QED BY <1>21, <2>1 DEF SrvTypes, accept_list, goesTo, rest, clientVars, SessStates
<1>22. ASSUME NEW c \in Clients, accept_lend(c) PROVE SrvTypes'
  <2>1. streams' \in [Clients -> Seq(Req)] /\ UNCHANGED <<rest, token, ports, late>>
    BY <1>17, <1>22 DEF accept_lend, asks
  <2> QED BY <1>22, <2>1 DEF SrvTypes, Answers, accept_lend, send_resp, goesTo, rest, clientVars, SessStates
<1>23. ASSUME NEW c \in Clients, accept_borrow(c) PROVE SrvTypes'
  <2>1. streams' \in [Clients -> Seq(Req)] /\ UNCHANGED <<rest, token, ports, late>>
    BY <1>17, <1>23 DEF accept_borrow, asks
  <2>2. This(c).dev \in Devices
    <3>1. streams[c] \in Seq(Req) /\ streams[c] # <<>>
      BY <1>23 DEF SrvTypes, Readable, accept_borrow, asks, reads
    <3>2. Head(streams[c]) \in Req
      BY <3>1
    <3> QED BY <3>2 DEF This, Req
  <2>3. \A e \in OpenErrors : statusOf(e) \in Answers
    BY DEF statusOf, Answers
  <2>4. /\ "borrow" \in Answers /\ {"lending", "ending", "panicked"} \subseteq SessStates
        /\ "closed" \in LinkStates
    BY DEF Answers, SessStates, LinkStates
  <2>5. CASE ~claimed(This(c).dev) /\ held' = [held EXCEPT ![c] = This(c).dev]
             /\ send_resp(c, "borrow") /\ half' = [half EXCEPT ![c] = TRUE]
             /\ goesTo(c, "lending") /\ UNCHANGED link
    BY <2>1, <2>2, <2>4, <2>5 DEF SrvTypes, send_resp, goesTo, rest, clientVars
  <2>6. CASE panics(c) /\ UNCHANGED <<held, resp, half>>
    BY <2>1, <2>4, <2>6 DEF SrvTypes, panics, goesTo, rest, clientVars
  <2>7. ASSUME NEW e \in OpenErrors, send_resp(c, statusOf(e)), ends(c), UNCHANGED <<held, half>>
        PROVE  SrvTypes'
    BY <2>1, <2>3, <2>4, <2>7 DEF SrvTypes, send_resp, ends, goesTo, rest, clientVars
  <2> QED BY <1>23, <2>5, <2>6, <2>7 DEF accept_borrow
<1>24. ASSUME NEW c \in Clients, send_device_list(c) PROVE SrvTypes'
  BY <1>24 DEF SrvTypes, Answers, send_device_list, send_resp, goesTo, ends, rest, clientVars, SessStates, LinkStates
<1>25. ASSUME NEW c \in Clients, lendEnds(c) PROVE SrvTypes'
  BY <1>25 DEF SrvTypes, lendEnds, goesTo, ends, rest, clientVars, SessStates, LinkStates
<1>26. ASSUME NEW c \in Clients, register(c) PROVE SrvTypes'
  BY <1>26 DEF SrvTypes, register, goesTo, ends, rest, clientVars, SessStates, LinkStates
<1>27. ASSUME NEW c \in Clients, borrowStops(c) PROVE SrvTypes'
  BY <1>27 DEF SrvTypes, borrowStops, goesTo, rest, clientVars, SessStates
<1>28. ASSUME NEW c \in Clients, disconnect(c) PROVE SrvTypes'
  BY <1>28 DEF SrvTypes, disconnect, goesTo, ends, rest, clientVars, SessStates, LinkStates
<1>29. ASSUME NEW c \in Clients, report(c) PROVE SrvTypes'
  BY <1>29 DEF SrvTypes, report, goesTo, clientVars, SessStates
<1>30. CASE UNCHANGED srvVars
  BY <1>30 DEF SrvTypes, srvVars, clientVars, serverVars
<1> QED
  BY <1>1, <1>2, <1>3, <1>4, <1>5, <1>6, <1>7, <1>8, <1>9, <1>10, <1>11, <1>12, <1>13, <1>14,
     <1>15, <1>16, <1>18, <1>19, <1>20, <1>21, <1>22, <1>23, <1>24, <1>25, <1>26, <1>27,
     <1>28, <1>29, <1>30
  DEF ServerNext, SessionStep, ClientStep, ClientChoice, Accept, serverEnded, cancelled,
      lendStops, unplug

-----------------------------------------------------------------------------
(* A step that leaves the sessions and what they hold alone. *)
LEMMA HeldSame ==
  ASSUME HeldOnce, UNCHANGED <<sess, held, ports>> PROVE HeldOnce'
BY DEF HeldOnce

(* A session without a device or a port moves on, and takes none. *)
LEMMA HeldMoves ==
  ASSUME SrvTypes, HeldOnce, NEW c \in Clients,
         sess[c] \notin {"lending", "borrowing", "disconnecting"},
         NEW s \in SessStates, sess' = [sess EXCEPT ![c] = s], UNCHANGED <<held, ports>>
  PROVE  HeldOnce'
<1>1. held[c] = NoDev /\ c \notin ports
  BY DEF HeldOnce
<1>2. \A e \in Clients : e # c => sess'[e] = sess[e]
  BY DEF SrvTypes
<1> QED BY <1>1, <1>2 DEF HeldOnce

LEMMA HeldStep ==
  ASSUME SrvTypes, HeldOnce, [ServerNext]_srvVars
  PROVE  HeldOnce'
<1>1. ASSUME NEW c \in Clients, ClientStep(c) \/ ClientChoice(c) PROVE HeldOnce'
  <2>1. UNCHANGED serverVars
    BY <1>1 DEF ClientStep, ClientChoice, connected, connectFails, answered, unanswered,
                serverEnded, cancelled, halfEnds, connect, ask, askFails, leave
  <2> QED BY <2>1, HeldSame DEF serverVars
<1>2. CASE serve \/ shutdown \/ UNCHANGED srvVars
  BY <1>2, HeldSame DEF serve, shutdown, srvVars, serverVars
<1>3. ASSUME NEW c \in Clients, incoming(c) \/ establish(c) \/ loop(c) \/ accept_bi(c) \/ accept_lost(c)
      PROVE  HeldOnce'
  <2>1. UNCHANGED <<held, ports>> /\ sess[c] \notin {"lending", "borrowing", "disconnecting"}
    BY <1>3 DEF incoming, establish, loop, accept_bi, accept_lost
  <2>2. \E s \in SessStates : sess' = [sess EXCEPT ![c] = s]
    BY <1>3 DEF incoming, establish, loop, accept_bi, accept_lost, goesTo, ends, panics, SessStates
  <2> QED BY <2>1, <2>2, HeldMoves
<1>4. ASSUME NEW c \in Clients,
             accept_empty(c) \/ accept_corrupt(c) \/ accept_foreign(c) \/ accept_list(c) \/ accept_lend(c)
      PROVE  HeldOnce'
  <2>1. UNCHANGED <<held, ports>> /\ sess[c] = "reading"
    BY <1>4 DEF accept_empty, accept_corrupt, accept_foreign, accept_list, accept_lend, asks, reads
  <2>2. \E s \in SessStates : sess' = [sess EXCEPT ![c] = s]
    BY <1>4 DEF accept_empty, accept_corrupt, accept_foreign, accept_list, accept_lend,
                goesTo, ends, panics, SessStates
  <2> QED BY <2>1, <2>2, HeldMoves
<1>5. ASSUME NEW c \in Clients, accept_borrow(c) PROVE HeldOnce'
  <2>1. sess[c] = "reading" /\ ports' = ports
    BY <1>5 DEF accept_borrow, asks, reads
  <2>2. CASE ~claimed(This(c).dev) /\ held' = [held EXCEPT ![c] = This(c).dev] /\ goesTo(c, "lending")
    <3>1. \A e \in Clients : held[e] # This(c).dev
      BY <2>2 DEF claimed
    <3>2. \A e \in Clients : /\ held'[e] = IF e = c THEN This(c).dev ELSE held[e]
                             /\ sess'[e] = IF e = c THEN "lending" ELSE sess[e]
      BY <2>2 DEF SrvTypes, goesTo
    <3>3. c \notin ports
      BY <2>1 DEF HeldOnce
    <3> QED BY <2>1, <3>1, <3>2, <3>3 DEF HeldOnce
  <2>3. CASE UNCHANGED held /\ (panics(c) \/ ends(c))
    <3>1. \E s \in SessStates : sess' = [sess EXCEPT ![c] = s]
      BY <2>3 DEF panics, ends, goesTo, SessStates
    <3> QED BY <2>1, <2>3, <3>1, HeldMoves
  <2> QED BY <1>5, <2>2, <2>3 DEF accept_borrow
<1>6. ASSUME NEW c \in Clients, send_device_list(c) \/ report(c) PROVE HeldOnce'
  <2>1. UNCHANGED <<held, ports>> /\ sess[c] \notin {"lending", "borrowing", "disconnecting"}
    BY <1>6 DEF send_device_list, report
  <2>2. \E s \in SessStates : sess' = [sess EXCEPT ![c] = s]
    BY <1>6 DEF send_device_list, report, goesTo, ends, SessStates
  <2> QED BY <2>1, <2>2, HeldMoves
<1>7. ASSUME NEW c \in Clients, lendEnds(c) PROVE HeldOnce'
  <2>1. sess[c] = "lending" /\ ports' = ports /\ held' = [held EXCEPT ![c] = NoDev]
    BY <1>7 DEF lendEnds
  <2>2. \E s \in {"ending", "loop"} : sess' = [sess EXCEPT ![c] = s]
    BY <1>7 DEF lendEnds, ends, goesTo
  <2>3. /\ held'[c] = NoDev
        /\ \A e \in Clients : e # c => held'[e] = held[e] /\ sess'[e] = sess[e]
    BY <2>1, <2>2 DEF SrvTypes
  <2>4. c \notin ports
    BY <2>1 DEF HeldOnce
  <2> QED BY <2>1, <2>3, <2>4 DEF HeldOnce
<1>8. ASSUME NEW c \in Clients, register(c) PROVE HeldOnce'
  <2>1. sess[c] = "registering" /\ held' = held /\ held[c] = NoDev
    BY <1>8 DEF register, HeldOnce
  <2>2. CASE ports' = ports \cup {c} /\ goesTo(c, "borrowing")
    <3>1. sess'[c] = "borrowing" /\ \A e \in Clients : e # c => sess'[e] = sess[e]
      BY <2>2 DEF SrvTypes, goesTo
    <3> QED BY <2>1, <2>2, <3>1 DEF HeldOnce
  <2>3. CASE ports' = ports /\ ends(c)
    <3>1. "ending" \in SessStates /\ sess' = [sess EXCEPT ![c] = "ending"]
      BY <2>3 DEF ends, goesTo, SessStates
    <3> QED BY <2>1, <2>3, <3>1, HeldMoves
  <2> QED BY <1>8, <2>2, <2>3 DEF register
<1>9. ASSUME NEW c \in Clients, borrowStops(c) PROVE HeldOnce'
  <2>1. /\ sess[c] = "borrowing" /\ UNCHANGED <<held, ports>> /\ held[c] = NoDev
        /\ sess' = [sess EXCEPT ![c] = "disconnecting"]
    BY <1>9 DEF borrowStops, goesTo, HeldOnce
  <2>2. sess'[c] = "disconnecting" /\ \A e \in Clients : e # c => sess'[e] = sess[e]
    BY <2>1 DEF SrvTypes
  <2> QED BY <2>1, <2>2 DEF HeldOnce
<1>10. ASSUME NEW c \in Clients, disconnect(c) PROVE HeldOnce'
  <2>1. sess[c] = "disconnecting" /\ held' = held /\ ports' = ports \ {c} /\ held[c] = NoDev
    BY <1>10 DEF disconnect, HeldOnce
  <2>2. \A e \in Clients : e # c => sess'[e] = sess[e]
    BY <1>10 DEF SrvTypes, disconnect, ends, goesTo
  <2> QED BY <2>1, <2>2 DEF HeldOnce
<1> QED BY <1>1, <1>2, <1>3, <1>4, <1>5, <1>6, <1>7, <1>8, <1>9, <1>10
        DEF ServerNext, SessionStep, Accept, lendStops, unplug

-----------------------------------------------------------------------------
LEMMA PortsStep ==
  ASSUME PortsOK, [ServerNext]_srvVars
  PROVE  PortsOK'
<1>0. NumPorts \in Nat /\ Cardinality(ports) \in Nat
  BY ServerAssumption, FS_CardinalityType DEF PortsOK
<1>1. CASE UNCHANGED ports
  BY <1>1 DEF PortsOK
<1>2. ASSUME NEW c \in Clients, register(c) PROVE PortsOK'
  <2>1. CASE freePort /\ ports' = ports \cup {c}
    <3>1. /\ IsFiniteSet(ports \cup {c})
          /\ Cardinality(ports \cup {c}) = IF c \in ports THEN Cardinality(ports) ELSE Cardinality(ports) + 1
      BY FS_AddElement DEF PortsOK
    <3> QED BY <1>0, <2>1, <3>1 DEF PortsOK, freePort
  <2> QED BY <1>1, <1>2, <2>1 DEF register
<1>3. ASSUME NEW c \in Clients, disconnect(c) PROVE PortsOK'
  <2>1. ports' = ports \ {c}
    BY <1>3 DEF disconnect
  <2>2. /\ IsFiniteSet(ports \ {c})
        /\ Cardinality(ports \ {c}) = IF c \in ports THEN Cardinality(ports) - 1 ELSE Cardinality(ports)
    BY FS_RemoveElement DEF PortsOK
  <2> QED BY <1>0, <2>1, <2>2 DEF PortsOK
<1>4. ASSUME NEW c \in Clients, ClientStep(c) \/ ClientChoice(c) PROVE UNCHANGED ports
  BY <1>4 DEF ClientStep, ClientChoice, connected, connectFails, answered, unanswered,
              serverEnded, cancelled, halfEnds, connect, ask, askFails, leave, serverVars
<1>5. ASSUME NEW c \in Clients, Accept(c) PROVE UNCHANGED ports
  BY <1>5 DEF Accept, accept_bi, accept_lost, accept_empty, accept_corrupt, accept_foreign,
              accept_list, accept_borrow, accept_lend, asks, reads
<1>6. ASSUME NEW c \in Clients, incoming(c) \/ establish(c) \/ loop(c) \/ send_device_list(c)
                                \/ lendEnds(c) \/ borrowStops(c) \/ report(c)
      PROVE  UNCHANGED ports
  BY <1>6 DEF incoming, establish, loop, send_device_list, lendEnds, borrowStops, report
<1>7. ASSUME serve \/ shutdown \/ UNCHANGED srvVars PROVE UNCHANGED ports
  BY <1>7 DEF serve, shutdown, srvVars, serverVars
<1> QED BY <1>1, <1>2, <1>3, <1>4, <1>5, <1>6, <1>7
        DEF ServerNext, SessionStep, lendStops, unplug

LEMMA CountedStep ==
  ASSUME SrvTypes, Counted, Readable, Slipped, [ServerNext]_srvVars
  PROVE  Counted'
<1>0. /\ nReq \in Nat /\ MaxReq \in Nat /\ streams \in [Clients -> Seq(Req)]
      /\ late \in [Clients -> Nat] /\ nReq <= MaxReq
      /\ \A e \in Clients : Len(streams[e]) \in Nat /\ Len(streams[e]) <= nReq
      /\ \A e \in Clients : late[e] # 0 => nReq # 0
  BY ServerAssumption DEF SrvTypes, Counted
<1>1. CASE UNCHANGED <<nReq, streams, late>>
  BY <1>0, <1>1 DEF Counted
<1>2. ASSUME NEW c \in Clients, NEW r \in Req, ask(c, r) PROVE Counted'
  <2>1. nReq' = nReq + 1 /\ nReq < MaxReq /\ late' = late /\ streams' = [streams EXCEPT ![c] = Append(@, r)]
    BY <1>2 DEF ask, serverVars
  <2>2. Len(Append(streams[c], r)) = Len(streams[c]) + 1
    BY <1>0
  <2>3. \A e \in Clients : Len(streams'[e]) <= nReq + 1
    BY <1>0, <2>1, <2>2
  <2>4. nReq + 1 <= MaxReq /\ nReq + 1 # 0
    BY <1>0, <2>1
  <2> QED BY <2>1, <2>3, <2>4 DEF Counted
<1>3. ASSUME NEW c \in Clients, leave(c) PROVE Counted'
  <2>1. nReq' = nReq /\ late' = late /\ streams' = [streams EXCEPT ![c] = <<>>]
    BY <1>3 DEF leave, serverVars
  <2>2. \A e \in Clients : Len(streams'[e]) <= nReq
    BY <1>0, <2>1
  <2> QED BY <1>0, <2>1, <2>2 DEF Counted
<1>4. ASSUME NEW c \in Clients, accept_bi(c) PROVE Counted'
  <2>1. nReq' = nReq /\ streams' = streams
    BY <1>4 DEF accept_bi, rest, clientVars
  <2>2. CASE late' = late
    BY <1>1, <2>1, <2>2
  <2>3. CASE streams[c] # <<>> /\ late' = [late EXCEPT ![c] = IF token THEN @ + 1 ELSE @]
    <3>1. streams[c] \in Seq(Req) /\ streams[c] # <<>>
      BY <1>0, <2>3
    <3>2. Len(streams[c]) # 0
      BY <3>1
    <3>3. nReq # 0
      BY <1>0, <3>2
    <3> QED BY <1>0, <2>1, <3>3 DEF Counted
  <2> QED BY <1>4, <2>2, <2>3 DEF accept_bi
<1>5. ASSUME NEW c \in Clients, reads(c) PROVE Counted'
  <2>1. nReq' = nReq /\ late' = late /\ streams' = [streams EXCEPT ![c] = Tail(@)]
    BY <1>5 DEF reads, rest, clientVars
  <2>2. streams[c] \in Seq(Req) /\ streams[c] # <<>>
    BY <1>0, <1>5 DEF reads, Readable
  <2>3. Len(Tail(streams[c])) = Len(streams[c]) - 1
    BY <2>2
  <2>4. \A e \in Clients : Len(streams'[e]) <= nReq
    BY <1>0, <2>1, <2>3
  <2> QED BY <1>0, <2>1, <2>4 DEF Counted
<1>6. ASSUME NEW c \in Clients, ClientStep(c) \/ connect(c) \/ askFails(c) \/ cancelled(c)
      PROVE  UNCHANGED <<nReq, streams, late>>
  BY <1>6 DEF ClientStep, connected, connectFails, answered, unanswered,
              serverEnded, cancelled, halfEnds, connect, askFails, serverVars
<1>7. ASSUME NEW c \in Clients, incoming(c) \/ establish(c) \/ loop(c) \/ accept_lost(c)
                                \/ send_device_list(c) \/ lendEnds(c) \/ borrowStops(c)
                                \/ register(c) \/ disconnect(c) \/ report(c)
      PROVE  UNCHANGED <<nReq, streams, late>>
  BY <1>7 DEF incoming, establish, loop, accept_lost, send_device_list, lendEnds, borrowStops,
              register, disconnect, report, rest, clientVars
<1>8. ASSUME serve \/ shutdown \/ UNCHANGED srvVars PROVE UNCHANGED <<nReq, streams, late>>
  BY <1>8 DEF serve, shutdown, srvVars, serverVars, clientVars
<1>9. ASSUME NEW c \in Clients, Accept(c) PROVE accept_bi(c) \/ accept_lost(c) \/ reads(c)
  BY <1>9 DEF Accept, accept_empty, accept_corrupt, accept_foreign, accept_list, accept_borrow,
              accept_lend, asks
<1> QED BY <1>1, <1>2, <1>3, <1>4, <1>5, <1>6, <1>7, <1>8, <1>9
        DEF ServerNext, SessionStep, ClientChoice, lendStops, unplug

-----------------------------------------------------------------------------
(* What a step of the session of c may do: it answers, and goes to s. *)
Replies(c) ==
  \/ resp' = resp
  \/ \E a \in Answers : /\ resp' = [resp EXCEPT ![c] = a]
                        /\ c \in foreign /\ sess[c] \notin Served => a \in {"Proto", "VersionMismatch"}
Moves(c, s) ==
  /\ sess' = [sess EXCEPT ![c] = s] /\ sess[c] # "done" /\ UNCHANGED clientVars
  /\ token => token'
  /\ s \notin {"none", "connecting", "accept"} \/ (s = "connecting" /\ sess[c] = "none" /\ link[c] # "none")
       \/ (s = "accept" /\ ~token)
  /\ sess[c] = "none" => s = "connecting"
  /\ link' = link \/ \E k \in {"open", "closed"} : link' = [link EXCEPT ![c] = k]
  /\ s = "reading" => /\ sess[c] = "accept" /\ UNCHANGED <<link, streams>> /\ streams[c] # <<>>
                      /\ late' = [late EXCEPT ![c] = IF token THEN @ + 1 ELSE @]
  /\ s # "reading" => late' = late
  /\ \A e \in Clients : e # c => streams'[e] = streams[e]
  /\ c \in foreign /\ sess[c] \notin Served => s \notin Served
  /\ Replies(c)
  /\ reported' = reported
  /\ done' = done \/ (done' = <<c>> /\ s = "done")

LEMMA SessionMoves ==
  ASSUME SrvTypes, NEW c \in Clients, incoming(c) \/ SessionStep(c) \/ unplug(c)
  PROVE  \E s \in SessStates : Moves(c, s)
<1> USE DEF goesTo, ends, panics, rest
<1>1. CASE incoming(c)
  <2>1. Moves(c, "connecting")
    BY <1>1 DEF Moves, Replies, incoming, Served
  <2> QED BY <2>1 DEF SessStates
<1>2. CASE establish(c)
  <2>1. Moves(c, "loop") \/ Moves(c, "panicked") \/ Moves(c, "ending")
    BY <1>2 DEF Moves, Replies, establish, Served
  <2> QED BY <2>1 DEF SessStates
<1>3. CASE loop(c)
  <2>1. Moves(c, "accept") \/ Moves(c, "ending")
    BY <1>3 DEF Moves, Replies, loop, mayGoOn, Served
  <2> QED BY <2>1 DEF SessStates
<1>4. CASE accept_bi(c)
  <2>1. Moves(c, "reading") \/ Moves(c, "panicked")
    BY <1>4 DEF Moves, Replies, accept_bi, Served
  <2> QED BY <2>1 DEF SessStates
<1>5. CASE accept_lost(c)
  <2>1. Moves(c, "ending")
    BY <1>5 DEF Moves, Replies, accept_lost, Served
  <2> QED BY <2>1 DEF SessStates
<1>6. ASSUME reads(c)
      PROVE  /\ sess[c] = "reading" /\ UNCHANGED <<clientVars, token, done, reported, late>>
             /\ \A e \in Clients : e # c => streams'[e] = streams[e]
  BY <1>6 DEF reads, SrvTypes
<1>7. CASE accept_empty(c)
  <2>1. Moves(c, "panicked")
    BY <1>6, <1>7 DEF Moves, Replies, accept_empty, Served
  <2> QED BY <2>1 DEF SessStates
<1>8. CASE accept_corrupt(c)
  <2>1. Moves(c, "ending")
    BY <1>6, <1>8 DEF Moves, Replies, accept_corrupt, send_resp, Served, Answers
  <2> QED BY <2>1 DEF SessStates
<1>9. CASE accept_foreign(c)
  <2>1. Moves(c, "ending")
    BY <1>6, <1>9 DEF Moves, Replies, accept_foreign, send_resp, Served, Answers
  <2> QED BY <2>1 DEF SessStates
<1>10. CASE accept_list(c)
  <2>1. Moves(c, "listing")
    BY <1>6, <1>10 DEF Moves, Replies, accept_list, asks, is_compat, Served
  <2> QED BY <2>1 DEF SessStates
<1>11. CASE accept_lend(c)
  <2>1. Moves(c, "registering")
    BY <1>6, <1>11 DEF Moves, Replies, accept_lend, asks, is_compat, send_resp, Served, Answers
  <2> QED BY <2>1 DEF SessStates
<1>12. CASE accept_borrow(c)
  <2>1. c \notin foreign /\ reads(c)
    BY <1>12 DEF accept_borrow, asks, is_compat
  <2>2. \A e : statusOf(e) \in Answers
    BY DEF statusOf, Answers
  <2>3. \/ \E a \in Answers : resp' = [resp EXCEPT ![c] = a]
        \/ resp' = resp
    BY <1>12, <2>2 DEF accept_borrow, send_resp, Answers
  <2>4. \/ sess' = [sess EXCEPT ![c] = "lending"] /\ link' = link
        \/ sess' = [sess EXCEPT ![c] = "panicked"] /\ link' = [link EXCEPT ![c] = "closed"]
        \/ sess' = [sess EXCEPT ![c] = "ending"] /\ link' = [link EXCEPT ![c] = "closed"]
    BY <1>12 DEF accept_borrow
  <2>5. Moves(c, "lending") \/ Moves(c, "panicked") \/ Moves(c, "ending")
    BY <1>6, <2>1, <2>3, <2>4 DEF Moves, Replies
  <2> QED BY <2>5 DEF SessStates
<1>13. CASE send_device_list(c)
  <2>1. Moves(c, "loop") \/ Moves(c, "ending")
    BY <1>13 DEF Moves, Replies, send_device_list, send_resp, Served, Answers
  <2> QED BY <2>1 DEF SessStates
<1>14. CASE lendEnds(c)
  <2>1. Moves(c, "loop") \/ Moves(c, "ending")
    BY <1>14 DEF Moves, Replies, lendEnds, Served
  <2> QED BY <2>1 DEF SessStates
<1>15. CASE register(c)
  <2>1. Moves(c, "borrowing") \/ Moves(c, "ending")
    BY <1>15 DEF Moves, Replies, register, Served
  <2> QED BY <2>1 DEF SessStates
<1>16. CASE borrowStops(c)
  <2>1. Moves(c, "disconnecting")
    BY <1>16 DEF Moves, Replies, borrowStops, Served
  <2> QED BY <2>1 DEF SessStates
<1>17. CASE disconnect(c)
  <2>1. Moves(c, "loop") \/ Moves(c, "ending")
    BY <1>17 DEF Moves, Replies, disconnect, Served
  <2> QED BY <2>1 DEF SessStates
<1>18. CASE report(c)
  <2>1. Moves(c, "done")
    BY <1>18 DEF Moves, Replies, report, Served
  <2> QED BY <2>1 DEF SessStates
<1> QED BY <1>1, <1>2, <1>3, <1>4, <1>5, <1>7, <1>8, <1>9, <1>10, <1>11, <1>12, <1>13, <1>14,
           <1>15, <1>16, <1>17, <1>18
        DEF SessionStep, Accept, lendStops, unplug

LEMMA SlippedStep ==
  ASSUME SrvTypes, Slipped, [ServerNext]_srvVars
  PROVE  Slipped'
<1>1. ASSUME UNCHANGED <<late, sess>>, token => token' PROVE Slipped'
  BY <1>1 DEF Slipped
<1>2. ASSUME NEW c \in Clients, ClientStep(c) \/ ClientChoice(c) PROVE Slipped'
  <2>1. UNCHANGED serverVars
    BY <1>2 DEF ClientStep, ClientChoice, connected, connectFails, answered, unanswered,
                serverEnded, cancelled, halfEnds, connect, ask, askFails, leave
  <2> QED BY <1>1, <2>1 DEF serverVars
<1>3. CASE serve \/ shutdown \/ UNCHANGED srvVars
  BY <1>1, <1>3 DEF serve, shutdown, srvVars, serverVars
<1>4. ASSUME NEW c \in Clients, NEW s \in SessStates, Moves(c, s) PROVE Slipped'
  <2>1. token => token'
    BY <1>4 DEF Moves
  <2>2. sess'[c] = s /\ \A e \in Clients : e # c => sess'[e] = sess[e] /\ late'[e] = late[e]
    BY <1>4 DEF Moves, SrvTypes
  <2>3. late[c] = 0 \/ (late[c] = 1 /\ token /\ sess[c] \notin {"none", "connecting", "accept"})
    BY DEF Slipped
  <2>4. CASE s = "reading"
    <3>1. late[c] = 0 /\ late'[c] = IF token THEN late[c] + 1 ELSE late[c]
      BY <1>4, <2>3, <2>4 DEF Moves, SrvTypes
    <3>2. late'[c] = 0 \/ (late'[c] = 1 /\ token)
      BY <3>1
    <3> QED BY <2>1, <2>2, <2>4, <3>2 DEF Slipped
  <2>5. CASE s # "reading"
    <3>1. late' = late
      BY <1>4, <2>5 DEF Moves
    <3>2. late[c] # 0 => s \notin {"none", "connecting", "accept"}
      BY <1>4, <2>3 DEF Moves
    <3> QED BY <2>1, <2>2, <2>3, <3>1, <3>2 DEF Slipped
  <2> QED BY <2>4, <2>5
<1> QED BY <1>2, <1>3, <1>4, SessionMoves DEF ServerNext

LEMMA EndedStep ==
  ASSUME SrvTypes, Ended, [ServerNext]_srvVars
  PROVE  Ended'
<1>1. ASSUME UNCHANGED <<sess, done, reported>> PROVE Ended'
  BY <1>1 DEF Ended
<1>2. ASSUME NEW c \in Clients, ClientStep(c) \/ ClientChoice(c) PROVE Ended'
  <2>1. UNCHANGED serverVars
    BY <1>2 DEF ClientStep, ClientChoice, connected, connectFails, answered, unanswered,
                serverEnded, cancelled, halfEnds, connect, ask, askFails, leave
  <2> QED BY <1>1, <2>1 DEF serverVars
<1>3. CASE serve
  <2>1. PICK c \in Clients : done = <<c>> /\ sess[c] = "done"
    BY <1>3 DEF serve, taskEnded, Ended
  <2>2. done' = <<>> /\ reported' = reported \cup {c} /\ sess' = sess
    BY <1>3, <2>1 DEF serve
  <2> QED BY <2>1, <2>2 DEF Ended
<1>4. CASE shutdown \/ UNCHANGED srvVars
  BY <1>1, <1>4 DEF shutdown, srvVars, serverVars
<1>5. ASSUME NEW c \in Clients, NEW s \in SessStates, Moves(c, s) PROVE Ended'
  <2>1. /\ sess[c] # "done" /\ reported' = reported /\ (done' = done \/ (done' = <<c>> /\ s = "done"))
        /\ sess'[c] = s /\ \A e \in Clients : e # c => sess'[e] = sess[e]
    BY <1>5 DEF Moves, SrvTypes
  <2>2. \A e \in Clients : sess[e] = "done" => sess'[e] = "done"
    BY <2>1
  <2>3. done' = <<>> \/ \E e \in Clients : done' = <<e>> /\ sess'[e] = "done"
    BY <2>1, <2>2 DEF Ended
  <2> QED BY <2>1, <2>2, <2>3 DEF Ended
<1> QED BY <1>2, <1>3, <1>4, <1>5, SessionMoves DEF ServerNext

LEMMA ReadableStep ==
  ASSUME SrvTypes, Readable, [ServerNext]_srvVars
  PROVE  Readable'
<1>1. ASSUME NEW c \in Clients, connect(c) PROVE Readable'
  <2>1. sess[c] = "none"
    BY <1>1 DEF connect, Readable
  <2> QED BY <1>1, <2>1 DEF connect, Readable, SrvTypes, serverVars
<1>2. ASSUME NEW c \in Clients, connected(c) \/ askFails(c) \/ unanswered(c) \/ halfEnds(c)
      PROVE  Readable'
  <2>1. UNCHANGED <<sess, link, streams>>
    BY <1>2 DEF connected, askFails, unanswered, halfEnds, serverVars
  <2>2. \A e \in Clients : client'[e] = "off" => client[e] = "off"
    BY <1>2 DEF connected, askFails, unanswered, halfEnds, SrvTypes
  <2> QED BY <2>1, <2>2 DEF Readable
<1>3. ASSUME NEW c \in Clients, connectFails(c) \/ answered(c) PROVE Readable'
  <2>1. UNCHANGED <<sess, streams>>
    BY <1>3 DEF connectFails, answered, serverVars
  <2>2. \A e \in Clients : client'[e] = "off" => e # c /\ client[e] = "off"
    BY <1>3 DEF connectFails, answered, SrvTypes
  <2>3. \A e \in Clients : link'[e] = link[e] \/ (e = c /\ link'[e] = "closed")
    BY <1>3 DEF connectFails, answered, SrvTypes
  <2> QED BY <2>1, <2>2, <2>3 DEF Readable
<1>4. ASSUME NEW c \in Clients, NEW r \in Req, ask(c, r) PROVE Readable'
  <2>1. /\ UNCHANGED <<sess, link>> /\ streams' = [streams EXCEPT ![c] = Append(@, r)]
        /\ client' = [client EXCEPT ![c] = IF r.form = "empty" THEN "idle" ELSE r.what]
    BY <1>4 DEF ask, serverVars
  <2>2. r.what # "off"
    BY DEF Req
  <2>3. \A e \in Clients : client'[e] = "off" => client[e] = "off"
    BY <2>1, <2>2 DEF SrvTypes
  <2>4. streams \in [Clients -> Seq(Req)]
    BY DEF SrvTypes
  <2>5. Append(streams[c], r) # <<>>
    <3>1. streams[c] \in Seq(Req)
      BY <2>4
    <3> QED BY <3>1
  <2>6. \A e \in Clients : streams'[e] = <<>> => streams[e] = <<>>
    BY <2>1, <2>4, <2>5
  <2> QED BY <2>1, <2>3, <2>6 DEF Readable
<1>5. ASSUME NEW c \in Clients, leave(c) PROVE Readable'
  BY <1>5 DEF leave, Readable, SrvTypes, serverVars
<1>6. CASE serve \/ shutdown \/ UNCHANGED srvVars
  BY <1>6 DEF Readable, serve, shutdown, srvVars, serverVars, clientVars
<1>7. ASSUME NEW c \in Clients, NEW s \in SessStates, Moves(c, s) PROVE Readable'
  <2>1. client' = client /\ sess'[c] = s /\ \A e \in Clients : e # c => sess'[e] = sess[e]
    BY <1>7 DEF Moves, SrvTypes, clientVars
  <2>2. /\ \A e \in Clients : e # c => link'[e] = link[e] /\ streams'[e] = streams[e]
        /\ link'[c] # link[c] => link'[c] \in {"open", "closed"}
    BY <1>7 DEF Moves, SrvTypes
  <2>3. link[c] # "none"
    BY <1>7 DEF Moves, Readable
  <2>4. s = "reading" => streams'[c] # <<>>
    BY <1>7 DEF Moves
  <2> QED BY <2>1, <2>2, <2>3, <2>4 DEF Readable
<1> QED BY <1>1, <1>2, <1>3, <1>4, <1>5, <1>6, <1>7, SessionMoves
        DEF ServerNext, ClientStep, ClientChoice, serverEnded, cancelled

LEMMA GatedStep ==
  ASSUME SrvTypes, Gated, [ServerNext]_srvVars
  PROVE  Gated'
<1>0. foreign \subseteq Clients
  BY ServerAssumption DEF SrvTypes
<1>1. ASSUME UNCHANGED <<foreign, sess, resp, told>> PROVE Gated'
  BY <1>1 DEF Gated
<1>2. ASSUME NEW c \in Clients,
             connect(c) \/ connected(c) \/ connectFails(c) \/ askFails(c) \/ halfEnds(c) \/ leave(c)
      PROVE  Gated'
  BY <1>1, <1>2 DEF connect, connected, connectFails, askFails, halfEnds, leave, serverVars
<1>3. ASSUME NEW c \in Clients, NEW r \in Req, ask(c, r) PROVE Gated'
  <2>1. UNCHANGED <<foreign, sess, told>> /\ resp' = [resp EXCEPT ![c] = "none"]
    BY <1>3 DEF ask, serverVars
  <2>2. \A e \in Clients : resp'[e] = resp[e] \/ resp'[e] = "none"
    BY <2>1 DEF SrvTypes
  <2> QED BY <1>0, <2>1, <2>2 DEF Gated
<1>4. ASSUME NEW c \in Clients, answered(c) PROVE Gated'
  <2>1. /\ UNCHANGED <<foreign, sess>> /\ resp' = [resp EXCEPT ![c] = "none"]
        /\ told' = [told EXCEPT ![c] = outcome(client[c], resp[c])]
        /\ client[c] \in {"list", "borrow", "lend"} /\ resp[c] # "none"
    BY <1>4 DEF answered, serverVars, Waiting
  <2>2. ASSUME c \in foreign PROVE outcome(client[c], resp[c]) \in {"VersionMismatch", "panic"}
    <3>1. resp[c] \in {"Proto", "VersionMismatch"}
      BY <2>1, <2>2 DEF Gated
    <3> QED BY <2>1, <3>1 DEF outcome
  <2>3. \A e \in Clients : /\ resp'[e] = resp[e] \/ resp'[e] = "none"
                           /\ told'[e] = told[e] \/ (e = c /\ told'[e] = outcome(client[c], resp[c]))
    BY <2>1 DEF SrvTypes
  <2> QED BY <1>0, <2>1, <2>2, <2>3 DEF Gated
<1>5. ASSUME NEW c \in Clients, unanswered(c) PROVE Gated'
  <2>1. UNCHANGED <<foreign, sess, resp>>
    BY <1>5 DEF unanswered, serverVars
  <2>2. \A e \in Clients : told'[e] = told[e] \/ told'[e] \in {"Network", "panic"}
    BY <1>5 DEF unanswered, SrvTypes
  <2> QED BY <1>0, <2>1, <2>2 DEF Gated
<1>6. CASE serve \/ shutdown \/ UNCHANGED srvVars
  BY <1>1, <1>6 DEF serve, shutdown, srvVars, serverVars, clientVars
<1>7. ASSUME NEW c \in Clients, NEW s \in SessStates, Moves(c, s) PROVE Gated'
  <2>1. /\ UNCHANGED <<foreign, told>> /\ sess'[c] = s
        /\ \A e \in Clients : e # c => sess'[e] = sess[e]
    BY <1>7 DEF Moves, SrvTypes, clientVars
  <2>2. c \in foreign => s \notin Served
    BY <1>7 DEF Moves, Gated
  <2>3. \A e \in foreign : resp'[e] = resp[e] \/ resp'[e] \in {"Proto", "VersionMismatch"}
    <3>1. resp \in [Clients -> Answers] /\ (c \in foreign => sess[c] \notin Served)
      BY DEF SrvTypes, Gated
    <3>2. CASE resp' = resp
      BY <3>2
    <3>3. CASE resp' # resp
      <4>1. PICK a \in Answers : /\ resp' = [resp EXCEPT ![c] = a]
                                 /\ c \in foreign /\ sess[c] \notin Served => a \in {"Proto", "VersionMismatch"}
        BY <1>7, <3>3 DEF Moves, Replies
      <4>2. c \in foreign => a \in {"Proto", "VersionMismatch"}
        BY <3>1, <4>1
      <4>3. \A e \in Clients : resp'[e] = IF e = c THEN a ELSE resp[e]
        BY <3>1, <4>1
      <4> QED BY <1>0, <4>2, <4>3
    <3> QED BY <3>2, <3>3
  <2> QED BY <1>0, <2>1, <2>2, <2>3 DEF Gated
<1> QED BY <1>2, <1>3, <1>4, <1>5, <1>6, <1>7, SessionMoves
        DEF ServerNext, ClientStep, ClientChoice, serverEnded, cancelled

-----------------------------------------------------------------------------
(* A grant and what backs it.  While the connection lives, the half of c is
   open only for the request it is being answered or was told of, and the
   session has come as far as that request needs; a request that is still
   unread is the last one of its client, which has no half open. *)
Backs(c, what) == \/ what = "borrow" /\ sess[c] = "lending"
                  \/ what = "lend" /\ sess[c] \in {"registering", "borrowing"}
HalfOf(c) ==
  half[c] => \/ /\ client[c] \in {"borrow", "lend"} /\ resp[c] = client[c]
                /\ Backs(c, client[c])
             \/ client[c] = "using" /\ Backs(c, told[c])
UnreadOf(c) ==
  /\ \A i \in DOMAIN streams[c] : streams[c][i].form # "empty" =>
       /\ i = Len(streams[c]) /\ client[c] = streams[c][i].what
       /\ ~half[c] /\ resp[c] = "none" /\ sess[c] # "listing"
  /\ sess[c] = "listing" => client[c] = "list" /\ resp[c] = "none"
GrantOf(c) == /\ sess[c] = "lending" => held[c] # NoDev
              /\ link[c] # "closed" => HalfOf(c) /\ UnreadOf(c)
Granted == \A c \in Clients : GrantOf(c)

(* A step of c leaves everybody else alone. *)
Apart(c) == \A e \in Clients \ {c} :
  /\ client'[e] = client[e] /\ link'[e] = link[e] /\ streams'[e] = streams[e]
  /\ resp'[e] = resp[e] /\ told'[e] = told[e] /\ half'[e] = half[e]
  /\ sess'[e] = sess[e] /\ held'[e] = held[e]
LEMMA GrantedByOne ==
  ASSUME Granted, NEW c \in Clients, Apart(c), GrantOf(c)'
  PROVE  Granted'
BY DEF Granted, Apart, GrantOf, HalfOf, UnreadOf, Backs

(* Nothing the grant of c is about changes, or the connection is closed and
   the session does not lend. *)
LEMMA GrantClosed ==
  ASSUME NEW c \in Clients, link'[c] = "closed", sess'[c] # "lending" \/ held'[c] # NoDev
  PROVE  GrantOf(c)'
BY DEF GrantOf

LEMMA ClientGrants ==
  ASSUME SrvTypes, Readable, Granted, NEW c \in Clients, ClientStep(c) \/ ClientChoice(c)
  PROVE  Granted'
<1>0. /\ client \in [Clients -> ClientStates] /\ link \in [Clients -> LinkStates]
      /\ sess \in [Clients -> SessStates] /\ half \in [Clients -> BOOLEAN]
      /\ streams \in [Clients -> Seq(Req)] /\ resp \in [Clients -> Answers]
      /\ told \in [Clients -> Told]
  BY DEF SrvTypes
<1>1. GrantOf(c)
  BY DEF Granted
<1>2. UNCHANGED <<sess, held>>
  BY DEF ClientStep, ClientChoice, connected, connectFails, answered, unanswered,
         serverEnded, cancelled, halfEnds, connect, ask, askFails, leave, serverVars
<1>3. Apart(c)
  BY <1>0, <1>2 DEF ClientStep, ClientChoice, connected, connectFails, answered, unanswered,
         serverEnded, cancelled, halfEnds, connect, ask, askFails, leave, Apart
<1> SUFFICES GrantOf(c)'
  BY <1>3, GrantedByOne
<1>4. CASE link'[c] = "closed"
  BY <1>1, <1>2, <1>4 DEF GrantOf
<1>5. CASE connect(c) \/ connected(c)
  <2>1. UNCHANGED <<streams, resp, told, half>> /\ client[c] \in {"off", "connecting"}
    BY <1>5 DEF connect, connected
  <2>2. link[c] # "closed"
    BY <1>5 DEF connect, connected, Readable
  <2>3. ~half[c] /\ sess[c] # "listing" /\ \A i \in DOMAIN streams[c] : streams[c][i].form = "empty"
    <3>1. \A i \in DOMAIN streams[c] : streams[c][i] \in Req
      BY <1>0
    <3> QED BY <1>1, <2>1, <2>2, <3>1 DEF GrantOf, HalfOf, UnreadOf, Req
  <2> QED BY <1>1, <1>2, <2>1, <2>3 DEF GrantOf, HalfOf, UnreadOf
<1>6. ASSUME NEW r \in Req, ask(c, r) PROVE GrantOf(c)'
  <2>1. /\ streams'[c] = Append(streams[c], r) /\ half' = half /\ link' = link
        /\ client[c] = "idle" /\ client'[c] = IF r.form = "empty" THEN "idle" ELSE r.what
        /\ link[c] = "open" /\ resp'[c] = "none"
    BY <1>0, <1>6 DEF ask
  <2>2. ~half[c] /\ sess[c] # "listing" /\ \A i \in DOMAIN streams[c] : streams[c][i].form = "empty"
    <3>1. \A i \in DOMAIN streams[c] : streams[c][i] \in Req
      BY <1>0
    <3> QED BY <1>1, <2>1, <3>1 DEF GrantOf, HalfOf, UnreadOf, Req
  <2>3. \A i \in DOMAIN streams'[c] : \/ streams'[c][i].form = "empty"
                                      \/ i = Len(streams'[c]) /\ streams'[c][i] = r
    <3>1. streams[c] \in Seq(Req)
      BY <1>0
    <3> QED BY <2>1, <2>2, <3>1
  <2> QED BY <1>1, <1>2, <2>1, <2>2, <2>3 DEF GrantOf, HalfOf, UnreadOf
<1>7. CASE answered(c)
  <2>1. CASE link[c] = "closed"
    BY <1>0, <1>4, <1>7, <2>1 DEF answered
  <2>2. CASE link[c] # "closed" /\ half[c]
    <3>1. client[c] \in {"borrow", "lend"} /\ resp[c] = client[c] /\ Backs(c, client[c])
      BY <1>1, <1>7, <2>2 DEF GrantOf, HalfOf, answered, Waiting
    <3>2. outcome(client[c], resp[c]) = client[c]
      BY <3>1 DEF outcome
    <3>3. client'[c] = "using" /\ told'[c] = client[c] /\ UNCHANGED <<streams, half>>
      BY <1>0, <1>7, <3>1, <3>2 DEF answered
    <3>4. \A i \in DOMAIN streams[c] : streams[c][i].form = "empty"
      BY <1>1, <2>2 DEF GrantOf, UnreadOf
    <3> QED BY <1>1, <1>2, <3>1, <3>3, <3>4 DEF GrantOf, HalfOf, UnreadOf, Backs
  <2>3. CASE link[c] # "closed" /\ ~half[c]
    <3>1. UNCHANGED <<streams, half>>
      BY <1>7 DEF answered
    <3>2. resp[c] # "none"
      BY <1>7 DEF answered
    <3> QED BY <1>1, <1>2, <2>3, <3>1, <3>2 DEF GrantOf, HalfOf, UnreadOf
  <2> QED BY <2>1, <2>2, <2>3
<1>8. CASE halfEnds(c)
  <2>1. client[c] = "using" /\ ~half'[c] /\ UNCHANGED <<streams, link>>
    BY <1>0, <1>8 DEF halfEnds
  <2>2. link[c] # "closed" => \A i \in DOMAIN streams[c] : streams[c][i].form = "empty"
    <3>1. \A i \in DOMAIN streams[c] : streams[c][i] \in Req
      BY <1>0
    <3> QED BY <1>1, <2>1, <3>1 DEF GrantOf, UnreadOf, Req
  <2> QED BY <1>1, <1>2, <2>1, <2>2 DEF GrantOf, HalfOf, UnreadOf
<1>9. CASE connectFails(c) \/ askFails(c) \/ unanswered(c) \/ leave(c)
  BY <1>0, <1>4, <1>9 DEF connectFails, askFails, unanswered, leave
<1> QED BY <1>5, <1>6, <1>7, <1>8, <1>9 DEF ClientStep, ClientChoice, serverEnded, cancelled

LEMMA NoneLeft ==
  ASSUME NEW S, NEW q \in Seq(S), Len(q) = 0
  PROVE  DOMAIN q = {}
<1>1. DOMAIN q = 1..0
  BY LenProperties
<1> QED BY <1>1

LEMMA SessionGrants ==
  ASSUME SrvTypes, Readable, Granted, NEW c \in Clients, incoming(c) \/ SessionStep(c) \/ unplug(c)
  PROVE  Granted'
<1>0. /\ client \in [Clients -> ClientStates] /\ link \in [Clients -> LinkStates]
      /\ sess \in [Clients -> SessStates] /\ half \in [Clients -> BOOLEAN]
      /\ streams \in [Clients -> Seq(Req)] /\ resp \in [Clients -> Answers]
      /\ held \in [Clients -> Devices \cup {NoDev}]
  BY DEF SrvTypes
<1>1. GrantOf(c)
  BY DEF Granted
<1>2. UNCHANGED <<client, told>>
  <2>1. PICK s \in SessStates : Moves(c, s)
    BY SessionMoves
  <2> QED BY <2>1 DEF Moves, clientVars
<1> USE DEF goesTo, ends, panics, rest
<1>3. CASE incoming(c) \/ establish(c) \/ loop(c) \/ accept_bi(c) \/ accept_lost(c) \/ disconnect(c)
           \/ report(c)
  <2>1. /\ UNCHANGED <<held, streams, resp, half>>
        /\ sess[c] \notin {"lending", "registering", "borrowing"}
        /\ sess'[c] \notin {"listing", "lending"}
        /\ link'[c] = link[c] \/ link'[c] = "closed" \/ link[c] = "incoming"
        /\ \A e \in Clients \ {c} : sess'[e] = sess[e] /\ link'[e] = link[e]
    BY <1>0, <1>3 DEF incoming, establish, loop, accept_bi, accept_lost, disconnect, report
  <2>2. Apart(c)
    BY <1>2, <2>1 DEF Apart
  <2>3. GrantOf(c)'
    BY <1>1, <1>2, <2>1 DEF GrantOf, HalfOf, UnreadOf, Backs
  <2> QED BY <2>2, <2>3, GrantedByOne
<1>4. ASSUME reads(c)
      PROVE  /\ sess[c] = "reading" /\ link[c] = "open" /\ ~half[c] /\ streams[c] \in Seq(Req)
             /\ streams'[c] = Tail(streams[c])
             /\ \A e \in Clients \ {c} : streams'[e] = streams[e]
  BY <1>0, <1>1, <1>4 DEF reads, GrantOf, HalfOf, Backs
<1>5. CASE accept_empty(c) \/ accept_corrupt(c) \/ accept_foreign(c)
  <2>1. /\ reads(c) /\ UNCHANGED <<held, half>> /\ link'[c] = "closed" /\ sess'[c] # "lending"
        /\ \A e \in Clients \ {c} : sess'[e] = sess[e] /\ link'[e] = link[e] /\ resp'[e] = resp[e]
    BY <1>0, <1>5 DEF accept_empty, accept_corrupt, accept_foreign, send_resp
  <2> QED BY <1>2, <1>4, <2>1, GrantClosed, GrantedByOne DEF Apart
<1>6. ASSUME NEW what, asks(c, what)
      PROVE  /\ client[c] = what /\ resp[c] = "none"
             /\ DOMAIN streams'[c] = {}
  <2>1. /\ reads(c) /\ streams[c] \in Seq(Req) /\ streams'[c] = Tail(streams[c]) /\ link[c] = "open"
        /\ streams[c][1].form = "good" /\ streams[c][1].what = what
    BY <1>4, <1>6 DEF asks, This
  <2>2. 1 \in DOMAIN streams[c]
    <3>1. streams[c] # <<>>
      BY <1>4, <2>1 DEF Readable
    <3> QED BY <2>1, <3>1
  <2>3. 1 = Len(streams[c]) /\ client[c] = what /\ resp[c] = "none"
    BY <1>1, <2>1, <2>2 DEF GrantOf, UnreadOf
  <2>4. Tail(streams[c]) \in Seq(Req) /\ Len(Tail(streams[c])) = 0
    BY <2>1, <2>2, <2>3
  <2>5. DOMAIN Tail(streams[c]) = {}
    BY <2>4, NoneLeft
  <2> QED BY <2>1, <2>3, <2>5
<1>7. CASE accept_list(c)
  <2>1. /\ asks(c, "list") /\ reads(c) /\ UNCHANGED <<link, held, resp, half>> /\ sess'[c] = "listing"
        /\ \A e \in Clients \ {c} : sess'[e] = sess[e]
    BY <1>0, <1>7 DEF accept_list, asks
  <2>2. GrantOf(c)'
    BY <1>2, <1>4, <1>6, <2>1 DEF GrantOf, HalfOf, UnreadOf
  <2> QED BY <1>2, <1>4, <2>1, <2>2, GrantedByOne DEF Apart
<1>8. CASE accept_lend(c)
  <2>1. /\ asks(c, "lend") /\ reads(c) /\ UNCHANGED <<link, held>> /\ sess'[c] = "registering"
        /\ resp'[c] = "lend"
        /\ \A e \in Clients \ {c} : sess'[e] = sess[e] /\ resp'[e] = resp[e] /\ half'[e] = half[e]
    BY <1>0, <1>8 DEF accept_lend, asks, send_resp
  <2>2. GrantOf(c)'
    BY <1>2, <1>4, <1>6, <2>1 DEF GrantOf, HalfOf, UnreadOf, Backs
  <2> QED BY <1>2, <1>4, <2>1, <2>2, GrantedByOne DEF Apart
<1>9. CASE accept_borrow(c)
  <2>1. /\ asks(c, "borrow") /\ reads(c)
        /\ \A e \in Clients \ {c} : /\ sess'[e] = sess[e] /\ resp'[e] = resp[e] /\ half'[e] = half[e]
                                    /\ held'[e] = held[e] /\ link'[e] = link[e]
    BY <1>0, <1>9 DEF accept_borrow, asks, send_resp
  <2>2. Apart(c)
    BY <1>2, <1>4, <2>1 DEF Apart
  <2>3. CASE sess'[c] # "lending"
    <3>1. link'[c] = "closed"
      BY <1>0, <1>9, <2>3 DEF accept_borrow
    <3> QED BY <2>2, <2>3, <3>1, GrantClosed, GrantedByOne
  <2>4. CASE sess'[c] = "lending"
    <3>1. resp'[c] = "borrow" /\ held'[c] = This(c).dev
      BY <1>0, <1>9, <2>4 DEF accept_borrow, send_resp
    <3>2. This(c).dev \in Devices
      <4>1. streams[c] \in Seq(Req) /\ streams[c] # <<>>
        BY <1>4, <2>1 DEF Readable
      <4>2. This(c) \in Req
        BY <4>1 DEF This
      <4> QED BY <4>2 DEF Req
    <3>3. GrantOf(c)'
      BY <1>2, <1>4, <1>6, <2>1, <2>4, <3>1, <3>2, ServerAssumption
         DEF GrantOf, HalfOf, UnreadOf, Backs
    <3> QED BY <2>2, <3>3, GrantedByOne
  <2> QED BY <2>3, <2>4
<1>10. CASE send_device_list(c)
  <2>1. /\ UNCHANGED <<held, streams, half>> /\ sess[c] = "listing" /\ sess'[c] \in {"loop", "ending"}
        /\ link[c] = "open" /\ (link'[c] = link[c] \/ link'[c] = "closed")
        /\ \A e \in Clients \ {c} : sess'[e] = sess[e] /\ resp'[e] = resp[e] /\ link'[e] = link[e]
    BY <1>0, <1>10 DEF send_device_list, send_resp
  <2>2. ~half[c] /\ \A i \in DOMAIN streams[c] : streams[c][i].form = "empty"
    BY <1>1, <2>1 DEF GrantOf, HalfOf, UnreadOf, Backs
  <2>3. GrantOf(c)'
    BY <2>1, <2>2 DEF GrantOf, HalfOf, UnreadOf
  <2> QED BY <1>2, <2>1, <2>3, GrantedByOne DEF Apart
<1>11. CASE lendEnds(c) \/ borrowStops(c)
  <2>1. /\ UNCHANGED <<streams, resp>> /\ ~half'[c] /\ sess'[c] \in {"loop", "ending", "disconnecting"}
        /\ (link'[c] = link[c] \/ link'[c] = "closed")
        /\ \A e \in Clients \ {c} : /\ sess'[e] = sess[e] /\ held'[e] = held[e] /\ half'[e] = half[e]
                                    /\ link'[e] = link[e]
    BY <1>0, <1>11 DEF lendEnds, borrowStops
  <2>2. GrantOf(c)'
    BY <1>1, <1>2, <2>1 DEF GrantOf, HalfOf, UnreadOf
  <2> QED BY <1>2, <2>1, <2>2, GrantedByOne DEF Apart
<1>12. CASE register(c)
  <2>1. /\ UNCHANGED <<held, streams, resp, half>> /\ sess[c] = "registering"
        /\ \/ sess'[c] = "borrowing" /\ link' = link
           \/ sess'[c] = "ending" /\ link'[c] = "closed"
        /\ \A e \in Clients \ {c} : sess'[e] = sess[e] /\ link'[e] = link[e]
    BY <1>0, <1>12 DEF register
  <2>2. GrantOf(c)'
    BY <1>1, <1>2, <2>1 DEF GrantOf, HalfOf, UnreadOf, Backs
  <2> QED BY <1>2, <2>1, <2>2, GrantedByOne DEF Apart
<1> QED BY <1>3, <1>5, <1>7, <1>8, <1>9, <1>10, <1>11, <1>12
        DEF SessionStep, Accept, lendStops, unplug

LEMMA GrantedStep ==
  ASSUME SrvTypes, Readable, Granted, [ServerNext]_srvVars
  PROVE  Granted'
<1>1. CASE serve \/ shutdown \/ UNCHANGED srvVars
  <2>1. UNCHANGED <<client, link, streams, resp, told, half, sess, held>>
    BY <1>1 DEF serve, shutdown, srvVars, serverVars, clientVars
  <2> QED BY <2>1 DEF Granted, GrantOf, HalfOf, UnreadOf, Backs
<1> QED BY <1>1, ClientGrants, SessionGrants DEF ServerNext

-----------------------------------------------------------------------------
ServerInv == /\ SrvTypes /\ Readable /\ Counted /\ PortsOK /\ Ended
             /\ HeldOnce /\ Gated /\ Slipped /\ Granted

LEMMA ServerInitInv == ServerInit => ServerInv
<1> SUFFICES ASSUME ServerInit PROVE ServerInv
  OBVIOUS
<1>1. SrvTypes
  <2>1. /\ client \in [Clients -> ClientStates] /\ link \in [Clients -> LinkStates]
        /\ sess \in [Clients -> SessStates]
        /\ resp \in [Clients -> Answers] /\ told \in [Clients -> Told]
    BY DEF ServerInit, ClientStates, LinkStates, SessStates, Answers, Told
  <2>2. <<>> \in Seq(Req)
    OBVIOUS
  <2>3. /\ half \in [Clients -> BOOLEAN] /\ held \in [Clients -> Devices \cup {NoDev}]
        /\ streams \in [Clients -> Seq(Req)] /\ late \in [Clients -> Nat]
    BY <2>2 DEF ServerInit
  <2>4. /\ token \in BOOLEAN /\ asked \in BOOLEAN /\ nReq \in Nat
        /\ foreign \subseteq MayDiffer /\ ports \subseteq Clients
    BY DEF ServerInit
  <2> QED BY <2>1, <2>3, <2>4 DEF SrvTypes
<1>2. Readable /\ Ended /\ HeldOnce /\ Slipped
  BY DEF ServerInit, Readable, Ended, HeldOnce, Slipped
<1>6. Granted
  BY DEF ServerInit, Granted, GrantOf, HalfOf, UnreadOf
<1>3. Counted
  BY ServerAssumption DEF ServerInit, Counted
<1>4. PortsOK
  BY FS_EmptySet, ServerAssumption DEF ServerInit, PortsOK
<1>5. Gated
  <2>1. foreign \subseteq Clients
    BY ServerAssumption DEF ServerInit
  <2> QED BY <2>1 DEF ServerInit, Gated, Served
<1> QED BY <1>1, <1>2, <1>3, <1>4, <1>5, <1>6 DEF ServerInv

LEMMA ServerInvariant == ServerSpec => []ServerInv
<1>1. ServerInit => ServerInv
  BY ServerInitInv
<1>2. ServerInv /\ [ServerNext]_srvVars => ServerInv'
  BY TypesStep, ReadableStep, CountedStep, PortsStep, EndedStep, HeldStep, GatedStep, SlippedStep,
     GrantedStep
  DEF ServerInv
<1> QED BY <1>1, <1>2, PTL DEF ServerSpec

(* Every variable keeps its type; ports, the channel of ended sessions and the
   late requests stay within their bounds. *)
THEOREM ServerTypeCorrect == ServerSpec => []ServerTypeOK
<1>1. ServerInv => ServerTypeOK
  <2> SUFFICES ASSUME ServerInv PROVE ServerTypeOK
    OBVIOUS
  <2>0. SrvTypes /\ Counted /\ PortsOK /\ Ended /\ Slipped /\ MaxReq \in Nat
    BY ServerAssumption DEF ServerInv
  <2>1. ASSUME NEW c \in Clients
        PROVE  Len(streams[c]) <= MaxReq /\ \A i \in DOMAIN streams[c] : streams[c][i] \in Req
    <3>1. streams[c] \in Seq(Req) /\ Len(streams[c]) \in Nat /\ nReq \in Nat
          /\ Len(streams[c]) <= nReq /\ nReq <= MaxReq
      BY <2>0 DEF SrvTypes, Counted
    <3>2. \A i \in DOMAIN streams[c] : streams[c][i] \in Req
      BY <3>1
    <3> QED BY <2>0, <3>1, <3>2
  <2>2. late \in [Clients -> 0..MaxReq]
    <3>1. \A c \in Clients : late[c] \in 0..MaxReq
      BY <2>0 DEF SrvTypes, Counted, Slipped
    <3> QED BY <2>0, <3>1 DEF SrvTypes
  <2>3. Len(done) <= 1
    <3>1. done = <<>> \/ \E c \in Clients : done = <<c>>
      BY <2>0 DEF Ended
    <3>2. ASSUME NEW c, done = <<c>> PROVE Len(done) <= 1
      BY <3>2
    <3> QED BY <3>1, <3>2
  <2>4. nReq \in 0..MaxReq
    BY <2>0 DEF SrvTypes, Counted
  <2> QED BY <2>0, <2>1, <2>2, <2>3, <2>4
      DEF ServerTypeOK, SrvTypes, PortsOK, Ended, ClientStates, LinkStates, SessStates
<1> QED BY <1>1, ServerInvariant, PTL

(* For any number of clients and devices: no device is lent twice, and whatever
   ends a session (an error, a panic, the token, the loss of the peer), it has
   given its device and its port back. *)
THEOREM DevicesHeldOnce == ServerSpec => []HeldOnce
BY ServerInvariant, PTL DEF ServerInv

(* A peer of another version is told so, or panics, and gets no device and no
   port, whether accept_stream can read its request or not. *)
THEOREM VersionsGated == ServerSpec => []VersionGate
<1>1. ServerInv => VersionGate
  <2> SUFFICES ASSUME ServerInv, NEW c \in foreign
               PROVE  /\ held[c] = NoDev /\ c \notin ports
                      /\ told[c] \in {"nothing", "VersionMismatch", "Network", "panic"}
    BY DEF VersionGate
  <2>1. c \in Clients
    BY ServerAssumption DEF ServerInv, SrvTypes
  <2>2. sess[c] \notin Served /\ told[c] \in {"nothing", "VersionMismatch", "Network", "panic"}
    BY DEF ServerInv, Gated
  <2>3. held[c] = NoDev /\ c \notin ports
    BY <2>1, <2>2 DEF ServerInv, HeldOnce, Served
  <2> QED BY <2>2, <2>3
<1> QED BY <1>1, ServerInvariant, PTL

(* However often clients ask: after the token is cancelled, open_session
   accepts at most the request it is already waiting for. *)
THEOREM OneMoreRequest == ServerSpec => []OneMoreAfterCancel
<1>1. ServerInv => OneMoreAfterCancel
  <2> SUFFICES ASSUME ServerInv, NEW c \in Clients PROVE late[c] <= 1
    BY DEF OneMoreAfterCancel
  <2>1. late[c] = 0 \/ late[c] = 1
    BY DEF ServerInv, Slipped
  <2> QED BY <2>1
<1> QED BY <1>1, ServerInvariant, PTL

(* Whatever clients ask for, and however sessions and connections end: a client
   that runs its half of a grant is served by a session that has opened the
   device, or is on its way to a port, so no answer is ahead of the device. *)
THEOREM GrantsBacked == ServerSpec => []GrantBacked
<1>1. ServerInv => GrantBacked
  BY DEF ServerInv, Granted, GrantOf, HalfOf, Backs, GrantBacked
<1> QED BY <1>1, ServerInvariant, PTL
=============================================================================
