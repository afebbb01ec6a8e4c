-------------------------------- MODULE Vhci --------------------------------
(***************************************************************************)
(* External: one port of the virtual host controller, as the borrower uses *)
(* it through src/crates/qusb/src/stub.rs.  The guest's USB core submits   *)
(* and unlinks URBs and resets the port; the borrower sees that as a FIFO  *)
(* of work items.  A URB is known to the borrower only by its handle, and  *)
(* the controller reuses a handle as soon as its URB was given back.  URBs *)
(* are numbered here in the order of their submission, so that "the same   *)
(* URB" can be told from "the same handle".                                *)
(*                                                                         *)
(* "tasks" is the queue of the one thread behind task::spawn_blocking, on  *)
(* which the giveback and the disconnect ioctls run.                       *)
(***************************************************************************)
EXTENDS Protocol

CONSTANTS Handles,      \* URB handles of the controller
          ResetHandles, \* handles the borrower makes up for port resets
          Shapes,       \* kinds of URB the guest submits: [kind, fetch]
          MaxUrb,       \* bound: URBs the guest submits
          MaxReset,     \* bound: port resets
          MaxUnlink     \* bound: URBs the guest unlinks

(* The borrower draws a random handle for a reset: "We pray that we don't run
   into another handle".  The model grants the prayer. *)
ASSUME VhciAssumption ==
  /\ ResetHandles \cap Handles = {}
  /\ Shapes \subseteq [kind : UrbKind, fetch : BOOLEAN]
  /\ MaxUrb \in Nat /\ MaxReset \in Nat /\ MaxUnlink \in Nat

VARIABLES port,         \* state of the port
          kaddr,        \* 0 until a SET_ADDRESS succeeded, then 1
          urbs,         \* shapes of the URBs submitted so far
          cur,          \* handle -> the URB that has it
          unlinked,     \* URBs the guest no longer wants
          outcome,      \* URB -> result it was returned with
          nResets,
          work,         \* work items on their way to the session
          tasks         \* closures of the blocking thread, in FIFO order

vhciVars == <<port, kaddr, urbs, cur, unlinked, outcome, nResets, work, tasks>>

Urb == 1..MaxUrb
AnyHandle == Handles \cup ResetHandles
Outcome == ReportableError \cup {"Success", "Shutdown"}
PortState == {"connected", "resetting", "enabled", "gone"}

(* Flags of a port status report; C_x says that x changed. *)
PortFlag == {"POWER", "CONNECTION", "ENABLE", "RESET", "C_CONNECTION", "C_RESET"}
Connected == {"POWER", "CONNECTION", "C_CONNECTION"}
Resetting == {"POWER", "CONNECTION", "RESET"}
ResetDone == {"POWER", "CONNECTION", "ENABLE", "C_RESET"}

PortStat(flags) == [op |-> "PortStat", stat |-> flags]
ProcessUrb(h, u, a) == [op |-> "ProcessUrb", h |-> h, u |-> u, addr |-> a]
CancelUrb(h) == [op |-> "CancelUrb", h |-> h]
Work == [op : {"PortStat"}, stat : SUBSET PortFlag]
        \cup [op : {"ProcessUrb"}, h : Handles, u : Urb, addr : {0, 1}]
        \cup [op : {"CancelUrb"}, h : Handles]

Giveback(h, u, r) == [op |-> "giveback", h |-> h, u |-> u, res |-> r]
Disconnect == [op |-> "disconnect"]
Task == [op : {"giveback"}, h : AnyHandle, u : {0} \cup Urb, res : Outcome]
        \cup {Disconnect}

VhciInit ==
  /\ port = "connected" /\ kaddr = 0 /\ nResets = 0
  /\ urbs = <<>> /\ cur = EmptyMap
  /\ unlinked = {} /\ outcome = EmptyMap
  /\ work = <<PortStat(Connected)>>
  /\ tasks = <<>>

VhciTypeOK ==
  /\ port \in PortState /\ kaddr \in {0, 1} /\ nResets \in 0..MaxReset
  /\ urbs \in Seq(Shapes) /\ Len(urbs) <= MaxUrb
  /\ IsMap(cur, Handles, Urb)
  /\ unlinked \subseteq Urb
  /\ IsMap(outcome, Urb, Outcome)
  /\ work \in Seq(Work)
  /\ tasks \in Seq(Task)

-----------------------------------------------------------------------------
(* The USB core assigns an address with nothing else in flight. *)
AddressPending == \E h \in DOMAIN cur : urbs[cur[h]].kind = "setaddr"

Submit(h, shape) ==
  /\ port = "enabled" /\ ~AddressPending
  /\ Len(urbs) < MaxUrb /\ h \notin DOMAIN cur
  /\ shape.kind = "setaddr" => kaddr = 0 /\ cur = EmptyMap
  /\ urbs' = Append(urbs, shape)
  /\ cur' = Insert(cur, h, Len(urbs) + 1)
  /\ work' = Append(work, ProcessUrb(h, Len(urbs) + 1, kaddr))
  /\ UNCHANGED <<port, kaddr, unlinked, outcome, nResets, tasks>>

(* SET_ADDRESS is answered by the borrower itself: the guest's 5 s timeout
   for it is taken never to expire. *)
Unlink(h) ==
  /\ h \in DOMAIN cur /\ cur[h] \notin unlinked
  /\ Cardinality(unlinked) < MaxUnlink
  /\ urbs[cur[h]].kind # "setaddr"
  /\ unlinked' = unlinked \cup {cur[h]}
  /\ work' = Append(work, CancelUrb(h))
  /\ UNCHANGED <<port, kaddr, urbs, cur, outcome, nResets, tasks>>

ResetPort ==
  /\ port \in {"connected", "enabled"} /\ nResets < MaxReset
  /\ ~AddressPending
  /\ port' = "resetting" /\ nResets' = nResets + 1
  /\ work' = Append(work, PortStat(Resetting))
  /\ UNCHANGED <<kaddr, urbs, cur, unlinked, outcome, tasks>>

(* Remote::port_reset_done, called by the borrower's receive loop. *)
PortResetDone ==
  /\ port' = "enabled" /\ kaddr' = 0
  /\ work' = Append(work, PortStat(ResetDone))

(* One closure of the blocking thread.  A giveback acts on whatever URB has
   the handle now; for a handle without one the ioctl fails, unnoticed. *)
RunGiveback ==
  /\ tasks # <<>> /\ Head(tasks).op = "giveback"
  /\ tasks' = Tail(tasks)
  /\ LET h == Head(tasks).h IN
       IF h \in DOMAIN cur
       THEN /\ cur' = Remove(cur, h)
            /\ outcome' = Insert(outcome, cur[h], Head(tasks).res)
            /\ kaddr' = IF urbs[cur[h]].kind = "setaddr" THEN 1 ELSE kaddr
       ELSE UNCHANGED <<cur, outcome, kaddr>>
  /\ UNCHANGED <<port, urbs, unlinked, nResets, work>>

(* The controller returns the URBs of a port that is unplugged. *)
RunDisconnect ==
  /\ tasks # <<>> /\ Head(tasks).op = "disconnect"
  /\ tasks' = Tail(tasks)
  /\ port' = "gone"
  /\ cur' = EmptyMap
  /\ outcome' = [u \in DOMAIN outcome \cup {cur[h] : h \in DOMAIN cur} |->
                   IF u \in DOMAIN outcome THEN outcome[u] ELSE "Shutdown"]
  /\ UNCHANGED <<kaddr, urbs, unlinked, nResets, work>>

Guest == \/ \E h \in Handles, shape \in Shapes : Submit(h, shape)
         \/ \E h \in Handles : Unlink(h)
         \/ ResetPort
=============================================================================
