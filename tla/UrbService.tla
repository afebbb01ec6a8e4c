----------------------------- MODULE UrbService -----------------------------
(***************************************************************************)
(* What a borrowed device promises the guest, whatever happens between the *)
(* two machines: the device carries out a URB at most once, the guest gets *)
(* it back at most once and with the result of that one execution, and a   *)
(* port that is unplugged returns what is left.  SET_ADDRESS is local: the *)
(* borrower carries it out itself.                                         *)
(***************************************************************************)
EXTENDS Protocol

CONSTANTS Urb,          \* URBs the guest may submit
          Result        \* results the guest can be given for an execution

VARIABLES submitted,    \* URB -> is it local to the borrower?
          unwanted,     \* URBs the guest has unlinked
          done,         \* URB -> what its execution resulted in
          returned,     \* URB -> what the guest was told
          open          \* is the device still plugged in?

serviceVars == <<submitted, unwanted, done, returned, open>>

Pending == DOMAIN submitted \ DOMAIN returned

ServiceInit ==
  /\ submitted = EmptyMap /\ unwanted = {}
  /\ done = EmptyMap /\ returned = EmptyMap
  /\ open = TRUE

SubmitUrb(u, local) ==
  /\ open /\ u \notin DOMAIN submitted
  /\ submitted' = Insert(submitted, u, local)
  /\ UNCHANGED <<unwanted, done, returned, open>>

UnlinkUrb(u) ==
  /\ u \in Pending
  /\ unwanted' = unwanted \cup {u}
  /\ UNCHANGED <<submitted, done, returned, open>>

(* The device may still be busy with a URB the guest was told is shut down.
   An execution that fails beyond repair is never reported to the guest. *)
Execute(u, r) ==
  /\ u \in DOMAIN submitted \ DOMAIN done /\ ~submitted[u]
  /\ r = "Cancelled" => u \in unwanted
  /\ done' = Insert(done, u, r)
  /\ UNCHANGED <<submitted, unwanted, returned, open>>

Return(u) ==
  /\ u \in Pending /\ u \in DOMAIN done /\ done[u] \in Result
  /\ returned' = Insert(returned, u, done[u])
  /\ UNCHANGED <<submitted, unwanted, done, open>>

ReturnLocal(u) ==
  /\ u \in Pending \ DOMAIN done /\ submitted[u]
  /\ done' = Insert(done, u, "Success")
  /\ returned' = Insert(returned, u, "Success")
  /\ UNCHANGED <<submitted, unwanted, open>>

Unplug ==
  /\ open /\ open' = FALSE
  /\ returned' = [u \in DOMAIN submitted |->
                    IF u \in DOMAIN returned THEN returned[u] ELSE "Shutdown"]
  /\ UNCHANGED <<submitted, unwanted, done>>

ServiceNext ==
  \/ \E u \in Urb, local \in BOOLEAN : SubmitUrb(u, local)
  \/ \E u \in Urb : UnlinkUrb(u) \/ Return(u) \/ ReturnLocal(u)
  \/ \E u \in Urb, r \in Result \cup {"Aborted"} : Execute(u, r)
  \/ Unplug

ServiceSpec == ServiceInit /\ [][ServiceNext]_serviceVars
=============================================================================
