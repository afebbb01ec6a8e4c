------------------------------- MODULE Streams -------------------------------
(***************************************************************************)
(* External: the bidirectional QUIC stream a session runs over, as the     *)
(* loops use it.  Each direction is a FIFO of frames with a FIN the writer *)
(* sets (SendStream::finish, also done when the stream is dropped) and a   *)
(* STOP the reader sets (dropping the RecvStream).  A lost connection      *)
(* makes every read, every write and every stopped() fail.                 *)
(***************************************************************************)
EXTENDS Protocol

CONSTANT AllowLoss          \* may the connection be lost?
ASSUME LossAssumption == AllowLoss \in BOOLEAN

VARIABLES toL, toLFin, toLStop,      \* borrower to lender
          toB, toBFin, toBStop,      \* lender to borrower
          lost

streamVars == <<toL, toLFin, toLStop, toB, toBFin, toBStop, lost>>
lendDir == <<toL, toLFin, toLStop>>
borrowDir == <<toB, toBFin, toBStop>>

StreamInit ==
  /\ toL = <<>> /\ toLFin = FALSE /\ toLStop = FALSE
  /\ toB = <<>> /\ toBFin = FALSE /\ toBStop = FALSE
  /\ lost = FALSE

(* The peer is gone for good; what was in flight is discarded. *)
ConnectionLost ==
  /\ AllowLoss /\ ~lost
  /\ lost' = TRUE
  /\ toL' = <<>> /\ toB' = <<>>
  /\ UNCHANGED <<toLFin, toLStop, toBFin, toBStop>>
=============================================================================
