------------------------------- MODULE MCDemux -------------------------------
(* The Demuxer with two ports; ports and handles are interchangeable. *)
EXTENDS Demux, TLC

CONSTANTS p1, p2, h1, h2

DemuxSymmetry == Permutations({p1, p2}) \cup Permutations({h1, h2})
=============================================================================
