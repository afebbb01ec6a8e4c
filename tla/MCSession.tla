------------------------------ MODULE MCSession ------------------------------
(* Session on small instances: which kinds of URB the guest submits. *)
EXTENDS Session, TLC

CONSTANTS h1, h2, r1

Take(k) == [kind |-> k, fetch |-> FALSE]
Give(k) == [kind |-> k, fetch |-> TRUE]

Control == {Take("ctrl")}
Enumeration == {Take("setaddr"), Take("setcfg"), Take("clrstall"), Take("int"), Give("bulk")}
Endings == {Take("setif"), Give("iso")}

(* Bound: two resets, or one and an unlink. *)
FewEvents == nResets + Cardinality(unlinked) <= 2

(* Handles are interchangeable. *)
HandleSymmetry == Permutations({h1, h2})
=============================================================================
