-------------------------------- MODULE Chain --------------------------------
(***************************************************************************)
(* What block production promises of the chain, whatever the callers,     *)
(* locks and services behind it: blocks are appended one at a time up to *)
(* MaxHeight, the da_height of each is admissible after its predecessor's *)
(* (Admissible says which DA heights a block may move to), and a block   *)
(* once committed never changes.                                          *)
(***************************************************************************)
EXTENDS Naturals

CONSTANTS MaxHeight, MaxDa, Admissible(_, _)

VARIABLES latest, daAt

Init ==
    /\ latest = 0
    /\ daAt = [h \in 0..MaxHeight |-> 0]

(* The block of height latest + 1 is committed with da_height d.          *)
Append(d) ==
    /\ latest < MaxHeight
    /\ Admissible(daAt[latest], d)
    /\ latest' = latest + 1
    /\ daAt' = [daAt EXCEPT ![latest + 1] = d]

Next == \E d \in 0..MaxDa : Append(d)

Spec == Init /\ [][Next]_<<latest, daAt>>
=============================================================================
