------------------------------ MODULE MCAddrMan ------------------------------
(***************************************************************************)
(* A small instance of AddrMan.  p and q are two ports of one address.  All  *)
(* tried addresses share one slot, and two addresses share each slot of the  *)
(* new table, which depends on who tells of them.                            *)
(***************************************************************************)
EXTENDS AddrMan, TLC

CONSTANTS p, q, u, v, r1, r2

MCNetAddr == (p :> "n1") @@ (q :> "n1") @@ (u :> "n2") @@ (v :> "n3")
MCNewSlotOf ==
    [x \in Service \X Source |->
        IF x[1] = v THEN <<2, 1>> ELSE IF x[2] = r1 THEN <<1, IF x[1] = u THEN 1 ELSE 2>> ELSE <<2, 1>>]
MCNewSlotsOf == [a \in Service |-> {<<1, IF a = u THEN 1 ELSE 2>>, <<2, 1>>}]
MCTriedSlotOf == [a \in Service |-> IF a = v THEN 2 ELSE 1]
MCNewSlot == {<<1, 1>>, <<1, 2>>, <<2, 1>>}
=============================================================================
