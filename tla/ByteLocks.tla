----------------------------- MODULE ByteLocks ------------------------------
(***************************************************************************)
(* What the lock table promises, byte by byte: an owner holds some bytes,  *)
(* each shared or exclusively.  A step changes the holdings of one owner   *)
(* and leaves every byte compatible, or takes holdings away (an owner or a *)
(* client is released, the server restarts).  No step gives a byte to an   *)
(* owner it does not serve, and a restart invents nothing.  Once a lock-   *)
(* store call has failed (degraded) nothing more is promised.              *)
(***************************************************************************)
CONSTANT Principals     \* everyone who may hold a byte

VARIABLES holds,        \* triples <<owner, byte, exclusive>>
          degraded      \* a lock-store call has failed

Compatible(h) ==
  \A x, y \in h : x[1] # y[1] /\ x[2] = y[2] => ~x[3] /\ ~y[3]

Others(h, o) == {x \in h : x[1] # o}

Init == holds = {} /\ degraded = FALSE

Change(o) == Others(holds', o) = Others(holds, o) /\ Compatible(holds')

TakeAway == holds' \subseteq holds

Next ==
  /\ degraded => degraded'
  /\ degraded' \/ TakeAway \/ \E o \in Principals : Change(o)

Spec == Init /\ [][Next]_<<holds, degraded>>
=============================================================================
