---------------------------- MODULE ProductQueue ----------------------------
(***************************************************************************)
(* What the processor queue promises to the readers and the processor: a   *)
(* first-in first-out queue of whole products.  A product may be refused   *)
(* (a limit, a database error), and one that is queued may be lost to a    *)
(* database error, but what is received is a product that was queued, in   *)
(* order, once, and with its own contents.                                 *)
(***************************************************************************)
EXTENDS Sequences

CONSTANT Products

VARIABLES waiting,   \* the products in the queue
          received   \* the products received, in order

vars == <<waiting, received>>

Init == waiting = <<>> /\ received = <<>>

Put(p) ==
  /\ waiting' = Append(waiting, p)
  /\ UNCHANGED received

Receive ==
  /\ waiting # <<>>
  /\ received' = Append(received, Head(waiting))
  /\ waiting' = Tail(waiting)

Lose ==
  /\ waiting # <<>>
  /\ waiting' = Tail(waiting)
  /\ UNCHANGED received

Next == (\E p \in Products : Put(p)) \/ Receive \/ Lose

Spec == Init /\ [][Next]_vars
=============================================================================
