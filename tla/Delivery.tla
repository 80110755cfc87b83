------------------------------ MODULE Delivery ------------------------------
(***************************************************************************)
(* What the edge node and the bench gateway promise together: the windows  *)
(* of one sensor are taken one after the other, a window that went to the  *)
(* spool stays there until it is archived, and no window is archived       *)
(* before an earlier one.  A window may be dropped only while the          *)
(* publisher has it in its hands.                                          *)
(***************************************************************************)
EXTENDS Naturals

CONSTANT Windows          \* the windows of the sensor, 1 .. n

VARIABLE window           \* what has become of each window

Stages == {"ahead", "held", "spooled", "dropped", "archived"}

Init == window = [w \in Windows |-> "ahead"]

\* The next window is read; the publisher holds it to send it, queues it behind
\* others, or has no room for it.
Acquire(w) ==
  /\ window[w] = "ahead"
  /\ \A v \in Windows : v < w => window[v] # "ahead"
  /\ \E stage \in {"held", "spooled", "dropped"} :
       window' = [window EXCEPT ![w] = stage]

\* Sending it did not succeed: it goes to the spool.
Spool(w) ==
  /\ window[w] = "held"
  /\ window' = [window EXCEPT ![w] = "spooled"]

\* The publisher dies with it; the server may still have it in the await.
Drop(w) ==
  /\ window[w] = "held"
  /\ window' = [window EXCEPT ![w] = "dropped"]

\* The evidence files are written, never behind a later window.
Archive(w) ==
  /\ window[w] \in {"held", "spooled", "dropped"}
  /\ \A v \in Windows : v > w => window[v] # "archived"
  /\ window' = [window EXCEPT ![w] = "archived"]

Next == \E w \in Windows : Acquire(w) \/ Spool(w) \/ Drop(w) \/ Archive(w)

Spec == Init /\ [][Next]_window

=============================================================================
