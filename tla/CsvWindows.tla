----------------------------- MODULE CsvWindows -----------------------------
(***************************************************************************)
(* The windows into which an uploaded signal is cut: one every hop         *)
(* samples, and one more at the end where a tail would be left.            *)
(***************************************************************************)
EXTENDS Integers

\* The last sample a window can start at.
LastStart(length, window) == IF length > window THEN length - window ELSE 0

RegularStarts(length, window, hop) ==
  {k * hop : k \in 0..(LastStart(length, window) \div hop)}

\* The windows at regular distances reach the end of the signal.
ReachesEnd(length, window, hop) ==
  \E s \in RegularStarts(length, window, hop) : s + window >= length

\* Where the windows start.
Starts(length, window, hop) ==
  RegularStarts(length, window, hop)
  \cup (IF ReachesEnd(length, window, hop) THEN {} ELSE {LastStart(length, window)})

\* Where the edge node's windows start: it sends no window for a tail, and one
\* window, filled up with its last sample, of a signal shorter than the window.
EdgeStarts(length, window, hop) == RegularStarts(length, window, hop)

=============================================================================
