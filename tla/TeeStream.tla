----------------------------- MODULE TeeStream ------------------------------
(***************************************************************************)
(* What the capture of libs/io promises for a stream, whoever prints and   *)
(* however often the stream is captured: every text printed is shown on    *)
(* the terminal, once; a text that a capture intercepts is held back until *)
(* the capture ends, and is released then, in the order it was printed in; *)
(* a text written past the capture is shown at once.                       *)
(***************************************************************************)
EXTENDS Sequences

CONSTANT Texts

VARIABLES
  waiting,  \* texts not printed yet
  live,     \* printed, on their way
  held,     \* intercepted by the capture
  shown     \* received by the terminal

vars == <<waiting, live, held, shown>>

Init ==
  /\ waiting = Texts
  /\ live = <<>> /\ held = <<>> /\ shown = <<>>

Say(m) ==
  /\ m \in waiting
  /\ waiting' = waiting \ {m}
  /\ live' = Append(live, m)
  /\ UNCHANGED <<held, shown>>

Hold ==
  /\ live # <<>>
  /\ held' = Append(held, Head(live))
  /\ live' = Tail(live)
  /\ UNCHANGED <<waiting, shown>>

Release ==
  /\ live' = live \o held
  /\ held' = <<>>
  /\ UNCHANGED <<waiting, shown>>

Show ==
  /\ live # <<>>
  /\ shown' = Append(shown, Head(live))
  /\ live' = Tail(live)
  /\ UNCHANGED <<waiting, held>>

ShowPast(m) ==
  /\ m \in waiting
  /\ waiting' = waiting \ {m}
  /\ shown' = Append(shown, m)
  /\ UNCHANGED <<live, held>>

Next ==
  \/ \E m \in Texts : Say(m) \/ ShowPast(m)
  \/ Hold \/ Release \/ Show

Spec == Init /\ [][Next]_vars
=============================================================================
