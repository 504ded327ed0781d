------------------------------ MODULE Debouncer ------------------------------
(***************************************************************************)
(* What a debounced input promises: it reports a level once the last       *)
(* Samples samples have had that level, and reports nothing else.  Only    *)
(* samples that were taken since the filter was loaded count.              *)
(***************************************************************************)
EXTENDS Naturals

CONSTANTS
  Input,
  Samples    \* equal samples in a row that make a level count

VARIABLES
  last,      \* [Input -> the level sampled last]
  run,       \* [Input -> how many samples in a row have had it, up to Samples]
  reported,  \* [Input -> "UNKNOWN", "INACTIVE" or "ACTIVE"]
  settled    \* the reports have been declared unknown, once, at the start

vars == <<last, run, reported, settled>>

Name(b) == IF b = 0 THEN "INACTIVE" ELSE "ACTIVE"

Report == {"UNKNOWN", "INACTIVE", "ACTIVE"}

\* A filter that has just been loaded: no sample has been taken, and what is
\* reported until enough have been is left open.
Init ==
  /\ last = [i \in Input |-> 0]
  /\ run = [i \in Input |-> 0]
  /\ reported \in [Input -> Report]
  /\ settled = FALSE

Longer(i, b) ==
  IF b # last[i] THEN 1 ELSE IF run[i] < Samples THEN run[i] + 1 ELSE Samples

Count(b) ==
  /\ last' = b
  /\ run' = [i \in Input |-> Longer(i, b[i])]
  /\ UNCHANGED settled

Sample(b) ==
  /\ Count(b)
  /\ reported' = [i \in Input |-> IF run'[i] = Samples THEN Name(b[i]) ELSE reported[i]]

Settle ==
  /\ ~settled
  /\ settled' = TRUE
  /\ reported' = [i \in Input |-> "UNKNOWN"]
  /\ UNCHANGED <<last, run>>

\* The filter is loaded again and starts to count samples anew.
Restart ==
  /\ last' = [i \in Input |-> 0]
  /\ run' = [i \in Input |-> 0]
  /\ reported' \in [Input -> Report]
  /\ settled' = FALSE

Next == Settle \/ Restart \/ \E b \in [Input -> {0, 1}] : Sample(b)

Spec == Init /\ [][Next]_vars

=============================================================================
