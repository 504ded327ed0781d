--------------------------- MODULE CadenceArbiter ---------------------------
(***************************************************************************)
(* What the cadence part of the GPIO driver promises, without its table:   *)
(* of the priorities that have something to play the most urgent one is    *)
(* played, a priority stops by itself only when it is the one being        *)
(* played, and one that was pre-empted is still there when its turn comes. *)
(* Priority 0 is the most urgent.                                          *)
(***************************************************************************)
EXTENDS Naturals

CONSTANT Priority

VARIABLES
  active,    \* the priorities that have something left to play
  current    \* the priority that is played

vars == <<active, current>>

TypeOK ==
  /\ active \in SUBSET Priority
  /\ current \in Priority

\* The most urgent priority of A; who was played stays when A is empty.
Elect(A) ==
  /\ A = {} => current' = current
  /\ A # {} => current' \in {p \in A : \A q \in A : p <= q}

Init ==
  /\ active \in SUBSET Priority
  /\ current \in Priority
  /\ active # {} => current \in active /\ \A q \in active : current <= q

\* A response asks for its priority.
Raise(p) ==
  /\ active' = active \union {p}
  /\ Elect(active')

\* The priority that is played has nothing left.
Finish ==
  /\ current \in active
  /\ active' = active \ {current}
  /\ Elect(active')

\* The priorities one clear reaches: that of a response, or all but the least
\* urgent.
Urgent == {p \in Priority : \E q \in Priority : p < q}
Reach == {{p} : p \in Priority} \union {Urgent}

\* What one half of a clear, for the leds or for the buzzer, makes of the active
\* priorities A: a response that is cleared plays one off cycle, and clearing
\* what is present may leave the current priority with nothing to play.
Half(A) == {A, A \ {current}} \union {A \union S : S \in Reach}

\* The user clears responses: no priority but the current one is dropped.
Clear ==
  /\ \E A \in Half(active) : active' \in Half(A)
  /\ Elect(active')

Next ==
  \/ \E p \in Priority : Raise(p)
  \/ Finish
  \/ Clear

Spec == Init /\ [][Next]_vars

=============================================================================
