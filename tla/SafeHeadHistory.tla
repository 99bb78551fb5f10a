--------------------------- MODULE SafeHeadHistory ---------------------------
(***************************************************************************)
(* What the safe head database promises to those who ask it, the fault     *)
(* proof challenger and the proposer: for every height of L1, the answer   *)
(* to "what was safe then".  An answer is learnt for a height and all      *)
(* heights above it, and never changes what is known of lower heights;     *)
(* known answers never decrease with the height.                           *)
(***************************************************************************)
EXTENDS Naturals

CONSTANTS Heights, Answer, Unknown, Rank  \* Rank: the L2 number of an answer

VARIABLE answers

Known(a) == a # Unknown

\* Every height from n on is answered by a.
Learn(n, a) ==
  /\ \A m \in Heights : m < n /\ Known(answers[m]) => Rank[answers[m]] <= Rank[a]
  /\ answers' = [m \in Heights |-> IF m < n THEN answers[m] ELSE a]

\* Nothing is known any more.
Forget == answers' = [m \in Heights |-> Unknown]

Init == answers = [m \in Heights |-> Unknown]

Next == Forget \/ \E n \in Heights, a \in Answer : Learn(n, a)

Spec == Init /\ [][Next]_answers
=============================================================================
