------------------------------ MODULE MCPart -------------------------------
(* Several components checked side by side, not together: `part` names the   *)
(* one a behaviour is about, and the variables of the others keep their      *)
(* initial values.                                                           *)
CONSTANTS a, b,     \* model values: two of whatever a component has two of
          Parts     \* the parts a run is about

VARIABLE part

\* The initial values S of a variable of part p; one of them where the behaviour
\* is about another part.
Only(p, S) == IF part = p THEN S ELSE {CHOOSE v \in S : TRUE}
============================================================================
