---------------------------- MODULE MCAdmission ----------------------------
(* Instances of Admission for TLC.                                         *)
EXTENDS Admission, TLC

CONSTANTS t1, t2, t3, c1, c2, s1, s2

\* The calls are interchangeable, and so are the sessions.
CallSymmetry == Permutations(Tx) \cup Permutations(Session)

\* Limits: c1 has less room than the runtime, c2 is not limited by itself.
OneOnFirst == [c \in Channel |-> IF c = c1 THEN 1 ELSE MaxGlobal]
OneDistinct == [c \in Channel |-> 1]
============================================================================
