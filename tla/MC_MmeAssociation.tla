------------------------ MODULE MC_MmeAssociation ------------------------
(***************************************************************************)
(* Instances of MmeAssociation: one publishing goroutine p and one restart *)
(* handler h, two writes with different identifiers and a stop.  Two       *)
(* connections and two jobs suffice: only the holder of sendMu refers to   *)
(* an old connection, only readLoop to an abandoned job.                   *)
(***************************************************************************)
EXTENDS MmeAssociation, TLC

CONSTANTS p, h, c1, c2, j1, j2

W1 == [procedure |-> "write", ids |-> 1]
W2 == [procedure |-> "write", ids |-> 2]
S1 == [procedure |-> "stop", ids |-> 1]

AllRequests == {W1, W2, S1}
Writes == {W1, W2}
OneWrite == {W1}

\* The identities of connections and of jobs are interchangeable.
Identities == Permutations(Conns) \cup Permutations(Jobs)
=============================================================================
