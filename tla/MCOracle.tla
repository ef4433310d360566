------------------------------- MODULE MCOracle -------------------------------
(***************************************************************************)
(* Small instances of Oracle.  Requests of one kind are interchangeable,   *)
(* so safety runs use their symmetry.                                      *)
(***************************************************************************)
EXTENDS OracleInv, TLC

Interchangeable == Permutations(Asks) \cup Permutations(Cancels)

\* Requests about different questions share no state, so runs with questions
\* of several kinds let all of a behaviour's requests be about one of them.
FocusInit == Init /\ \A r, s \in Requests : on[r] = on[s]
FocusSpec == FocusInit /\ [][Next]_vars
FocusFair == FocusInit /\ [][Next]_vars /\ \A r \in Requests : WF_vars(Continue(r))
=============================================================================
