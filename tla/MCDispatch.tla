------------------------------ MODULE MCDispatch ------------------------------
(***************************************************************************)
(* Small instances of Dispatch: a pool of two, one of whom reconnects, and *)
(* an outsider.                                                            *)
(***************************************************************************)
EXTENDS Dispatch, TLC

CONSTANTS w1, w2, w3

OneReconnects == {<<w1, 1>>, <<w1, 2>>, <<w2, 1>>, <<w3, 1>>}
OneEach       == {<<w1, 1>>, <<w2, 1>>, <<w3, 1>>}
=============================================================================
