---------------------------- MODULE MCQThreadPool ----------------------------
(***************************************************************************)
(* Instances of QThreadPool for TLC.  Thread objects and runnables are     *)
(* interchangeable in the safety runs.                                     *)
(***************************************************************************)
EXTENDS QThreadPool

Interchangeable == Permutations(Workers) \cup Permutations(Tasks)

Signed   == {-1, 0, 1}
Negative == {-1, 0}

=============================================================================
