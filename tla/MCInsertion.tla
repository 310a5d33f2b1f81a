----------------------------- MODULE MCInsertion -----------------------------
(***************************************************************************)
(* Instances of Insertion for TLC.                                         *)
(***************************************************************************)
EXTENDS Insertion

CONSTANTS a, b, c, a1, a2, b1, b2, c1, c2

\* three projects for two active tasks: the deque rotates
WideProjects == {a, b, c}
WideFiles    == [p \in WideProjects |->
                   CASE p = a -> {a1, a2} [] p = b -> {b1, b2} [] p = c -> {c1}]
LongFiles    == [WideFiles EXCEPT ![c] = {c1, c2}]
WideDataset  == <<a, b, c>>
=============================================================================
