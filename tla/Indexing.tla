------------------------------- MODULE Indexing -------------------------------
(***************************************************************************)
(* What the indexer promises of the database it fills, whatever its worker *)
(* threads, failures and restarts do: a project gets one row, a file of a  *)
(* project that has a row gets all of its rows in one step and once, and   *)
(* nothing is ever taken back.                                             *)
(***************************************************************************)
EXTENDS Naturals

CONSTANTS Projects,     \* the projects of the dataset
          FilesOf,      \* FilesOf[p]: the Python files under p's checkout
          Parts         \* the kinds of rows one indexed file consists of

VARIABLES projectRows,  \* projectRows[p]: rows of type project named p
          stored        \* stored[f][part]: how often that part of f is stored

vars == <<projectRows, stored>>

NoRows  == [part \in Parts |-> 0]
AllRows == [part \in Parts |-> 1]

Init == /\ projectRows = [p \in Projects |-> 0]
        /\ stored = [f \in UNION {FilesOf[p] : p \in Projects} |-> NoRows]

AddProject(p) ==
  /\ projectRows[p] = 0
  /\ projectRows' = [projectRows EXCEPT ![p] = 1]
  /\ UNCHANGED stored

AddFile(p, f) ==
  /\ projectRows[p] = 1
  /\ stored[f] = NoRows
  /\ stored' = [stored EXCEPT ![f] = AllRows]
  /\ UNCHANGED projectRows

Next == \E p \in Projects : AddProject(p) \/ \E f \in FilesOf[p] : AddFile(p, f)

Spec == Init /\ [][Next]_vars
===============================================================================
