---------------------------- MODULE MCQueryService ----------------------------
(***************************************************************************)
(* Instances of QueryService for TLC.                                      *)
(***************************************************************************)
EXTENDS QueryService, TLC

Ask(q, n) == [path |-> "/query", query |-> q, offset |-> n]
Count     == [path |-> "/stats", query |-> "none", offset |-> 0]

\* "calls" has a hit in both files
MCHits == [calls |-> 1..2, unknown |-> {}]
MCBody == {Ask("calls", 0), Ask("calls", 1), Ask("unknown", 0),
           Ask("no ReizQL", 0), Ask("", 0), Ask("none", 0), Ask("null", 0), Count}
=============================================================================
