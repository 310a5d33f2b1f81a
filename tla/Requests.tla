------------------------------- MODULE Requests -------------------------------
(***************************************************************************)
(* What may be asked of the web service and what the database, as of some  *)
(* number of indexed files, has to say to it.                              *)
(***************************************************************************)
EXTENDS Integers, FiniteSets

CONSTANTS Client,   \* those who ask, each one thing at a time
          Body,     \* what a request may ask
          Limit,    \* DEFAULT_LIMIT: how many hits an answer has at most
          Files,    \* how many files will be indexed; they are named 1..Files
          Hits,     \* Hits[q]: the files query q has a hit in, one hit in a file
          Refused   \* the queries the database refuses

ASSUME BodyAssumption ==
  Body \subseteq [path : {"/query", "/stats"}, query : STRING, offset : Int]
ASSUME HitsAssumption == \A q \in DOMAIN Hits : Hits[q] \subseteq 1..Files
ASSUME NumbersAssumption == Limit \in Nat /\ Files \in Nat

NoBody  == [path |-> "none", query |-> "none", offset |-> 0]

NoReply    == [status |-> "none", results |-> {}]
Success(S) == [status |-> "success", results |-> S]
Error      == [status |-> "error", results |-> {}]
Failed     == [status |-> "failed", results |-> {}]   \* the handler raised: a 500
Gone       == [status |-> "gone", results |-> {}]     \* nobody is there to hear it
Failures   == {Error, Failed, Gone}
Replies    == {NoReply} \cup Failures \cup {Success(S) : S \in SUBSET (1..Files)}

\* the texts that parse and compile
WellFormed == DOMAIN Hits

\* the empty query; "none" stands for a request without one, "null" for one that is null
NoQuery == {"", "none", "null"}

\* how many of n hits are behind the offset and within the limit
PageSize(n, offset) ==
  LET rest == IF offset > 0 THEN n - offset ELSE n
  IN  IF rest < 0 THEN 0 ELSE IF rest > Limit THEN Limit ELSE rest

\* what a database of v files may return; it promises no order of the hits
Pages(b, v) ==
  LET hits == Hits[b.query] \cap 1..v
  IN  {S \in SUBSET hits : Cardinality(S) = PageSize(Cardinality(hits), b.offset)}
===============================================================================
