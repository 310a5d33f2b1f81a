------------------------------- MODULE Answers -------------------------------
(***************************************************************************)
(* What the web service promises those who ask, whatever it caches, fails  *)
(* or cancels: a request is told one thing; a success is what the database,*)
(* at some moment up to now, had for this very request; and a request that *)
(* is told there is nothing is told so by a database at least as new as    *)
(* the request.                                                            *)
(***************************************************************************)
EXTENDS Requests

VARIABLES version,  \* how many files are indexed
          body,     \* what each client is asking, NoBody if nothing
          since,    \* the version of the database when it asked
          reply     \* what it was told last

vars == <<version, body, since, reply>>

\* what is true of b in a database of v files
Truths(b, v) ==
  IF b.path = "/stats" THEN {1..v}
  ELSE IF b.query = "" THEN {{}}
  ELSE IF b.query \in WellFormed \ Refused THEN Pages(b, v) ELSE {}

\* what may be told to one who asked b when the database had u files and has w now
Honest(b, u, w) ==
  LET nonempty == UNION {Truths(b, v) \ {{}} : v \in 0..w}
      recent   == UNION {Truths(b, v) : v \in u..w}
  IN  Failures \cup {Success(S) : S \in nonempty \cup recent}

Init == /\ version = 0
        /\ body = [r \in Client |-> NoBody]
        /\ since = [r \in Client |-> 0]
        /\ reply = [r \in Client |-> NoReply]

\* a file is indexed
Index == /\ version < Files
         /\ version' = version + 1
         /\ UNCHANGED <<body, since, reply>>

Ask(r) == /\ body[r] = NoBody
          /\ \E b \in Body : body' = [body EXCEPT ![r] = b]
          /\ since' = [since EXCEPT ![r] = version]
          /\ reply' = [reply EXCEPT ![r] = NoReply]
          /\ UNCHANGED version

\* those who are told have asked; the end of a server tells many at once
Tell(told) ==
  /\ reply' \in [Client -> Replies]
  /\ \A r \in Client : IF r \in told THEN reply'[r] \in Honest(body[r], since[r], version)
                                    ELSE reply'[r] = reply[r]
  /\ body' = [r \in Client |-> IF r \in told THEN NoBody ELSE body[r]]
  /\ since' = [r \in Client |-> IF r \in told THEN 0 ELSE since[r]]
  /\ UNCHANGED version

Next == \/ Index \/ \E r \in Client : Ask(r)
        \/ \E told \in SUBSET {r \in Client : body[r] # NoBody} : Tell(told)

Spec == Init /\ [][Next]_vars
===============================================================================
