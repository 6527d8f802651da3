----------------------------- MODULE RequestLife -----------------------------
(***************************************************************************)
(* What the proxy promises of a request, whatever the clock, the workers   *)
(* and the clients do: it waits at the proxy, it is given to at most one   *)
(* worker, its answer is passed to the client at most once, and it never   *)
(* moves back.  The proxy does not promise that a request is answered: at  *)
(* any point it may be over, because it was refused, dropped or lost.      *)
(***************************************************************************)
EXTENDS FiniteSets

CONSTANTS Requests, Workers

VARIABLE place   (* place[r]: where request r is                            *)

Unsent   == <<"unsent">>
Queued   == <<"queued">>
Given(w) == <<"given", w>>
Answered == <<"answered">>
Over     == <<"over">>

Init == place = [r \in Requests |-> Unsent]

Arrive(r) ==
    /\ place[r] = Unsent
    /\ place' = [place EXCEPT ![r] = Queued]

Assign(r, w) ==
    /\ place[r] = Queued
    /\ place' = [place EXCEPT ![r] = Given(w)]

Answer(r) ==
    /\ \E w \in Workers : place[r] = Given(w)
    /\ place' = [place EXCEPT ![r] = Answered]

\* Refused or dropped on its way, or lost with a connection: the requests of
\* one peer that a lost connection held are over together.
Finish(S) ==
    /\ S # {}
    /\ \E p \in {Queued, Answered} \cup {Given(w) : w \in Workers} :
          \A r \in S : place[r] = p
    /\ place' = [r \in Requests |-> IF r \in S THEN Over ELSE place[r]]

\* The proxy ends, and with it every request that was sent.
Stop == place' = [r \in Requests |-> IF place[r] = Unsent THEN Unsent ELSE Over]

Next ==
    \/ \E r \in Requests : Arrive(r) \/ Answer(r) \/ \E w \in Workers : Assign(r, w)
    \/ \E S \in SUBSET Requests : Finish(S)
    \/ Stop

Spec == Init /\ [][Next]_place
=============================================================================
