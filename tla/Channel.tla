------------------------------- MODULE Channel ------------------------------
(***************************************************************************)
(* What the queues of this program promise: what is accepted is delivered  *)
(* in the order of its acceptance and at most once; what is next may be    *)
(* lost, never what comes before something that was delivered later.       *)
(***************************************************************************)
EXTENDS Naturals, Sequences

CONSTANT Values

VARIABLES inFlight, delivered

vars == <<inFlight, delivered>>

Init == inFlight = <<>> /\ delivered = <<>>

Accept ==
  /\ \E v \in Values : inFlight' = Append(inFlight, v)
  /\ UNCHANGED delivered

Deliver ==
  /\ inFlight # <<>>
  /\ delivered' = Append(delivered, Head(inFlight))
  /\ inFlight' = Tail(inFlight)

(* The first values in flight are lost, one at least, all at most.         *)
Lose ==
  /\ \E n \in 1..Len(inFlight) : inFlight' = SubSeq(inFlight, n + 1, Len(inFlight))
  /\ UNCHANGED delivered

Next == Accept \/ Deliver \/ Lose

Spec == Init /\ [][Next]_vars
=============================================================================
