----------------------------- MODULE JobService -----------------------------
(***************************************************************************)
(* What the job slots, the working threads and the pipes of backend.c      *)
(* promise together: per mode, a set of requested items that the database  *)
(* is asked for one at a time.  An item is asked for only while it is      *)
(* requested, it is asked for once, and it is done with only when the      *)
(* database has answered.  Requests for an item that is already requested  *)
(* join it, so that one answer serves all of them.                         *)
(***************************************************************************)
CONSTANTS Modes, Items, Answers, NoItem

VARIABLES
  requests,  \* requests[m]: the items asked for and not done with
  serving,   \* serving[m]: the item the database is asked for, or NoItem
  answer     \* answer[m]: the database's answer for it, as <<a>>; else <<>>

vars == <<requests, serving, answer>>

Init ==
  /\ requests = [m \in Modes |-> {}]
  /\ serving = [m \in Modes |-> NoItem]
  /\ answer = [m \in Modes |-> <<>>]

\* An idle mode may start to serve in the step that brings the request.
Request(m, i) ==
  /\ requests' = [requests EXCEPT ![m] = @ \union {i}]
  /\ \/ UNCHANGED serving
     \/ /\ serving[m] = NoItem
        /\ \E j \in requests'[m] : serving' = [serving EXCEPT ![m] = j]
  /\ UNCHANGED answer

Dispatch(m) ==
  /\ serving[m] = NoItem
  /\ \E i \in requests[m] : serving' = [serving EXCEPT ![m] = i]
  /\ UNCHANGED <<requests, answer>>

Answer(m) ==
  /\ serving[m] # NoItem /\ answer[m] = <<>>
  /\ \E a \in Answers : answer' = [answer EXCEPT ![m] = <<a>>]
  /\ UNCHANGED <<requests, serving>>

Complete(m) ==
  /\ answer[m] # <<>>
  /\ requests' = [requests EXCEPT ![m] = @ \ {serving[m]}]
  /\ serving' = [serving EXCEPT ![m] = NoItem]
  /\ answer' = [answer EXCEPT ![m] = <<>>]

Serve(m) == Dispatch(m) \/ Answer(m) \/ Complete(m)

Next == \E m \in Modes : Serve(m) \/ \E i \in Items : Request(m, i)

Spec == Init /\ [][Next]_vars

\* Every mode that has requests keeps serving them.
FairSpec == Spec /\ \A m \in Modes : WF_vars(Serve(m))
=============================================================================
