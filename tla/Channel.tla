------------------------------ MODULE Channel ------------------------------
(***************************************************************************)
(* What a connection promises the two applications, in one direction: the  *)
(* messages that send accepts without an error are taken by the other end  *)
(* in that order, none twice, none left out and each with the content it   *)
(* had, until the connection is over; or until the other end takes garbage *)
(* for a message, after which it may leave out messages and take more      *)
(* garbage, but no message twice, out of order or changed.  What is taken  *)
(* is handed to a thread of its own, or lost if that thread cannot be      *)
(* started; threads call the application in any order.                     *)
(***************************************************************************)
EXTENDS Integers, Sequences

CONSTANTS Payloads, Garbage

VARIABLES accepted,   \* messages send has accepted
          taken,      \* the numbers of those it has taken, 0 for garbage
          running,    \* events whose thread has not called the application
          handled,    \* events the application has been called with
          over        \* the other end takes no more

vars == <<accepted, taken, running, handled, over>>

(* The event of message number i; 0 is the end of the connection, and     *)
(* -i garbage that was taken i-th.                                        *)
Event(i, payload) == [msg |-> i, data |-> payload]
EndEvent == Event(0, <<>>)

Init ==
  /\ accepted = <<>> /\ taken = <<>>
  /\ running = {} /\ handled = {} /\ over = FALSE

Accept ==
  /\ \E payload \in Payloads : accepted' = Append(accepted, payload)
  /\ UNCHANGED <<taken, running, handled, over>>

(* Nothing but messages was taken so far. *)
InOrder == \A k \in DOMAIN taken : taken[k] # 0

Take ==
  /\ ~over
  /\ \E i \in 1..Len(accepted) :
       /\ \A k \in DOMAIN taken : taken[k] < i
       /\ InOrder => i = Len(taken) + 1
       /\ taken' = Append(taken, i)
       /\ running' \in {running, running \cup {Event(i, accepted[i])}}
  /\ UNCHANGED <<accepted, handled, over>>

TakeGarbage ==
  /\ ~over
  /\ taken' = Append(taken, 0)
  /\ running' \in
       {running, running \cup {Event(0 - (Len(taken) + 1), Garbage)}}
  /\ UNCHANGED <<accepted, handled, over>>

Finish ==
  /\ ~over /\ over' = TRUE
  /\ running' \in {running, running \cup {EndEvent}}
  /\ UNCHANGED <<accepted, taken, handled>>

Call ==
  /\ \E event \in running :
       /\ running' = running \ {event}
       /\ handled' = handled \cup {event}
  /\ UNCHANGED <<accepted, taken, over>>

Next == Accept \/ Take \/ TakeGarbage \/ Finish \/ Call

Spec == Init /\ [][Next]_vars
=============================================================================
