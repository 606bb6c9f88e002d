-------------------------- MODULE DatagramService --------------------------
(***************************************************************************)
(* What radius_lite::Socket promises about received datagrams, whatever    *)
(* the shape of its event loop: a serial server.  The datagrams the kernel *)
(* keeps wait in order; the server takes one, hands it to the callback     *)
(* together with the address it came from, and only then takes the next.  *)
(* Closing throws away what waits.  A callback that lets an exception out  *)
(* ends the service.                                                       *)
(*                                                                         *)
(* Socket.tla is the event-driven program; Socket!Service is its view as  *)
(* this specification.                                                     *)
(***************************************************************************)
EXTENDS Naturals, Sequences

CONSTANTS
    Datagrams,      \* the datagrams peers may send: records with a field from
    Room            \* how many datagrams the kernel keeps

VARIABLES
    waiting,        \* kept by the kernel, oldest first
    taken,          \* <<>>, or <<d>> while d sits in the program's buffer
    served,         \* every datagram handed over, with the address given
    status          \* "open", "closed" or "ended"

vars == <<waiting, taken, served, status>>

Served(d) == [datagram |-> d, source |-> d.from]

Init ==
    /\ waiting = <<>>
    /\ taken = <<>>
    /\ served = <<>>
    /\ status = "open"

(* A datagram arrives and is kept; one that is lost is a stuttering step. *)
Offer ==
    /\ status = "open"
    /\ Len(waiting) < Room
    /\ \E d \in Datagrams : waiting' = Append(waiting, d)
    /\ UNCHANGED <<taken, served, status>>

Take ==
    /\ status # "ended"
    /\ taken = <<>>
    /\ waiting # <<>>
    /\ taken' = <<Head(waiting)>>
    /\ waiting' = Tail(waiting)
    /\ UNCHANGED <<served, status>>

(* The callback runs; the next datagram may be taken in the same step. *)
Serve ==
    /\ status # "ended"
    /\ taken # <<>>
    /\ served' = Append(served, Served(Head(taken)))
    /\ \/ /\ waiting # <<>>
          /\ taken' = <<Head(waiting)>>
          /\ waiting' = Tail(waiting)
          /\ UNCHANGED status
       \/ /\ taken' = <<>>
          /\ UNCHANGED waiting
          /\ status' \in {status, "ended"}

Close ==
    /\ status = "open"
    /\ status' = "closed"
    /\ waiting' = <<>>
    /\ UNCHANGED <<taken, served>>

(* An exception of some other callback ends the service between datagrams. *)
End ==
    /\ status # "ended"
    /\ status' = "ended"
    /\ UNCHANGED <<waiting, taken, served>>

Next == Offer \/ Take \/ Serve \/ Close \/ End

Spec == Init /\ [][Next]_vars

(* A datagram that can be taken is taken, and one that was taken is served. *)
FairSpec == Spec /\ WF_vars(Take) /\ WF_vars(Serve)

=============================================================================
