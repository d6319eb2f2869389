---------------------------- MODULE RequestQueue ----------------------------
(***************************************************************************)
(* What a client may expect of the daemon as a server: the datagrams it    *)
(* has taken on are handled one at a time, in the order they came in and   *)
(* once each; a datagram gets at most one answer, which goes to its        *)
(* sender; when the server ends, what was waiting is gone.                 *)
(***************************************************************************)
EXTENDS Sequences

CONSTANTS
    Datagrams,  \* what clients send
    NoAnswer    \* no answer is on its way

VARIABLES
    waiting,  \* the datagrams taken on and not handled yet
    answered, \* the datagram the last step answered, or NoAnswer
    running   \* FALSE once the server ended

vars == <<waiting, answered, running>>

Init == waiting = <<>> /\ answered = NoAnswer /\ running = TRUE

TakeOn(d) ==
    /\ running
    /\ waiting' = Append(waiting, d)
    /\ answered' = NoAnswer
    /\ UNCHANGED running

(* The oldest datagram is handled, with or without an answer. *)
Serve ==
    /\ running /\ waiting # <<>>
    /\ waiting' = Tail(waiting)
    /\ answered' \in {NoAnswer, Head(waiting)}
    /\ UNCHANGED running

(* Something else happens: nothing is answered. *)
Rest == answered' = NoAnswer /\ UNCHANGED <<waiting, running>>

End ==
    /\ running' = FALSE
    /\ waiting' = <<>>
    /\ answered' = NoAnswer

Next == (\E d \in Datagrams : TakeOn(d)) \/ Serve \/ Rest \/ End

Spec == Init /\ [][Next]_vars
=============================================================================
