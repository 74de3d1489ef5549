------------------------------ MODULE Resolver ------------------------------
(***************************************************************************)
(* What ntpd's blocking worker promises to those who use it through        *)
(* getaddrinfo_sometime() and getnameinfo_sometime(): the requests are     *)
(* completed one at a time in the order in which they were queued, a       *)
(* request that is retried goes to the end of the line, and the worker is  *)
(* dismissed only when nothing waits.  A request made after the dismissal  *)
(* and before the departure is lost, and a worker that has lost one is not *)
(* dismissed again.                                                        *)
(*                                                                         *)
(* The promise has a limit: once a ring of pointers has been extended at a *)
(* place other than its start, or it or its index has been changed by both *)
(* threads at once, it is void (Break).                                    *)
(***************************************************************************)
EXTENDS Sequences, Functions

CONSTANTS
  Requests,     \* the names and addresses to look up
  Persistent    \* those asked for with retry > 0

VARIABLES
  waiting,      \* the requests queued and not completed, oldest first
  leaving,      \* has the worker been dismissed?
  lost,         \* the requests that no completion will ever follow
  sound         \* does the promise still hold?

vars == <<waiting, leaving, lost, sound>>

Init ==
  /\ waiting = <<>>
  /\ leaving = FALSE
  /\ lost = {}
  /\ sound = TRUE

Ask(r) ==
  /\ sound
  /\ r \notin Range(waiting) \cup lost
  /\ waiting' = Append(waiting, r)
  /\ UNCHANGED <<leaving, lost, sound>>

Answer ==
  /\ sound /\ waiting # <<>>
  /\ waiting' = Tail(waiting)
  /\ UNCHANGED <<leaving, lost, sound>>

Retry ==
  /\ sound /\ waiting # <<>>
  /\ Head(waiting) \in Persistent
  /\ waiting' = Append(Tail(waiting), Head(waiting))
  /\ UNCHANGED <<leaving, lost, sound>>

Dismiss ==
  /\ sound /\ ~leaving
  /\ waiting = <<>> /\ lost = {}
  /\ leaving' = TRUE
  /\ UNCHANGED <<waiting, lost, sound>>

Depart ==
  /\ sound /\ leaving
  /\ leaving' = FALSE
  /\ lost' = lost \cup Range(waiting)
  /\ waiting' = <<>>
  /\ UNCHANGED sound

Break ==
  /\ sound
  /\ sound' = FALSE
  /\ waiting' = <<>> /\ leaving' = FALSE /\ lost' = {}

Next ==
  \/ \E r \in Requests : Ask(r)
  \/ Answer \/ Retry
  \/ Dismiss \/ Depart
  \/ Break

Spec == Init /\ [][Next]_vars
=============================================================================
