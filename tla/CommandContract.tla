-------------------------- MODULE CommandContract --------------------------
(***************************************************************************)
(* What the arm controller promises for its commands, with no word on how: *)
(* one command at a time is worked on, it is written to the hub at most    *)
(* once, a command turned away was never written, and a command that was   *)
(* accepted ends.                                                          *)
(***************************************************************************)
EXTENDS Naturals

CONSTANTS Commands

VARIABLES
  status,  \* command -> "new", "open", "sent" or its outcome
  rpcs     \* command -> arm requests written to the hub

Outcomes == {"CONFIRMED", "REFUSED", "FAILED", "UNCONFIRMED", "REJECTED",
             "AUTH_FAILED"}
InFlight == {"open", "sent"}

Init ==
  /\ status = [c \in Commands |-> "new"]
  /\ rpcs = [c \in Commands |-> 0]

Becomes(c, s) == status' = [status EXCEPT ![c] = s]

Accept(c) ==
  /\ status[c] = "new"
  /\ \A d \in Commands : status[d] \notin InFlight
  /\ Becomes(c, "open")
  /\ UNCHANGED rpcs

Reject(c) ==
  /\ status[c] \in {"new", "open"}
  /\ Becomes(c, "REJECTED")
  /\ UNCHANGED rpcs

Send(c) ==
  /\ status[c] = "open"
  /\ Becomes(c, "sent")
  /\ rpcs' = [rpcs EXCEPT ![c] = @ + 1]

GiveUp(c) ==
  /\ status[c] = "open"
  /\ \E o \in {"FAILED", "AUTH_FAILED"} : Becomes(c, o)
  /\ UNCHANGED rpcs

Conclude(c) ==
  /\ status[c] = "sent"
  /\ \E o \in Outcomes \ {"REJECTED"} : Becomes(c, o)
  /\ UNCHANGED rpcs

Progress(c) ==
  \/ status[c] = "open" /\ Reject(c)
  \/ Send(c)
  \/ GiveUp(c)
  \/ Conclude(c)

Next == \E c \in Commands : Accept(c) \/ Reject(c) \/ Progress(c)

SafetySpec == Init /\ [][Next]_<<status, rpcs>>

Spec ==
  /\ SafetySpec
  /\ \A c \in Commands : WF_<<status, rpcs>>(Progress(c))

=============================================================================
