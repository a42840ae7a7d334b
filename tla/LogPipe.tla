------------------------------ MODULE LogPipe ------------------------------
(***************************************************************************)
(* What an asynchronous logger promises its callers, with no buffers, no   *)
(* thread and no mutex.  Events are numbered in the order in which the     *)
(* logger accepts them.  An accepted event is pending until it is written  *)
(* to the log or shed under overload; writing takes the oldest pending     *)
(* events, in order, and no event is settled twice.                        *)
(***************************************************************************)
EXTENDS Naturals, Sequences, SequencesExt

VARIABLES
  accepted,   \* how many events the callers have handed over
  logged,     \* the events written to the sink, in the order written
  dropped     \* the events shed because the backlog was too long

vars == <<accepted, logged, dropped>>

Settled == Range(logged) \union dropped
Pending == (1 .. accepted) \ Settled

Increasing(s) == \A i, j \in DOMAIN s : i < j => s[i] < s[j]

Init ==
  /\ accepted = 0
  /\ logged = << >>
  /\ dropped = {}

Accept ==
  /\ accepted' = accepted + 1
  /\ UNCHANGED <<logged, dropped>>

(* The log grows by a batch of pending events, every one of them older than *)
(* the events that stay pending.                                            *)
Write ==
  /\ IsPrefix(logged, logged')
  /\ LET batch == Range(logged') \ Range(logged)
     IN  /\ batch \subseteq Pending
         /\ \A e \in batch, f \in Pending \ batch : e < f
  /\ Increasing(logged')
  /\ UNCHANGED <<accepted, dropped>>

Shed ==
  /\ dropped \subseteq dropped'
  /\ dropped' \ dropped \subseteq Pending
  /\ UNCHANGED <<accepted, logged>>

Next == Accept \/ Write \/ Shed

Spec == Init /\ [][Next]_vars
=============================================================================
