---------------------------- MODULE FifoChannel -----------------------------
(***************************************************************************)
(* What a channel promises, without waiters, locks or awaiters: values are *)
(* accepted in some order and delivered in that order, each once; at most  *)
(* Capacity accepted values are undelivered; nothing is accepted after the *)
(* channel is closed, and what was accepted before can still be delivered. *)
(***************************************************************************)
EXTENDS Integers, Sequences

CONSTANTS Values, Capacity

VARIABLES accepted,   \* every value a send has put in, in order
          delivered,  \* every value a recv has taken out, in order
          closed

vars == <<accepted, delivered, closed>>

Init ==
    /\ accepted = <<>>
    /\ delivered = <<>>
    /\ closed = FALSE

Undelivered == Len(accepted) - Len(delivered)

Oldest == accepted[Len(delivered) + 1]

Accept(v) ==
    /\ ~closed
    /\ Undelivered < Capacity
    /\ accepted' = Append(accepted, v)
    /\ UNCHANGED <<delivered, closed>>

Deliver ==
    /\ Undelivered > 0
    /\ delivered' = Append(delivered, Oldest)
    /\ UNCHANGED <<accepted, closed>>

\* A value passes straight through an empty channel.
Pass(v) ==
    /\ ~closed
    /\ Undelivered = 0
    /\ accepted' = Append(accepted, v)
    /\ delivered' = Append(delivered, v)
    /\ UNCHANGED closed

\* The room one delivery makes is taken at once.
Replace(v) ==
    /\ ~closed
    /\ Undelivered > 0
    /\ delivered' = Append(delivered, Oldest)
    /\ accepted' = Append(accepted, v)
    /\ UNCHANGED closed

Close ==
    /\ closed' = TRUE
    /\ UNCHANGED <<accepted, delivered>>

Next ==
    \/ \E v \in Values : Accept(v) \/ Pass(v) \/ Replace(v)
    \/ Deliver
    \/ Close

Spec == Init /\ [][Next]_vars
=============================================================================
