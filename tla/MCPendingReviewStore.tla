------------------------ MODULE MCPendingReviewStore ------------------------
(* Instances of PendingReviewStore for TLC. *)
EXTENDS PendingReviewStore

\* One retry point with and one without a server Retry-After: no other column
\* of the checkpoint is read by the store.
MCRetryPoint == {[phase |-> "post", attempt |-> 0, local |-> 0, server |-> d, pending |-> TRUE]
                    : d \in {NoDelay, 1}}
=============================================================================
