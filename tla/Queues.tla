------------------------------- MODULE Queues -------------------------------
(* Operations on queues and lists that several components share. *)
EXTENDS Naturals, Sequences

Members(q) == {q[i] : i \in 1..Len(q)}

\* A scan that keeps, in their order, the elements of q that are in S.
Kept(q, S) ==
    LET kept[n \in 0..Len(q)] ==
            IF n = 0 THEN <<>>
            ELSE IF q[n] \in S THEN Append(kept[n - 1], q[n]) ELSE kept[n - 1]
    IN  kept[Len(q)]
=============================================================================
