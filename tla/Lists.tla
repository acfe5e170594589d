-------------------------------- MODULE Lists --------------------------------
(* The filter of a list, in the order of its elements: arrays in           *)
(* workspace_desktop/src, and handlers that wait for the same event. It is *)
(* a recursive function, of which more can be proved than of SelectSeq.    *)
EXTENDS Integers, Sequences

\* The elements of q that are in S.
Among(q, S) ==
    LET kept[k \in 0..Len(q)] ==
            IF k = 0 THEN <<>>
            ELSE IF q[k] \in S THEN Append(kept[k - 1], q[k]) ELSE kept[k - 1]
    IN kept[Len(q)]
=============================================================================
