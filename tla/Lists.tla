------------------------------- MODULE Lists -------------------------------
(***************************************************************************)
(* Lists as labctl and the shims handle them, as sequences.                *)
(***************************************************************************)
EXTENDS Naturals, Sequences

Elements(s) == {s[i] : i \in DOMAIN s}

\* The elements of s that are in S, in their order: SelectSeq, in a form that can
\* be reasoned about.
Only(s, S) ==
  LET kept[i \in 0..Len(s)] ==
        IF i = 0 THEN <<>>
        ELSE IF s[i] \in S THEN Append(kept[i - 1], s[i])
        ELSE kept[i - 1]
  IN  kept[Len(s)]
=============================================================================
