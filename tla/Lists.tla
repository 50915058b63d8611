-------------------------------- MODULE Lists --------------------------------
(***************************************************************************)
(* A list comprehension with a condition, a sum and a concatenation over a *)
(* list, for models that are reasoned about.                               *)
(***************************************************************************)
EXTENDS Naturals, Sequences

\* [x for x in s if x in T]
Filter(s, T) ==
    LET upTo[n \in 0..Len(s)] ==
            IF n = 0 THEN <<>>
            ELSE IF s[n] \in T THEN Append(upTo[n - 1], s[n]) ELSE upTo[n - 1]
    IN  upTo[Len(s)]

\* sum(s)
TotalOf(s) ==
    LET upTo[n \in 0..Len(s)] == IF n = 0 THEN 0 ELSE upTo[n - 1] + s[n]
    IN  upTo[Len(s)]

\* "".join(ss)
Joined(ss) ==
    LET upTo[n \in 0..Len(ss)] == IF n = 0 THEN <<>> ELSE upTo[n - 1] \o ss[n]
    IN  upTo[Len(ss)]
=============================================================================
