------------------------------ MODULE Selection ------------------------------
\* What is left of a list when only some of its elements stay, in their order. It
\* is what SelectSeq of the standard module does, written as a recursive function
\* and with a set, so that its properties can be proved.
EXTENDS Naturals, Sequences

\* What is left of the first i elements, for every i.
Selected(s, T) ==
    LET left[i \in 0 .. Len(s)] ==
            IF i = 0 THEN << >>
            ELSE IF s[i] \in T THEN Append(left[i - 1], s[i]) ELSE left[i - 1]
    IN  left

Selection(s, T) == Selected(s, T)[Len(s)]
=============================================================================
