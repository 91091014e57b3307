---------------------------- MODULE MCStopMatcher ----------------------------
(***************************************************************************)
(* The TLC runs of StopMatcher: two characters, tokens of up to three      *)
(* characters (a token may complete a pattern begun in the previous one and*)
(* begin the next), and pattern lists with overlaps of a pattern with      *)
(* itself and of one pattern with another, one inside another, none, and   *)
(* the empty pattern.                                                      *)
(***************************************************************************)
EXTENDS StopMatcher

CONSTANTS a, b

MCChars == {a, b}

MCPieces == {<< >>} \cup UNION {[1 .. n -> MCChars] : n \in 1 .. 3}

MCPatternLists ==
    {<< >>, << <<a, b>> >>, << <<a, a, b>> >>, << <<a, b, a>>, <<b, b>> >>,
     << <<b>>, <<a, b>> >>, << <<a, b, a, b, b>> >>, << << >> >>}

=============================================================================
