--------------------------- MODULE MCCardFormField ---------------------------
(***************************************************************************)
(* CardFormField for TLC: the beginnings of a number of each length and    *)
(* each layout, digits that make the number another brand's, and dates at  *)
(* the ends and in the middle of a century.                                *)
(***************************************************************************)
EXTENDS CardFormField

Numbers ==
  {<<4, 2, 4, 2, 4, 2, 4, 2, 4, 2, 4, 2, 4, 2, 4, 2>>,
   <<3, 5, 2, 8, 0, 0, 0, 0, 0, 0, 0, 0, 0, 0, 0, 7>>,
   <<3, 7, 8, 2, 8, 2, 2, 4, 6, 3, 1, 0, 0, 0, 5>>,
   <<3, 0, 5, 6, 9, 3, 0, 9, 0, 2, 5, 9, 0, 4>>}

MCPieces ==
  [number |-> UNION {{SubSeq(n, 1, l) : l \in {3, 4, 5, 9, 10, Len(n)}} : n \in Numbers},
   expiration |-> {<<2>>, <<0, 9>>, <<1, 2, 2>>, <<1, 1, 8, 1>>}]

MCKeys == [number |-> {3, 4}, expiration |-> {0, 1, 2, 8, 9}]

MCDates ==
  [number |-> {[year |-> 2024, month |-> 2]},
   expiration |-> {[year |-> 2024, month |-> 2], [year |-> 2081, month |-> 1],
                   [year |-> 2098, month |-> 12], [year |-> 2100, month |-> 1],
                   [year |-> 2018, month |-> 11]}]
=============================================================================
