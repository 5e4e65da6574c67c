------------------------ MODULE MCStructuralRuntime ------------------------
EXTENDS StructuralRuntime

(* Two posts, 2 on the pier 1 and 4 on the pier 3, in chunks of their own, *)
(* and room for a 5 on the first.                                          *)
PostNeighbors == << {2}, {1, 5}, {4}, {3}, {2} >>
PostPiers == {1, 3}
PostChunks == <<1, 1, 2, 2, 1>>
Posts == 1..4
BothSeeds == <<2, 4>>
=============================================================================
