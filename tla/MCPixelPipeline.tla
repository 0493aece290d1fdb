---------------------------- MODULE MCPixelPipeline ----------------------------
(* A line of three tiles and an OAM of four entries of which a line may show *)
(* three; the sizes of a tile and of the fetches are those of the code.     *)
(* Objects at every kind of place in a tile, alone, in pairs and stacked,   *)
(* partly or wholly outside the screen, in and against the order of OAM.    *)
EXTENDS PixelPipeline, TLC
Places == {-8, -5, 0, 6, 7, 20}
Table(a, b, c, d) == (0 :> a) @@ (1 :> b) @@ (2 :> c) @@ (3 :> d)
SomeTables ==
  {Table(Off, Off, a, Off) : a \in Places \cup {Off}}
  \cup {Table(l[1], Off, Off, l[2]) : l \in {p \in Places \X Places : p[1] <= p[2]}}
  \cup {Table(Off, 12, 7, Off), Table(Off, 7, 7, Off), Table(7, 0, 0, Off),
        Table(13, 6, -1, Off), Table(Off, 3, 7, 7), Table(20, 12, 6, 0), Table(9, 9, 9, 2)}
SomeStarts == {-7, 5, 30}
=============================================================================
