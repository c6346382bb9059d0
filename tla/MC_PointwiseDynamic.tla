------------------------- MODULE MC_PointwiseDynamic --------------------------
(***************************************************************************)
(* The calls of PointwiseDynamic that TLC goes through.                    *)
(***************************************************************************)
EXTENDS PointwiseDynamic

CONSTANTS t1, t2

View(shape, stride) == [shape |-> shape, stride |-> stride]

\* A scalar; vectors, with and without gaps, of an odd number of tiles;
\* matrices that are contiguous, transposed, cut out of wider ones, expanded,
\* of one column and empty; a column of columns; a matrix that overlaps itself
\* without an axis of stride 0.
Views ==
  { View(<<>>, <<>>), View(<<3>>, <<1>>), View(<<3>>, <<2>>), View(<<9>>, <<1>>),
    View(<<2, 3>>, <<3, 1>>), View(<<2, 3>>, <<1, 2>>), View(<<2, 3>>, <<4, 1>>),
    View(<<2, 3>>, <<0, 1>>), View(<<2, 1>>, <<1, 1>>), View(<<0, 3>>, <<3, 1>>),
    View(<<2, 1, 1>>, <<1, 2, 2>>), View(<<2, 2>>, <<1, 1>>) }

Outs == {NoOut, InPlace, View(<<3>>, <<2>>), View(<<2, 3>>, <<3, 1>>),
         View(<<2, 3>>, <<1, 2>>), View(<<2, 3>>, <<0, 1>>)}

Fn(scalar_fn, tiles, tile, grid) ==
  [scalar_fn |-> scalar_fn, tiles |-> tiles, max_tile_size |-> tile,
   max_grid_size |-> grid]

Add == Fn("add", "nd", 2, 2)
WideAdd == Fn("add", "nd", 4, 1)
FlatAdd == Fn("add", "1d", 2, 2)

\* One thread makes any call.
Alone ==
  {[t \in Threads |-> IF t = t1 THEN <<[fn |-> f, ins |-> ins, out |-> o]>> ELSE <<>>] :
     f \in {Add, FlatAdd}, ins \in {<<v, w>> : v, w \in Views}, o \in Outs}

\* Two threads call two functions of one scalar function, twice.
Small(f, n) ==
  [fn |-> f, ins |-> <<View(<<3>>, <<n>>), View(<<3>>, <<1>>)>>, out |-> NoOut]
Together ==
  {[t \in Threads |-> IF t = t1 THEN <<Small(Add, m), Small(Add, 1)>>
                                ELSE <<Small(f, 1), Small(Add, n)>>] :
     f \in {Add, WideAdd}, m, n \in {1, 2}}

MCWorkloads == Alone \cup Together
=============================================================================
