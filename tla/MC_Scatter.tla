------------------------------ MODULE MC_Scatter ------------------------------
(***************************************************************************)
(* The calls of Scatter that TLC goes through.                             *)
(***************************************************************************)
EXTENDS Scatter

View(shape, stride) == [shape |-> shape, stride |-> stride]

Scatters(inp, dim, index, src, reduces, contents, special) ==
  { [inp |-> inp, dim |-> dim, index |-> index, src |-> src, reduce |-> r,
     contents |-> c, zeros |-> special.zeros, negatives |-> special.negatives,
     nans |-> special.nans] : r \in reduces, c \in contents }

Plain == [zeros |-> {}, negatives |-> {}, nans |-> {}]
Signs == [zeros |-> {0}, negatives |-> {1, 4}, nans |-> {}]
Bad == [zeros |-> {}, negatives |-> {}, nans |-> {1}]
Mixed == [zeros |-> {0}, negatives |-> {2}, nans |-> {1}]
Reduces == {"none", "add", "multiply"}

\* Contents that send everything to one place, or by the parity of the place.
One(shape) == {[m \in Indices(shape) |-> 1]}
Parity(shape) == {[m \in Indices(shape) |-> (m[1] + m[2]) % 2]}

\* Any three sources to three places: two lanes of one program, the last one
\* alone with a lane beyond the end.  Two rows of a transposed matrix, along
\* either axis, by two programs.  Five sources to one place, with zeros and
\* signs.  An expanded source.  A source that is NaN, alone
\* and beside a zero and a number that makes it a negative one.
MCCases ==
  Scatters(View(<<3>>, <<1>>), 1, View(<<3>>, <<1>>), View(<<3>>, <<2>>), Reduces,
           [Indices(<<3>>) -> 0 .. 2], Plain)
  \cup UNION { Scatters(View(<<2, 3>>, <<1, 2>>), d, View(<<2, 3>>, <<3, 1>>),
                        View(<<2, 3>>, <<3, 1>>), Reduces,
                        One(<<2, 3>>) \cup Parity(<<2, 3>>), Plain) : d \in {1, 2} }
  \cup Scatters(View(<<2>>, <<1>>), 1, View(<<5>>, <<1>>), View(<<5>>, <<1>>),
                {"multiply"}, One(<<5>>), Signs)
  \cup Scatters(View(<<2, 2>>, <<2, 1>>), 1, View(<<2, 2>>, <<2, 1>>),
                View(<<2, 2>>, <<0, 1>>), Reduces, Parity(<<2, 2>>), Plain)
  \cup Scatters(View(<<2>>, <<1>>), 1, View(<<2>>, <<1>>), View(<<2>>, <<1>>),
                {"multiply"}, One(<<2>>), Bad)
  \cup Scatters(View(<<2>>, <<1>>), 1, View(<<3>>, <<1>>), View(<<3>>, <<1>>),
                {"multiply"}, One(<<3>>), Mixed)
=============================================================================
