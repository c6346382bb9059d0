------------------------------- MODULE Scatter -------------------------------
(***************************************************************************)
(* ops/scatter.py: every element of src goes to the element of out whose   *)
(* coordinate along dim is given by index, is added to it or multiplied    *)
(* into it.  The lanes of the kernel's programs meet on elements of out:   *)
(* sums are atomic additions, products a compare-and-swap loop in which    *)
(* all lanes of a program go on until the last of them has succeeded,      *)
(* together with the lanes beyond the end of index.                        *)
(*                                                                         *)
(* The strides the kernel applies to out are those of inp: they are the    *)
(* same for scatter_, where out is inp, and for scatter when inp is dense, *)
(* so that its clone has its strides.  Only such calls are modelled.       *)
(***************************************************************************)
EXTENDS ShapeUtils, Bags

CONSTANTS
  Cases,  \* the calls: views inp, index and src, axis dim, reduce, the
          \* contents of index by multi-index, and the sources that are zero,
          \* negative or NaN
  BLOCK,  \* lanes of a program
  LOOP    \* blocks a program handles

\* torch asks that index has the rank of inp and of src and is not longer than
\* inp along another axis, and that it holds places along dim.
IsCall(c) ==
  LET rank == Len(c.index.shape)
  IN  /\ c.index.shape \in Seq(Nat)
      /\ {c.inp.shape, c.inp.stride, c.src.stride} \subseteq [1 .. rank -> Nat]
      /\ c.dim \in 1 .. rank
      /\ \A i \in 1 .. rank : i # c.dim => c.index.shape[i] <= c.inp.shape[i]
      /\ c.contents \in [Indices(c.index.shape) -> 0 .. c.inp.shape[c.dim] - 1]
      /\ c.reduce \in {"none", "add", "multiply"}

ASSUME ScatterAssumption ==
  /\ BLOCK \in Nat \ {0} /\ LOOP \in Nat \ {0}
  /\ \A c \in Cases : IsCall(c)

VARIABLES
  case,     \* the call
  element,  \* element[a]: the element of out at address a
  iter,     \* iter[l]: the block of its program that lane l works on
  turn,     \* turn[l]: next statement of lane l
  cur,      \* cur[l]: cur_inp
  stop      \* stop[l]: the lane has nothing left to do in this block

scatter_vars == <<case, element, iter, turn, cur, stop>>

numel == volume(case.index.shape)
programs == cdiv(numel, BLOCK * LOOP)
ScatterLanes == (0 .. programs - 1) \X (0 .. BLOCK - 1)
LanesOf(p) == {p} \X (0 .. BLOCK - 1)
AllLanes == UNION { (0 .. cdiv(volume(c.index.shape), BLOCK * LOOP) - 1) \X (0 .. BLOCK - 1)
                      : c \in Cases }

-----------------------------------------------------------------------------
(***************************************************************************)
(* Index arithmetic                                                        *)
(***************************************************************************)
\* offsets of a lane in one of its blocks.
Offset(l, i) == l[1] * LOOP * BLOCK + i * BLOCK + l[2]
mask(o) == o < numel

\* mod along each axis, also of an offset beyond the last.
Mods(o) ==
  [i \in 1 .. Len(case.index.shape) |->
     (o \div volume(SubSeq(case.index.shape, i + 1, Len(case.index.shape))))
        % case.index.shape[i]]

\* restride_dim: the axis dim of inp counts nothing by itself.
inp_strides == [case.inp.stride EXCEPT ![case.dim] = 0]

\* A masked load of index gives 0.
cur_index(o) == IF mask(o) THEN case.contents[Mods(o)] ELSE 0
inp_offset(o) == Addr(inp_strides, Mods(o)) + cur_index(o) * case.inp.stride[case.dim]
src_offset(o) == Addr(case.src.stride, Mods(o))

-----------------------------------------------------------------------------
(***************************************************************************)
(* Numbers: a product is known by its factors, a zero by its sign alone.   *)
(* The two zeros are equal but have different bits, and NaN is not equal   *)
(* to itself.                                                              *)
(***************************************************************************)
Number(factors) == [kind |-> "num", neg |-> FALSE, factors |-> factors]
Zero(neg) == [kind |-> "zero", neg |-> neg, factors |-> EmptyBag]
NaN == [kind |-> "nan", neg |-> FALSE, factors |-> EmptyBag]

Equal(x, y) ==
  x.kind # "nan" /\ y.kind # "nan" /\ (x = y \/ (x.kind = "zero" /\ y.kind = "zero"))

Times(x, s) ==
  IF x.kind = "nan" \/ s \in case.nans THEN NaN
  ELSE IF x.kind = "zero" \/ s \in case.zeros
         THEN Zero((x.kind = "zero" /\ x.neg) # (s \in case.negatives))
  ELSE Number(x.factors (+) SetToBag({s}))

\* What an element holds at first; the sign of a number is not followed.
Untouched == Number(EmptyBag)

\* What if the lanes beyond the end did not count as stopped?
StopsAtFirstNone(l, i) == FALSE

\* stop = tl.where(mask, 0, 1)
StopsAtFirst(l, i) == ~mask(Offset(l, i))

ScatterInit ==
  /\ case \in Cases
  /\ element = [a \in Addrs(case.inp) |-> Untouched]
  /\ iter = [l \in ScatterLanes |-> 0]
  /\ turn = [l \in ScatterLanes |-> "load"]
  /\ cur = [l \in ScatterLanes |-> Zero(FALSE)]
  /\ stop = [l \in ScatterLanes |-> StopsAtFirst(l, 0)]

Here(l) == Offset(l, iter[l])
Target(l) == inp_offset(Here(l))

\* tl.atomic_add and tl.store: one masked step, then the next block.
ScatterOnce(l) ==
  /\ case.reduce # "multiply"
  /\ turn[l] = "load"
  /\ element' = IF ~mask(Here(l)) THEN element
                ELSE [element EXCEPT ![Target(l)] =
                        Number(IF case.reduce = "add"
                                 THEN @.factors (+) SetToBag({src_offset(Here(l))})
                                 ELSE SetToBag({src_offset(Here(l))}))]
  /\ iter' = [iter EXCEPT ![l] = @ + 1]
  /\ turn' = [turn EXCEPT ![l] = IF iter[l] + 1 = LOOP THEN "exited" ELSE "load"]
  /\ UNCHANGED <<case, cur, stop>>

\* cur_inp, 0 for a masked lane.
LoadCurrent(l) ==
  /\ case.reduce = "multiply"
  /\ turn[l] = "load"
  /\ cur' = [cur EXCEPT ![l] = IF mask(Here(l)) THEN element[Target(l)] ELSE Zero(FALSE)]
  /\ turn' = [turn EXCEPT ![l] = "cas"]
  /\ UNCHANGED <<case, element, iter, stop>>

\* A lane that has stopped swaps the element for what it is.
res(l) == IF stop[l] THEN cur[l] ELSE Times(cur[l], src_offset(Here(l)))

\* What if a lane stopped whether or not its swap succeeded?
CompareAndSwapOnce(l) ==
  /\ turn[l] = "cas"
  /\ element' = IF element[Target(l)] # cur[l] THEN element
                ELSE [element EXCEPT ![Target(l)] = res(l)]
  /\ stop' = [stop EXCEPT ![l] = TRUE]
  /\ turn' = [turn EXCEPT ![l] = "voted"]
  /\ UNCHANGED <<case, iter, cur>>

\* The swap compares bits and is not masked; success is read off by comparing
\* numbers.
CompareAndSwap(l) ==
  /\ turn[l] = "cas"
  /\ element' = IF element[Target(l)] # cur[l] THEN element
                ELSE [element EXCEPT ![Target(l)] = res(l)]
  /\ stop' = [stop EXCEPT ![l] = @ \/ Equal(cur[l], element[Target(l)])]
  /\ turn' = [turn EXCEPT ![l] = "voted"]
  /\ UNCHANGED <<case, iter, cur>>

\* block_stop: the sum over the lanes waits for all of them.
Vote(p) ==
  /\ \A l \in LanesOf(p) : turn[l] = "voted"
  /\ IF \A l \in LanesOf(p) : stop[l]
       THEN /\ iter' = [l \in ScatterLanes |-> iter[l] + IF l[1] = p THEN 1 ELSE 0]
            /\ turn' = [l \in ScatterLanes |-> IF l[1] # p THEN turn[l]
                        ELSE IF iter[l] + 1 = LOOP THEN "exited" ELSE "load"]
            /\ stop' = [l \in ScatterLanes |-> IF l[1] # p THEN stop[l]
                          ELSE StopsAtFirst(l, iter[l] + 1)]
       ELSE /\ turn' = [l \in ScatterLanes |-> IF l[1] = p THEN "load" ELSE turn[l]]
            /\ UNCHANGED <<iter, stop>>
  /\ UNCHANGED <<case, element, cur>>

Finished == \A l \in ScatterLanes : turn[l] = "exited"

LaneStep(l) == ScatterOnce(l) \/ LoadCurrent(l) \/ CompareAndSwap(l) \/ Vote(l[1])

ScatterNext == (\E l \in ScatterLanes : LaneStep(l)) \/ (Finished /\ UNCHANGED scatter_vars)

\* The lanes of a running program go on.
ScatterSpec ==
  /\ ScatterInit /\ [][ScatterNext]_scatter_vars
  /\ \A l \in AllLanes : WF_scatter_vars(l \in ScatterLanes /\ LaneStep(l))
-----------------------------------------------------------------------------
(***************************************************************************)
(* Properties                                                              *)
(***************************************************************************)
\* The places of index whose source goes to the element at address a.
Hits(a) ==
  {m \in Indices(case.index.shape) :
     Addr(case.inp.stride, [m EXCEPT ![case.dim] = case.contents[m]]) = a}

\* All their sources, counted as often as they occur.
Sources(a) ==
  [s \in {Addr(case.src.stride, m) : m \in Hits(a)} |->
     Cardinality({m \in Hits(a) : Addr(case.src.stride, m) = s})]

\* A product with a factor of zero is a zero, of either sign: the factors that
\* met another zero may not have been taken.  One with a factor that is NaN is
\* NaN, unless that factor has met a zero.
IsProduct(a) ==
  LET has_zero == DOMAIN Sources(a) \cap case.zeros # {}
      has_nan == DOMAIN Sources(a) \cap case.nans # {}
  IN  \/ has_zero /\ element[a].kind = "zero"
      \/ has_nan /\ element[a] = NaN
      \/ ~has_zero /\ ~has_nan /\ element[a] = Number(Sources(a))

\* When the kernel is through, an element that index does not name is as it
\* was, and another one is the sum or the product of all its sources, or one
\* of them: no factor is lost or taken twice although lanes race for the
\* element and successful lanes go on swapping.
Scattered ==
  Finished => \A a \in Addrs(case.inp) :
    IF Hits(a) = {} THEN element[a] = Untouched
    ELSE CASE case.reduce = "none" ->
                \E s \in DOMAIN Sources(a) : element[a] = Number(SetToBag({s}))
           [] case.reduce = "add" -> element[a] = Number(Sources(a))
           [] case.reduce = "multiply" -> IsProduct(a)

\* The kernel ends, if no number is NaN: a lane that has loaded a NaN never
\* finds its swap successful and its program goes on for ever.
Ends == case.nans = {} => <>Finished
=============================================================================
