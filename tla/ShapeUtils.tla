----------------------------- MODULE ShapeUtils ------------------------------
(***************************************************************************)
(* utils/shape_utils.py: shapes and strides of tensors.  A shape, a stride *)
(* and a multi-index are sequences of the same length, the rank.  A view   *)
(* is a record of a shape and a stride.                                    *)
(***************************************************************************)
EXTENDS Integers, Sequences, FiniteSets, FiniteSetsExt, SequencesExt

\* What broadcast raises a ValueError for.
Unbroadcastable == <<-1>>

volume(shape) == FoldLeft(LAMBDA a, b : a * b, 1, shape)

\* The shapes are aligned at the right; in each position an extent of 1 gives
\* way to the other one.
broadcast(s1, s2) ==
  LET long == IF Len(s1) >= Len(s2) THEN s1 ELSE s2
      short == IF Len(s1) >= Len(s2) THEN s2 ELSE s1
      d == Len(long) - Len(short)
      fits == \A i \in 1 .. Len(short) :
                1 \in {long[d + i], short[i]} \/ long[d + i] = short[i]
  IN  IF Unbroadcastable \in {s1, s2} \/ ~fits THEN Unbroadcastable
      ELSE [i \in 1 .. Len(long) |->
              IF i > d /\ long[i] = 1 THEN short[i - d] ELSE long[i]]

broadcast_shapes(shapes) == FoldLeft(broadcast, <<>>, shapes)

\* What if the extents of 1 kept their stride?
broadcasted_stride_kept(shape, stride, new_shape) ==
  LET d == Len(new_shape) - Len(shape)
  IN  [i \in 1 .. Len(new_shape) |-> IF i <= d THEN 0 ELSE stride[i - d]]

\* The stride that shows a view of that shape as one of new_shape.
broadcasted_stride(shape, stride, new_shape) ==
  LET d == Len(new_shape) - Len(shape)
  IN  [i \in 1 .. Len(new_shape) |->
         IF i <= d \/ (shape[i - d] = 1 /\ new_shape[i] > 1)
           THEN 0 ELSE stride[i - d]]

\* Offset of each axis when the last one changes fastest; an extent of 0
\* counts as 1.
c_contiguous_stride(shape) ==
  [i \in 1 .. Len(shape) |->
     volume([j \in 1 .. Len(shape) - i |->
               IF shape[i + j] = 0 THEN 1 ELSE shape[i + j]])]

\* The multi-index that the last axis changes fastest in; the first axis takes
\* what is left, as the generated kernels compute it.
unravel_index(linear_offset, shape) ==
  [i \in 1 .. Len(shape) |->
     LET rest == linear_offset \div volume(SubSeq(shape, i + 1, Len(shape)))
     IN  IF i = 1 THEN rest ELSE rest % shape[i]]

all_the_same_shape(views) == \A v, w \in views : v.shape = w.shape
all_the_same_stride(views) == \A v, w \in views : v.stride = w.stride

\* Tensor.is_contiguous: the stride of an extent of 1 does not matter.
is_contiguous(v) ==
  \/ 0 \in {v.shape[i] : i \in 1 .. Len(v.shape)}
  \/ \A i \in 1 .. Len(v.shape) :
       v.shape[i] # 1 => v.stride[i] = c_contiguous_stride(v.shape)[i]

all_c_contiguous(views) == \A v \in views : is_contiguous(v)

Indices(shape) == {f \in [1 .. Len(shape) -> 0 .. Max({0} \cup {shape[i] : i \in 1 .. Len(shape)})] :
                     \A i \in 1 .. Len(shape) : f[i] < shape[i]}

\* Where an element of a view is in its storage.
Addr(stride, index) ==
  FoldLeft(LAMBDA a, b : a + b, 0, [i \in 1 .. Len(stride) |-> stride[i] * index[i]])

Addrs(v) == {Addr(v.stride, i) : i \in Indices(v.shape)}

\* aten::is_non_overlapping_and_dense: the elements fill their storage.
is_non_overlapping_and_dense(v) ==
  Cardinality(Addrs(v)) = volume(v.shape) /\ Addrs(v) = 0 .. volume(v.shape) - 1

\* MemOverlap.Yes; No and TooHard are treated alike.
has_internal_overlapping(v) ==
  /\ ~is_contiguous(v) /\ ~is_non_overlapping_and_dense(v)
  /\ \E i \in 1 .. Len(v.shape) : v.shape[i] > 1 /\ v.stride[i] = 0

\* 1, doubled until it is not less than n.
next_power_of_2(n) ==
  FoldLeft(LAMBDA p, m : IF p < m THEN 2 * p ELSE p, 1, [i \in 1 .. n |-> n])
cdiv(a, b) == (a + b - 1) \div b

\* An axis takes of what is left of the tile as much as it can use; the last
\* axis comes first.
TakeTile(s, size) ==
  LET tile == Min({s.left, next_power_of_2(size)})
  IN  [left |-> Max({1, s.left \div tile}), tiles |-> <<tile>> \o s.tiles]

heuristics_for_tile_size(max_tile_size, sizes) ==
  FoldLeft(TakeTile, [left |-> max_tile_size, tiles |-> <<>>], Reverse(sizes)).tiles
=============================================================================
