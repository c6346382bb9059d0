---------------------------- MODULE StablePasses -----------------------------
(***************************************************************************)
(* What a radix sort promises of each pass: the elements are dealt out by  *)
(* their digit, and those with equal digits keep their order.              *)
(***************************************************************************)
EXTENDS Integers, FiniteSets

CONSTANTS N, Elements, Digit(_, _), Passes

VARIABLES arr, pass

\* Where element i of f goes in pass p.
Place(f, p, i) ==
  Cardinality({j \in DOMAIN f :
    Digit(f[j], p) < Digit(f[i], p)
      \/ (Digit(f[j], p) = Digit(f[i], p) /\ j < i)})

Init == arr \in [0 .. N - 1 -> Elements] /\ pass = 0

Deal ==
  /\ pass < Passes
  /\ pass' = pass + 1
  /\ arr' \in [0 .. N - 1 -> {arr[i] : i \in 0 .. N - 1}]
  /\ \A i \in 0 .. N - 1 : arr'[Place(arr, pass, i)] = arr[i]

Spec == Init /\ [][Deal]_<<arr, pass>>
=============================================================================
