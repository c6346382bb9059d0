------------------------------- MODULE Philox --------------------------------
(***************************************************************************)
(* philox_backend_seed_offset (utils/random_utils.py) and its user rand    *)
(* (ops/rand.py): host threads draw ranges of Philox counters from one     *)
(* generator.  The generator's state is read, advanced in a copy and       *)
(* written back; only get_state and set_state are atomic.  The seed is     *)
(* fixed, so a counter that two launches use gives the same numbers twice. *)
(***************************************************************************)
EXTENDS Integers, FiniteSets

CONSTANTS
  Threads,   \* host threads
  Sizes,     \* numbers of elements asked for
  BLOCK,     \* lanes of one program of rand_kernel
  Words,     \* values of the low word of a counter: 2^32 in the code
  Starts,    \* offsets the generator may start from
  MaxCalls   \* bound: calls per thread

UNROLL == 4   \* numbers one counter gives

ASSUME PhiloxAssumption ==
  /\ Sizes \subseteq Nat
  /\ BLOCK \in Nat \ {0}
  /\ Words \in Nat \ {0}
  /\ Starts \subseteq Nat
  /\ \A o \in Starts : o % UNROLL = 0
  /\ MaxCalls \in Nat

VARIABLES
  state,  \* the generator's offset
  first,  \* the offset it started from (history)
  at,     \* at[t]: next statement of thread t
  N,      \* N[t]: elements the call of t is to fill
  copy,   \* copy[t]: the offset t read, its philox_offset
  used,   \* used[c]: launches that used counter c (history)
  asked,  \* sum of the increments of all completed updates (history)
  whole,  \* only whole programs of rand_kernel were asked for (history)
  raced,  \* an update was made to a state that had moved on (history)
  calls

philox_vars == <<state, first, at, N, copy, used, asked, whole, raced, calls>>

cdiv(a, b) == (a + b - 1) \div b

\* What if it were the counters one lane goes through?
incrementPerThread(n) == cdiv(n, BLOCK * UNROLL)

increment(n) == cdiv(n, UNROLL)

\* What if the increment were not rounded to whole groups of four?
RoundedNot(inc) == inc

Rounded(inc) == ((inc + 3) \div 4) * 4

\* The lanes of all programs that store a number: off_0 < N.
ActiveLanes(n) ==
  {i \in 0 .. cdiv(n, BLOCK * UNROLL) * BLOCK - 1 :
     (i \div BLOCK) * BLOCK * UNROLL + (i % BLOCK) < n}

\* c0 += i4 in 32 bits: the carry does not reach c1.
Counter(offset, i) == <<((offset % Words) + i) % Words, offset \div Words>>

Counters == (0 .. Words - 1) \X (0 .. 1)

PhiloxInit ==
  /\ state \in Starts
  /\ first = state
  /\ at = [t \in Threads |-> "idle"]
  /\ N = [t \in Threads |-> 0]
  /\ copy = [t \in Threads |-> 0]
  /\ used = [c \in Counters |-> 0]
  /\ asked = 0
  /\ whole = TRUE
  /\ raced = FALSE
  /\ calls = [t \in Threads |-> 0]

\* rand(size), up to state_copy = generator.get_state().
GetState(t, n) ==
  /\ calls[t] < MaxCalls
  /\ at[t] = "idle"
  /\ at' = [at EXCEPT ![t] = "set_state"]
  /\ N' = [N EXCEPT ![t] = n]
  /\ copy' = [copy EXCEPT ![t] = state]
  /\ calls' = [calls EXCEPT ![t] = @ + 1]
  /\ whole' = (whole /\ n % (BLOCK * UNROLL) = 0)
  /\ UNCHANGED <<state, first, used, asked, raced>>

\* c1 += increment; generator.set_state(state_copy)
SetState(t) ==
  /\ at[t] = "set_state"
  /\ at' = [at EXCEPT ![t] = "launch"]
  /\ LET inc == Rounded(increment(N[t])) IN
       /\ state' = copy[t] + inc
       /\ asked' = asked + inc
  /\ raced' = (raced \/ state # copy[t])
  /\ UNCHANGED <<first, N, copy, used, whole, calls>>

\* rand_kernel[grid_fn](out, N, philox_seed, philox_offset)
Launch(t) ==
  /\ at[t] = "launch"
  /\ at' = [at EXCEPT ![t] = "idle"]
  /\ LET S == {Counter(copy[t], i) : i \in ActiveLanes(N[t])} IN
       used' = [c \in Counters |-> IF c \in S THEN used[c] + 1 ELSE used[c]]
  /\ UNCHANGED <<state, first, N, copy, asked, whole, raced, calls>>

AllDrawn ==
  /\ \A t \in Threads : at[t] = "idle" /\ calls[t] = MaxCalls
  /\ UNCHANGED philox_vars

PhiloxNext ==
  \/ \E t \in Threads :
       (\E n \in Sizes : GetState(t, n)) \/ SetState(t) \/ Launch(t)
  \/ AllDrawn

PhiloxSpec == PhiloxInit /\ [][PhiloxNext]_philox_vars
-----------------------------------------------------------------------------
(***************************************************************************)
(* Properties                                                              *)
(***************************************************************************)
\* The generator's offset, and every offset handed out by
\* philox_backend_seed_offset, is one set_philox_state accepts when the state
\* is restored: a multiple of four, whatever sizes were asked for and however
\* the threads interleave.
Restorable ==
  /\ state \in Nat /\ state % 4 = 0
  /\ \A t \in Threads : copy[t] \in Nat /\ copy[t] % 4 = 0

\* No Philox counter is used by two launches, as long as no thread updated a
\* generator that had moved on since it read it, whole programs of rand_kernel
\* are asked for and the calls together draw no more than Words counters; where
\* they start relative to the end of the low word is free.
NoRepeat ==
  ~raced /\ whole /\ asked <= Words =>
    \A c \in Counters : used[c] <= 1

\* The comment on philox_backend_seed_offset: the call returns the current
\* state and updates the next offset by adding `increment`.  Over all calls,
\* the offset is then the first one plus all increments.
AllAdded == state = first + asked
=============================================================================
