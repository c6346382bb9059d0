------------------------------- MODULE UseGems -------------------------------
(***************************************************************************)
(* enable, use_gems and all_ops (__init__.py) with Register                *)
(* (runtime/register.py): which operators are on, and what the global      *)
(* registrar says of them.                                                 *)
(*                                                                         *)
(* Calls of enable register in the one library aten_lib, a context in a    *)
(* library of its own.  Contexts and calls of several threads, or nested   *)
(* in one, take their steps in any order.  torch.library is modelled as    *)
(* Register uses it: an operator somebody has registered cannot be         *)
(* registered again, and what a library registered goes when the library   *)
(* is destroyed or, before torch 2.5, when nothing refers to it any more.  *)
(* No call records: setup_flaggems_logging returns at once.                *)
(***************************************************************************)
EXTENDS Naturals, Sequences, SequencesExt

CONSTANTS
  Contexts,  \* use_gems objects, each entered once
  Enables,   \* calls of enable
  config,    \* the table of enable: a sequence of [key, fn]
  Excluded,  \* keys with a false condition or patched in C++
  aten_lib,  \* the library of the module
  None,      \* no library; also the registrar's before the first call
  Deleted    \* the registrar's when its name is deleted

Callers == Contexts \cup Enables
Keys == {config[i].key : i \in DOMAIN config}
Functions == {config[i].fn : i \in DOMAIN config}

ASSUME CallersAssumption == Contexts \cap Enables = {}
ASSUME LibrariesAssumption ==
  /\ {aten_lib, None, Deleted} \cap Contexts = {}
  /\ aten_lib # None /\ aten_lib # Deleted /\ None # Deleted

VARIABLES
  has_destroy,  \* torch.__version__ >= "2.5"
  owner,        \* owner[k]: the library that registered key k, or None
  registrar,    \* current_work_registrar: lib and all_ops of a Register
  pc,           \* pc[c]: where the caller is
  unused,       \* unused[c]: function names excluded, by the caller or the vendor
  todo,         \* todo[c]: the entries of config still to be registered
  all_ops,      \* all_ops[c]: the list of its Register
  overlap,      \* overlap[c]: another context was open while c was (history)
  name_error    \* name_error[c]: leaving c raised NameError

vars == <<has_destroy, owner, registrar, pc, unused, todo, all_ops, overlap,
          name_error>>

lib(c) == IF c \in Contexts THEN c ELSE aten_lib
IsRegister(r) == r.lib \notin {None, Deleted}

Init ==
  /\ has_destroy \in BOOLEAN
  /\ owner = [k \in Keys |-> None]
  /\ registrar = [lib |-> None, all_ops |-> <<>>]
  /\ pc = [c \in Callers |-> "new"]
  /\ unused = [c \in Callers |-> {}]
  /\ todo = [c \in Callers |-> {}]
  /\ all_ops = [c \in Callers |-> <<>>]
  /\ overlap = [c \in Contexts |-> FALSE]
  /\ name_error = [c \in Contexts |-> FALSE]

Goto(c, from, to) == pc[c] = from /\ pc' = [pc EXCEPT ![c] = to]

\* Register.config_filter: by the name of the function or by the key.
config_filter(names) ==
  {i \in DOMAIN config :
     config[i].fn \notin names /\ config[i].key \notin Excluded}

\* What stays registered when the registrar is reg and context gone, or
\* nobody, goes: the objects that are alive and the registrar keep their
\* libraries.
Collected(reg, gone) ==
  LET alive == {c \in Contexts \ {gone} :
                  pc[c] \in {"register", "entered", "raised"}}
      kept == {aten_lib} \cup alive
                \cup IF IsRegister(reg) THEN {reg.lib} ELSE {}
  IN  [k \in Keys |-> IF owner[k] \in kept THEN owner[k] ELSE None]

-----------------------------------------------------------------------------
Enable(c) ==
  /\ Goto(c, "new", "register")
  /\ \E names \in SUBSET Functions :
       /\ unused' = [unused EXCEPT ![c] = names]
       /\ todo' = [todo EXCEPT ![c] = config_filter(names)]
  /\ UNCHANGED <<has_destroy, owner, registrar, all_ops, overlap, name_error>>

\* The next entry: register_impl, which is all_ops.append and lib.impl.
register_impl(c) ==
  /\ pc[c] = "register"
  /\ \E i \in todo[c] :
       LET key == config[i].key IN
       /\ \A j \in todo[c] : i <= j
       /\ owner[key] = None
       /\ owner' = [owner EXCEPT ![key] = lib(c)]
       /\ todo' = [todo EXCEPT ![c] = @ \ {i}]
       /\ all_ops' = [all_ops EXCEPT ![c] = Append(@, key)]
  /\ UNCHANGED <<has_destroy, registrar, pc, unused, overlap, name_error>>

\* What if an operator that cannot be registered were passed over?
register_passed_over(c) ==
  /\ pc[c] = "register"
  /\ \E i \in todo[c] :
       LET key == config[i].key IN
       /\ \A j \in todo[c] : i <= j
       /\ owner[key] # None
       /\ todo' = [todo EXCEPT ![c] = @ \ {i}]
       /\ all_ops' = [all_ops EXCEPT ![c] = Append(@, key)]
  /\ UNCHANGED <<has_destroy, owner, registrar, pc, unused, overlap,
                 name_error>>

\* What if a failed call deleted the registrar, as a context that is left?
register_error_deleting(c) ==
  /\ Goto(c, "register", "raised")
  /\ \E i \in todo[c] : /\ \A j \in todo[c] : i <= j
                        /\ owner[config[i].key] # None
  /\ registrar' = [lib |-> Deleted, all_ops |-> <<>>]
  /\ owner' = Collected(registrar', None)
  /\ UNCHANGED <<has_destroy, unused, todo, all_ops, overlap, name_error>>

\* lib.impl raises, and for_each turns it into register_error.  The global
\* registrar is what it was; what the call has registered stays.
register_error(c) ==
  /\ Goto(c, "register", "raised")
  /\ \E i \in todo[c] : /\ \A j \in todo[c] : i <= j
                        /\ owner[config[i].key] # None
  /\ UNCHANGED <<has_destroy, owner, registrar, unused, todo, all_ops,
                 overlap, name_error>>

Open(c) == pc[c] \in {"entered", "leaving"}

\* current_work_registrar = registrar(...)
Bind(c) ==
  /\ Goto(c, "register", "entered")
  /\ todo[c] = {}
  /\ LET reg == [lib |-> lib(c), all_ops |-> all_ops[c]] IN
       /\ registrar' = reg
       /\ owner' = Collected(reg, None)
  /\ overlap' = [d \in Contexts |->
       \/ overlap[d]
       \/ d = c /\ \E e \in Contexts \ {c} : Open(e)
       \/ d # c /\ c \in Contexts /\ Open(d)]
  /\ UNCHANGED <<has_destroy, unused, todo, all_ops, name_error>>

\* __exit__: self.lib._destroy(), del self.lib
Destroy(c) ==
  /\ c \in Contexts
  /\ Goto(c, "entered", "leaving")
  /\ owner' = IF has_destroy
                THEN [k \in Keys |-> IF owner[k] = c THEN None ELSE owner[k]]
                ELSE Collected(registrar, c)
  /\ UNCHANGED <<has_destroy, registrar, unused, todo, all_ops, overlap,
                 name_error>>

\* What if __exit__ left the registrar alone?
DelNothing(c) ==
  /\ Goto(c, "leaving", "exited")
  /\ owner' = Collected(registrar, c)
  /\ UNCHANGED <<has_destroy, registrar, unused, todo, all_ops, overlap,
                 name_error>>

\* __exit__: del current_work_registrar
DelRegistrar(c) ==
  /\ Goto(c, "leaving", "exited")
  /\ registrar' = [lib |-> Deleted, all_ops |-> <<>>]
  /\ owner' = Collected(registrar', None)
  /\ name_error' = [name_error EXCEPT ![c] = registrar.lib = Deleted]
  /\ UNCHANGED <<has_destroy, unused, todo, all_ops, overlap>>

\* The exception of __enter__ is dropped, and with it the context.
Dropped(c) ==
  /\ c \in Contexts
  /\ Goto(c, "raised", "exited")
  /\ owner' = Collected(registrar, c)
  /\ UNCHANGED <<has_destroy, registrar, unused, todo, all_ops, overlap,
                 name_error>>

Terminated ==
  /\ \A c \in Contexts : pc[c] = "exited"
  /\ \A c \in Enables : pc[c] \in {"entered", "raised"}
  /\ UNCHANGED vars

Next ==
  \/ \E c \in Callers :
       \/ Enable(c) \/ register_impl(c) \/ register_error(c) \/ Bind(c)
       \/ Destroy(c) \/ Dropped(c)
  \/ \E c \in Contexts : DelRegistrar(c)
  \/ Terminated

Spec == Init /\ [][Next]_vars
-----------------------------------------------------------------------------
(***************************************************************************)
(* Properties                                                              *)
(***************************************************************************)
\* Inside a context every operator it did not exclude is its own, outside
\* none is, in whatever order contexts overlap, are left or fail to start,
\* and on either side of torch 2.5.
Scoped ==
  \A c \in Contexts :
    /\ pc[c] = "entered" =>
         \A i \in config_filter(unused[c]) : owner[config[i].key] = c
    /\ pc[c] = "exited" => \A k \in Keys : owner[k] # c

\* When all_ops() answers, what it lists is on, registered by the library of
\* the call it comes from; only between the two deletions of __exit__ it may
\* list what has just gone.
AllOpsOn ==
  IsRegister(registrar) =>
    \/ \E c \in Contexts : registrar.lib = c /\ pc[c] = "leaving"
    \/ \A k \in ToSet(registrar.all_ops) : owner[k] = registrar.lib

\* Leaving a context raises NameError only when another one was open at the
\* same time: never for the contexts of one thread that follow each other,
\* whatever calls of enable fail or succeed around them.
NameErrorOverlap == \A c \in Contexts : name_error[c] => overlap[c]
=============================================================================
