----------------------------- MODULE HostProofs ------------------------------
(***************************************************************************)
(* Theorems about the two global objects that host threads share without a *)
(* lock: the registrar of UseGems and the Philox generator.                *)
(***************************************************************************)
EXTENDS UseGems, Philox, TLAPS

-----------------------------------------------------------------------------
(***************************************************************************)
(* UseGems: inside a context its operators are on, outside none is, and    *)
(* what all_ops() lists is on: for any table, any number of contexts and   *)
(* calls of enable, and any order of their steps.                          *)
(*                                                                         *)
(* The invariant follows the registrations of a call: a key that a living  *)
(* call has registered is its own (Owned), what it has still to register   *)
(* is all that is missing from its list (Listed), and the registrar, while *)
(* there is one, is that of a call which has not been left (Registrar).    *)
(***************************************************************************)
PCs == {"new", "register", "raised", "entered", "leaving", "exited"}

Libraries == Contexts \cup {aten_lib, None}

GemsTypeOK ==
  /\ has_destroy \in BOOLEAN
  /\ owner \in [Keys -> Libraries]
  /\ pc \in [Callers -> PCs]
  /\ \A c \in Enables : pc[c] \notin {"leaving", "exited"}
  /\ unused \in [Callers -> SUBSET Functions]
  /\ todo \in [Callers -> SUBSET DOMAIN config]
  /\ all_ops \in [Callers -> Seq(Keys)]
  /\ overlap \in [Contexts -> BOOLEAN]
  /\ name_error \in [Contexts -> BOOLEAN]

\* A call that registers, or is entered, owns what it has listed.
Owned ==
  \A c \in Callers :
    /\ pc[c] = "new" => all_ops[c] = <<>>
    /\ pc[c] \in {"register", "entered"} =>
         \A k \in ToSet(all_ops[c]) : owner[k] = lib(c)

\* What it has not listed of the filtered table is still to do.
Listed ==
  \A c \in Callers : pc[c] \in {"register", "entered"} =>
    \A i \in config_filter(unused[c]) \ todo[c] :
      config[i].key \in ToSet(all_ops[c])

Complete == \A c \in Callers : pc[c] = "entered" => todo[c] = {}

\* A context has nothing before it is entered and after it is left.
NothingLeft ==
  \A c \in Contexts : pc[c] \in {"new", "exited"} =>
    \A k \in Keys : owner[k] # c

\* A registrar is of a call that is over and of a context not yet left.
Registrar ==
  IsRegister(registrar) =>
    \E c \in Callers : /\ registrar = [lib |-> lib(c), all_ops |-> all_ops[c]]
                       /\ pc[c] \in {"entered", "leaving"}

\* Two contexts open at the same time know of each other; one that is open
\* alone has a registrar to delete.
Overlap ==
  /\ \A c, d \in Contexts : c # d /\ Open(c) /\ Open(d) => overlap[c]
  /\ \A c \in Contexts : Open(c) /\ ~overlap[c] => registrar.lib # Deleted

GemsInv ==
  /\ GemsTypeOK /\ Owned /\ Listed /\ Complete /\ NothingLeft /\ Registrar
  /\ Overlap /\ NameErrorOverlap
-----------------------------------------------------------------------------
\* What a list contains after one more key.
LEMMA ToSetAppend ==
  ASSUME NEW S, NEW s \in Seq(S), NEW k \in S
  PROVE  ToSet(Append(s, k)) = ToSet(s) \cup {k}
<1>1. DOMAIN s = 1 .. Len(s) /\ DOMAIN Append(s, k) = 1 .. Len(s) + 1
  OBVIOUS
<1>2. Append(s, k)[Len(s) + 1] = k /\ \A i \in 1 .. Len(s) : Append(s, k)[i] =
        s[i]
  OBVIOUS
<1>3. \A i \in 1 .. Len(s) + 1 : i \in 1 .. Len(s) \/ i = Len(s) + 1
  OBVIOUS
<1>4. Len(s) + 1 \in 1 .. Len(s) + 1 /\ 1 .. Len(s) \subseteq 1 .. Len(s) + 1
  OBVIOUS
<1>. QED BY <1>1, <1>2, <1>3, <1>4, Zenon DEF ToSet

\* What a sequence contains is of the type of its elements.
LEMMA ToSetType == ASSUME NEW S, NEW s \in Seq(S) PROVE ToSet(s) \subseteq S
BY DEF ToSet

\* The empty sequence contains nothing.
LEMMA ToSetEmpty == ToSet(<<>>) = {}
BY DEF ToSet

\* Only what the collected libraries had registered changes.
LEMMA CollectedOwners ==
  ASSUME GemsTypeOK, NEW reg, NEW gone
  PROVE  /\ Collected(reg, gone) \in [Keys -> Libraries]
         /\ \A k \in Keys :
              /\ Collected(reg, gone)[k] \in {owner[k], None}
              /\ owner[k] \in Contexts \ {gone}
                   /\ pc[owner[k]] \in {"register", "entered", "raised"}
                   => Collected(reg, gone)[k] = owner[k]
              /\ owner[k] = aten_lib => Collected(reg, gone)[k] = owner[k]
              /\ IsRegister(reg) /\ owner[k] = reg.lib
                   => Collected(reg, gone)[k] = owner[k]
BY DEF Collected, GemsTypeOK, Libraries

\* A living call keeps what it has listed when something is collected.
LEMMA OwnedStays ==
  ASSUME GemsTypeOK, Owned, NEW reg, NEW d \in Callers, NEW gone,
         d \in Contexts => d # gone, pc[d] \in {"register", "entered"},
         NEW k \in ToSet(all_ops[d])
  PROVE  Collected(reg, gone)[k] = lib(d)
<1>1. k \in Keys
  BY ToSetType DEF GemsTypeOK
<1>2. owner[k] = lib(d)
  BY DEF Owned
<1>. QED BY <1>1, <1>2, CollectedOwners DEF lib, Callers

\* Every step keeps the types.
LEMMA TypeStep == GemsInv /\ [Next]_vars => GemsTypeOK'
<1> SUFFICES ASSUME GemsInv, [Next]_vars PROVE GemsTypeOK'
  OBVIOUS
<1> USE CallersAssumption, LibrariesAssumption DEF GemsInv, GemsTypeOK, PCs,
        Libraries, Callers, lib
<1>1. ASSUME NEW c \in Callers, Enable(c) PROVE GemsTypeOK'
  <2>1. PICK names \in SUBSET Functions :
          /\ unused' = [unused EXCEPT ![c] = names]
          /\ todo' = [todo EXCEPT ![c] = config_filter(names)]
    BY <1>1 DEF Enable
  <2>2. config_filter(names) \subseteq DOMAIN config
    BY DEF config_filter
  <2>. QED BY <1>1, <2>1, <2>2 DEF Enable, Goto
<1>2. ASSUME NEW c \in Callers, register_impl(c) PROVE GemsTypeOK'
  <2>1. PICK i \in todo[c] :
          /\ todo' = [todo EXCEPT ![c] = @ \ {i}]
          /\ owner' = [owner EXCEPT ![config[i].key] = lib(c)]
          /\ all_ops' = [all_ops EXCEPT ![c] = Append(@, config[i].key)]
    BY <1>2 DEF register_impl
  <2>2. config[i].key \in Keys
    BY DEF Keys
  <2>3. UNCHANGED <<has_destroy, pc, unused, overlap, name_error>>
    BY <1>2 DEF register_impl
  <2>. QED BY <2>1, <2>2, <2>3
<1>3. ASSUME NEW c \in Callers, register_error(c) PROVE GemsTypeOK'
  BY <1>3 DEF register_error, Goto
<1>4. ASSUME NEW c \in Callers, Bind(c) PROVE GemsTypeOK'
  BY <1>4 DEF Bind, Goto, Collected
<1>5. ASSUME NEW c \in Callers, Destroy(c) PROVE GemsTypeOK'
  BY <1>5 DEF Destroy, Goto, Collected
<1>6. ASSUME NEW c \in Callers, Dropped(c) PROVE GemsTypeOK'
  BY <1>6 DEF Dropped, Goto, Collected
<1>7. ASSUME NEW c \in Contexts, DelRegistrar(c) PROVE GemsTypeOK'
  BY <1>7 DEF DelRegistrar, Goto, Collected
<1>8. CASE UNCHANGED vars
  BY <1>8 DEF vars
<1>. QED BY <1>1, <1>2, <1>3, <1>4, <1>5, <1>6, <1>7, <1>8 DEF Next, Terminated

\* Nobody registers a key that is taken, and no living library is collected.
LEMMA OwnedStep == GemsInv /\ [Next]_vars => Owned'
<1> SUFFICES ASSUME GemsInv, [Next]_vars PROVE Owned'
  OBVIOUS
<1> USE CallersAssumption, LibrariesAssumption DEF GemsInv, GemsTypeOK, PCs,
        Libraries, Callers, lib, Owned
<1>1. ASSUME NEW c \in Callers, Enable(c) PROVE Owned'
  BY <1>1, ToSetEmpty DEF Enable, Goto
<1>2. ASSUME NEW c \in Callers, register_impl(c) PROVE Owned'
  <2>1. PICK i \in todo[c] :
          /\ owner[config[i].key] = None
          /\ owner' = [owner EXCEPT ![config[i].key] = lib(c)]
          /\ all_ops' = [all_ops EXCEPT ![c] = Append(@, config[i].key)]
    BY <1>2 DEF register_impl
  <2>2. pc[c] = "register" /\ pc' = pc
    BY <1>2 DEF register_impl
  <2>3. config[i].key \in Keys
    BY DEF Keys
  <2>4. \A k \in Keys : owner'[k] = IF k = config[i].key THEN lib(c) ELSE
          owner[k]
    BY <2>1, <2>3
  <2>5. ToSet(all_ops'[c]) = ToSet(all_ops[c]) \cup {config[i].key}
    BY <2>1, <2>3, ToSetAppend
  <2>6. \A d \in Callers \ {c} : all_ops'[d] = all_ops[d]
    BY <2>1
  <2>7. ASSUME NEW d \in Callers, pc[d] \in {"register", "entered"},
               NEW k \in ToSet(all_ops[d])
        PROVE  owner'[k] = lib(d)
    <3>1. owner[k] = lib(d) /\ k \in Keys
      BY <2>7, ToSetType
    <3>2. lib(d) # None
      OBVIOUS
    <3>. QED BY <2>1, <2>4, <3>1, <3>2
  <2>8. ASSUME NEW d \in Callers, pc[d] \in {"register", "entered"},
               NEW k \in ToSet(all_ops'[d])
        PROVE  owner'[k] = lib(d)
    <3>1. CASE k \in ToSet(all_ops[d])
      BY <2>7, <2>8, <3>1
    <3>2. CASE k \notin ToSet(all_ops[d])
      <4>1. d = c /\ k = config[i].key
        BY <2>5, <2>6, <2>8, <3>2
      <4>. QED BY <2>3, <2>4, <4>1
    <3>. QED BY <3>1, <3>2
  <2>9. \A d \in Callers : pc[d] = "new" => all_ops'[d] = <<>>
    BY <2>2, <2>6
  <2>. QED BY <2>2, <2>8, <2>9
<1>3. ASSUME NEW c \in Callers, register_error(c) PROVE Owned'
  BY <1>3 DEF register_error, Goto
<1>4. ASSUME NEW c \in Callers, Bind(c) PROVE Owned'
  <2>1. owner' = Collected(registrar', None) /\ all_ops' = all_ops
    BY <1>4 DEF Bind
  <2>2. \A e \in Callers : pc'[e] \in {"register", "entered"} =>
          pc[e] \in {"register", "entered"} /\ (e \in Contexts => e # None)
    BY <1>4 DEF Bind, Goto
  <2>3. \A e \in Callers : pc'[e] = "new" => pc[e] = "new"
    BY <1>4 DEF Bind, Goto
  <2>4. ASSUME NEW e \in Callers, pc'[e] \in {"register", "entered"},
               NEW k \in ToSet(all_ops[e])
        PROVE  Collected(registrar', None)[k] = lib(e)
    <3>1. pc[e] \in {"register", "entered"} /\ (e \in Contexts => e # None)
      BY <2>2, <2>4
    <3> HIDE DEF GemsTypeOK, Owned, lib, Callers
    <3>. QED BY <3>1, OwnedStays
  <2>. QED BY <2>1, <2>3, <2>4
<1>5. ASSUME NEW c \in Callers, Destroy(c) PROVE Owned'
  <2>1. CASE has_destroy
    BY <1>5, <2>1, ToSetType DEF Destroy, Goto
  <2>2. CASE ~has_destroy
    <3>1. owner' = Collected(registrar, c) /\ all_ops' = all_ops
      BY <1>5, <2>2 DEF Destroy
    <3>2. \A e \in Callers : pc'[e] \in {"register", "entered"} =>
            pc[e] \in {"register", "entered"} /\ e # c
      BY <1>5 DEF Destroy, Goto
    <3>3. \A e \in Callers : pc'[e] = "new" => pc[e] = "new"
      BY <1>5 DEF Destroy, Goto
    <3>4. ASSUME NEW e \in Callers, pc'[e] \in {"register", "entered"},
                 NEW k \in ToSet(all_ops[e])
          PROVE  Collected(registrar, c)[k] = lib(e)
      <4>1. pc[e] \in {"register", "entered"} /\ e # c
        BY <3>2, <3>4
      <4> HIDE DEF GemsTypeOK, Owned, lib, Callers
      <4>. QED BY <4>1, OwnedStays
    <3>. QED BY <3>1, <3>3, <3>4
  <2>. QED BY <2>1, <2>2
<1>6. ASSUME NEW c \in Callers, Dropped(c) PROVE Owned'
  <2>1. owner' = Collected(registrar, c) /\ all_ops' = all_ops
    BY <1>6 DEF Dropped
  <2>2. \A e \in Callers : pc'[e] \in {"register", "entered"} =>
          pc[e] \in {"register", "entered"} /\ (e \in Contexts => e # c)
    BY <1>6 DEF Dropped, Goto
  <2>3. \A e \in Callers : pc'[e] = "new" => pc[e] = "new"
    BY <1>6 DEF Dropped, Goto
  <2>4. ASSUME NEW e \in Callers, pc'[e] \in {"register", "entered"},
               NEW k \in ToSet(all_ops[e])
        PROVE  Collected(registrar, c)[k] = lib(e)
    <3>1. pc[e] \in {"register", "entered"} /\ (e \in Contexts => e # c)
      BY <2>2, <2>4
    <3> HIDE DEF GemsTypeOK, Owned, lib, Callers
    <3>. QED BY <3>1, OwnedStays
  <2>. QED BY <2>1, <2>3, <2>4
<1>7. ASSUME NEW c \in Contexts, DelRegistrar(c) PROVE Owned'
  <2>1. owner' = Collected(registrar', None) /\ all_ops' = all_ops
    BY <1>7 DEF DelRegistrar
  <2>2. \A e \in Callers : pc'[e] \in {"register", "entered"} =>
          pc[e] \in {"register", "entered"} /\ (e \in Contexts => e # None)
    BY <1>7 DEF DelRegistrar, Goto
  <2>3. \A e \in Callers : pc'[e] = "new" => pc[e] = "new"
    BY <1>7 DEF DelRegistrar, Goto
  <2>4. ASSUME NEW e \in Callers, pc'[e] \in {"register", "entered"},
               NEW k \in ToSet(all_ops[e])
        PROVE  Collected(registrar', None)[k] = lib(e)
    <3>1. pc[e] \in {"register", "entered"} /\ (e \in Contexts => e # None)
      BY <2>2, <2>4
    <3> HIDE DEF GemsTypeOK, Owned, lib, Callers
    <3>. QED BY <3>1, OwnedStays
  <2>. QED BY <2>1, <2>3, <2>4
<1>8. CASE UNCHANGED vars
  BY <1>8 DEF vars
<1>. QED BY <1>1, <1>2, <1>3, <1>4, <1>5, <1>6, <1>7, <1>8 DEF Next, Terminated

\* An entry leaves the rest to do only for the list.
LEMMA ListedStep == GemsInv /\ [Next]_vars => Listed'
<1> SUFFICES ASSUME GemsInv, [Next]_vars PROVE Listed'
  OBVIOUS
<1> USE CallersAssumption, LibrariesAssumption DEF GemsInv, GemsTypeOK, PCs,
        Libraries, Callers, lib, Listed, config_filter
<1>1. ASSUME NEW c \in Callers, Enable(c) PROVE Listed'
  <2>1. PICK names \in SUBSET Functions :
          /\ unused' = [unused EXCEPT ![c] = names]
          /\ todo' = [todo EXCEPT ![c] = config_filter(names)]
    BY <1>1 DEF Enable
  <2>2. unused'[c] = names /\ todo'[c] = config_filter(names)
    BY <2>1
  <2>3. \A d \in Callers \ {c} :
          pc'[d] = pc[d] /\ unused'[d] = unused[d] /\ todo'[d] = todo[d]
    BY <1>1, <2>1 DEF Enable, Goto
  <2>. QED BY <1>1, <2>2, <2>3 DEF Enable
<1>2. ASSUME NEW c \in Callers, register_impl(c) PROVE Listed'
  <2>1. PICK i \in todo[c] :
          /\ todo' = [todo EXCEPT ![c] = @ \ {i}]
          /\ all_ops' = [all_ops EXCEPT ![c] = Append(@, config[i].key)]
    BY <1>2 DEF register_impl
  <2>2. pc' = pc /\ unused' = unused
    BY <1>2 DEF register_impl
  <2>3. ToSet(all_ops'[c]) = ToSet(all_ops[c]) \cup {config[i].key}
    <3>1. config[i].key \in Keys
      BY DEF Keys
    <3>. QED BY <2>1, <3>1, ToSetAppend
  <2>4. todo'[c] = todo[c] \ {i} /\ \A d \in Callers \ {c} : todo'[d] = todo[d]
          /\ all_ops'[d] = all_ops[d]
    BY <2>1
  <2>. QED BY <2>2, <2>3, <2>4
<1>3. ASSUME NEW c \in Callers, register_error(c) PROVE Listed'
  BY <1>3 DEF register_error, Goto
<1>4. ASSUME NEW c \in Callers, Bind(c) PROVE Listed'
  BY <1>4 DEF Bind, Goto, Collected
<1>5. ASSUME NEW c \in Callers, Destroy(c) PROVE Listed'
  BY <1>5 DEF Destroy, Goto, Collected
<1>6. ASSUME NEW c \in Callers, Dropped(c) PROVE Listed'
  BY <1>6 DEF Dropped, Goto, Collected
<1>7. ASSUME NEW c \in Contexts, DelRegistrar(c) PROVE Listed'
  BY <1>7 DEF DelRegistrar, Goto, Collected
<1>8. CASE UNCHANGED vars
  BY <1>8 DEF vars
<1>. QED BY <1>1, <1>2, <1>3, <1>4, <1>5, <1>6, <1>7, <1>8 DEF Next, Terminated

\* A call is entered when nothing is left to do.
LEMMA CompleteStep == GemsInv /\ [Next]_vars => Complete'
<1> SUFFICES ASSUME GemsInv, [Next]_vars PROVE Complete'
  OBVIOUS
<1> USE CallersAssumption, LibrariesAssumption DEF GemsInv, GemsTypeOK, PCs,
        Libraries, Callers, lib, Complete
<1>1. ASSUME NEW c \in Callers, Enable(c) PROVE Complete'
  BY <1>1 DEF Enable, Goto
<1>2. ASSUME NEW c \in Callers, register_impl(c) PROVE Complete'
  BY <1>2 DEF register_impl
<1>3. ASSUME NEW c \in Callers, register_error(c) PROVE Complete'
  BY <1>3 DEF register_error, Goto
<1>4. ASSUME NEW c \in Callers, Bind(c) PROVE Complete'
  BY <1>4 DEF Bind, Goto, Collected
<1>5. ASSUME NEW c \in Callers, Destroy(c) PROVE Complete'
  BY <1>5 DEF Destroy, Goto, Collected
<1>6. ASSUME NEW c \in Callers, Dropped(c) PROVE Complete'
  BY <1>6 DEF Dropped, Goto, Collected
<1>7. ASSUME NEW c \in Contexts, DelRegistrar(c) PROVE Complete'
  BY <1>7 DEF DelRegistrar, Goto, Collected
<1>8. CASE UNCHANGED vars
  BY <1>8 DEF vars
<1>. QED BY <1>1, <1>2, <1>3, <1>4, <1>5, <1>6, <1>7, <1>8 DEF Next, Terminated

\* The two deletions, or the collection, take all a context has registered.
LEMMA NothingStep == GemsInv /\ [Next]_vars => NothingLeft'
<1> SUFFICES ASSUME GemsInv, [Next]_vars PROVE NothingLeft'
  OBVIOUS
<1> USE CallersAssumption, LibrariesAssumption DEF GemsInv, GemsTypeOK, PCs,
        Libraries, Callers, lib, NothingLeft, Registrar, IsRegister
<1>1. ASSUME NEW c \in Callers, Enable(c) PROVE NothingLeft'
  BY <1>1 DEF Enable, Goto
<1>2. ASSUME NEW c \in Callers, register_impl(c) PROVE NothingLeft'
  BY <1>2 DEF register_impl
<1>3. ASSUME NEW c \in Callers, register_error(c) PROVE NothingLeft'
  BY <1>3 DEF register_error, Goto
<1>4. ASSUME NEW c \in Callers, Bind(c) PROVE NothingLeft'
  BY <1>4 DEF Bind, Goto, Collected
<1>5. ASSUME NEW c \in Callers, Destroy(c) PROVE NothingLeft'
  BY <1>5 DEF Destroy, Goto, Collected
<1>6. ASSUME NEW c \in Callers, Dropped(c) PROVE NothingLeft'
  BY <1>6 DEF Dropped, Goto, Collected
<1>7. ASSUME NEW c \in Contexts, DelRegistrar(c) PROVE NothingLeft'
  BY <1>7 DEF DelRegistrar, Goto, Collected
<1>8. CASE UNCHANGED vars
  BY <1>8 DEF vars
<1>. QED BY <1>1, <1>2, <1>3, <1>4, <1>5, <1>6, <1>7, <1>8 DEF Next, Terminated

\* Only the two assignments change the registrar; a list is fixed once entered.
LEMMA RegistrarStep == GemsInv /\ [Next]_vars => Registrar'
<1> SUFFICES ASSUME GemsInv, [Next]_vars PROVE Registrar'
  OBVIOUS
<1> USE CallersAssumption, LibrariesAssumption DEF GemsInv, GemsTypeOK, PCs,
        Libraries, Callers, lib, Registrar, IsRegister
<1>1. ASSUME NEW c \in Callers, Enable(c) PROVE Registrar'
  BY <1>1 DEF Enable, Goto
<1>2. ASSUME NEW c \in Callers, register_impl(c) PROVE Registrar'
  BY <1>2 DEF register_impl
<1>3. ASSUME NEW c \in Callers, register_error(c) PROVE Registrar'
  BY <1>3 DEF register_error, Goto
<1>4. ASSUME NEW c \in Callers, Bind(c) PROVE Registrar'
  BY <1>4 DEF Bind, Goto, Collected
<1>5. ASSUME NEW c \in Callers, Destroy(c) PROVE Registrar'
  BY <1>5 DEF Destroy, Goto, Collected
<1>6. ASSUME NEW c \in Callers, Dropped(c) PROVE Registrar'
  BY <1>6 DEF Dropped, Goto, Collected
<1>7. ASSUME NEW c \in Contexts, DelRegistrar(c) PROVE Registrar'
  BY <1>7 DEF DelRegistrar, Goto, Collected
<1>8. CASE UNCHANGED vars
  BY <1>8 DEF vars
<1>. QED BY <1>1, <1>2, <1>3, <1>4, <1>5, <1>6, <1>7, <1>8 DEF Next, Terminated

\* Bind tells all open contexts of each other, and brings a registrar.
LEMMA OverlapStep == GemsInv /\ [Next]_vars => Overlap'
<1> SUFFICES ASSUME GemsInv, [Next]_vars PROVE Overlap'
  OBVIOUS
<1> USE CallersAssumption, LibrariesAssumption DEF GemsInv, GemsTypeOK, PCs,
        Libraries, Callers, lib, Overlap, Open
<1>1. ASSUME NEW c \in Callers, Enable(c) PROVE Overlap'
  BY <1>1 DEF Enable, Goto
<1>2. ASSUME NEW c \in Callers, register_impl(c) PROVE Overlap'
  BY <1>2 DEF register_impl
<1>3. ASSUME NEW c \in Callers, register_error(c) PROVE Overlap'
  BY <1>3 DEF register_error, Goto
<1>4. ASSUME NEW c \in Callers, Bind(c) PROVE Overlap'
  BY <1>4 DEF Bind, Goto, Collected
<1>5. ASSUME NEW c \in Callers, Destroy(c) PROVE Overlap'
  BY <1>5 DEF Destroy, Goto, Collected
<1>6. ASSUME NEW c \in Callers, Dropped(c) PROVE Overlap'
  BY <1>6 DEF Dropped, Goto, Collected
<1>7. ASSUME NEW c \in Contexts, DelRegistrar(c) PROVE Overlap'
  BY <1>7 DEF DelRegistrar, Goto, Collected
<1>8. CASE UNCHANGED vars
  BY <1>8 DEF vars
<1>. QED BY <1>1, <1>2, <1>3, <1>4, <1>5, <1>6, <1>7, <1>8 DEF Next, Terminated

\* The name is missing only if another context has deleted it.
LEMMA ErrorStep == GemsInv /\ [Next]_vars => NameErrorOverlap'
<1> SUFFICES ASSUME GemsInv, [Next]_vars PROVE NameErrorOverlap'
  OBVIOUS
<1> USE CallersAssumption, LibrariesAssumption DEF GemsInv, GemsTypeOK, PCs,
        Libraries, Callers, lib, NameErrorOverlap, Overlap, Open
<1>1. ASSUME NEW c \in Callers, Enable(c) PROVE NameErrorOverlap'
  BY <1>1 DEF Enable, Goto
<1>2. ASSUME NEW c \in Callers, register_impl(c) PROVE NameErrorOverlap'
  BY <1>2 DEF register_impl
<1>3. ASSUME NEW c \in Callers, register_error(c) PROVE NameErrorOverlap'
  BY <1>3 DEF register_error, Goto
<1>4. ASSUME NEW c \in Callers, Bind(c) PROVE NameErrorOverlap'
  BY <1>4 DEF Bind, Goto, Collected
<1>5. ASSUME NEW c \in Callers, Destroy(c) PROVE NameErrorOverlap'
  BY <1>5 DEF Destroy, Goto, Collected
<1>6. ASSUME NEW c \in Callers, Dropped(c) PROVE NameErrorOverlap'
  BY <1>6 DEF Dropped, Goto, Collected
<1>7. ASSUME NEW c \in Contexts, DelRegistrar(c) PROVE NameErrorOverlap'
  BY <1>7 DEF DelRegistrar, Goto, Collected
<1>8. CASE UNCHANGED vars
  BY <1>8 DEF vars
<1>. QED BY <1>1, <1>2, <1>3, <1>4, <1>5, <1>6, <1>7, <1>8 DEF Next, Terminated
-----------------------------------------------------------------------------
\* The invariant holds before anybody has called.
LEMMA InitInv == Init => GemsInv
<1> SUFFICES ASSUME Init PROVE GemsInv
  OBVIOUS
<1> USE CallersAssumption, LibrariesAssumption DEF Init
<1>1. GemsTypeOK
  BY DEF GemsTypeOK, PCs, Libraries, Callers
<1>2. Owned /\ Listed /\ Complete
  BY DEF Owned, Listed, Complete
<1>3. NothingLeft /\ Registrar
  BY DEF NothingLeft, Registrar, IsRegister
<1>4. Overlap /\ NameErrorOverlap
  BY DEF Overlap, NameErrorOverlap, Open, Callers
<1>. QED BY <1>1, <1>2, <1>3, <1>4 DEF GemsInv

\* What enable, use_gems.__enter__ and __exit__ keep between them.
THEOREM GemsInvariant == Spec => []GemsInv
<1>1. GemsInv /\ [Next]_vars => GemsInv'
  BY TypeStep, OwnedStep, ListedStep, CompleteStep, NothingStep,
     RegistrarStep, OverlapStep, ErrorStep DEF GemsInv
<1>. QED BY InitInv, <1>1, PTL DEF Spec

\* Between __enter__ and __exit__ of use_gems every operator that was not
\* excluded is the context's own; after __exit__ none is.
THEOREM ContextsScoped == Spec => []Scoped
<1>1. GemsInv => Scoped
  BY DEF GemsInv, Scoped, Owned, Listed, Complete, NothingLeft, lib, Callers
<1>. QED BY GemsInvariant, <1>1, PTL

\* What all_ops() lists is registered, but for the moment between the two
\* deletions of __exit__.
THEOREM ListedAreOn == Spec => []AllOpsOn
<1>1. GemsInv => AllOpsOn
  <2> SUFFICES ASSUME GemsInv, IsRegister(registrar) PROVE AllOpsOn
    BY DEF AllOpsOn
  <2>1. PICK c \in Callers :
          /\ registrar = [lib |-> lib(c), all_ops |-> all_ops[c]]
          /\ pc[c] \in {"entered", "leaving"}
    BY DEF GemsInv, Registrar
  <2>2. CASE pc[c] = "entered"
    BY <2>1, <2>2 DEF GemsInv, Owned, AllOpsOn
  <2>3. CASE pc[c] = "leaving"
    BY <2>1, <2>3 DEF GemsInv, GemsTypeOK, AllOpsOn, lib, Callers
  <2>. QED BY <2>1, <2>2, <2>3
<1>. QED BY GemsInvariant, <1>1, PTL

\* Only a context that overlaps another can raise NameError when it is left.
THEOREM NameErrorsOverlap == Spec => []NameErrorOverlap
BY GemsInvariant, PTL DEF GemsInv

-----------------------------------------------------------------------------
(***************************************************************************)
(* Philox: which offsets are drawn and which counters are used, for any    *)
(* number of threads, sizes and calls.                                     *)
(***************************************************************************)
\* What the update of the generator rests on, besides Restorable itself.
OffsetsOK ==
  /\ Restorable
  /\ N \in [Threads -> Nat]
  /\ copy \in [Threads -> Nat]

\* What is added to an offset is a multiple of four.
LEMMA RoundedByFour ==
  ASSUME NEW n \in Nat
  PROVE  /\ Rounded(increment(n)) \in Nat
         /\ Rounded(increment(n)) % 4 = 0
  <1> DEFINE inc == (n + 4 - 1) \div 4
  <1>1. inc \in Nat
    OBVIOUS
  <1>2. increment(n) = inc
    BY DEF increment, cdiv, UNROLL
  <1> HIDE DEF inc
  <1>3. (inc + 3) \div 4 \in Nat
    BY <1>1
  <1>4. ASSUME NEW q \in Nat PROVE q * 4 \in Nat /\ (q * 4) % 4 = 0
    OBVIOUS
  <1>5. QED
    BY <1>2, <1>3, <1>4 DEF Rounded

LEMMA InitRestorable == PhiloxInit => OffsetsOK
  BY PhiloxAssumption DEF PhiloxInit, OffsetsOK, Restorable, UNROLL

LEMMA StepRestorable == OffsetsOK /\ [PhiloxNext]_philox_vars => OffsetsOK'
  <1> USE PhiloxAssumption DEF OffsetsOK, Restorable
  <1> SUFFICES ASSUME OffsetsOK, [PhiloxNext]_philox_vars PROVE OffsetsOK'
    OBVIOUS
  <1>1. ASSUME NEW t \in Threads, NEW n \in Sizes, GetState(t, n) PROVE OffsetsOK'
    BY <1>1 DEF GetState
  <1>2. ASSUME NEW t \in Threads, SetState(t) PROVE OffsetsOK'
    <2> DEFINE inc == Rounded(increment(N[t]))
    <2>1. inc \in Nat /\ inc % 4 = 0
      BY RoundedByFour
    <2>2. state' = copy[t] + inc /\ copy[t] \in Nat /\ copy[t] % 4 = 0
      BY <1>2 DEF SetState
    <2> HIDE DEF inc
    <2>3. state' \in Nat /\ state' % 4 = 0
      BY <2>1, <2>2
    <2>4. N' = N /\ copy' = copy
      BY <1>2 DEF SetState
    <2>5. QED
      BY <2>3, <2>4
  <1>3. ASSUME NEW t \in Threads, Launch(t) PROVE OffsetsOK'
    BY <1>3 DEF Launch
  <1>4. ASSUME UNCHANGED philox_vars PROVE OffsetsOK'
    BY <1>4 DEF philox_vars
  <1>5. QED
    BY <1>1, <1>2, <1>3, <1>4 DEF PhiloxNext, AllDrawn

\* The offset handed out by philox_backend_seed_offset can always be given
\* back to set_philox_state, also when updates race.
THEOREM OffsetsRestorable == PhiloxSpec => []Restorable
  <1>1. OffsetsOK => Restorable
    BY DEF OffsetsOK
  <1>2. QED
    BY InitRestorable, StepRestorable, <1>1, PTL DEF PhiloxSpec
-----------------------------------------------------------------------------
(***************************************************************************)
(* Arithmetic                                                              *)
(***************************************************************************)
LEMMA DivMod ==
  ASSUME NEW a \in Nat, NEW b \in Nat \ {0}
  PROVE  /\ a = (a \div b) * b + (a % b)
         /\ a % b \in 0 .. b - 1
         /\ a \div b \in Nat
OBVIOUS

LEMMA DivUnique ==
  ASSUME NEW a \in Nat, NEW b \in Nat \ {0}, NEW q \in Int, NEW r \in 0 .. b - 1,
         a = q * b + r
  PROVE  a \div b = q /\ a % b = r
OBVIOUS

LEMMA TimesGrows ==
  ASSUME NEW a \in Int, NEW c \in Int, NEW b \in Nat, a < c
  PROVE  a * b + b <= c * b
OBVIOUS

\* The remainder of a sum is that of the remainder's.
LEMMA ModAdd ==
  ASSUME NEW a \in Nat, NEW i \in Nat, NEW w \in Nat \ {0}
  PROVE  ((a % w) + i) % w = (a + i) % w
<1> DEFINE r == a % w
           q == a \div w
           d == r + i
           s == d % w
           p == d \div w
           e == a + i
<1>1. a = q * w + r /\ r \in Nat /\ q \in Nat
  BY DivMod
<1>2. d \in Nat
  BY <1>1
<1>3. d = p * w + s /\ s \in 0 .. w - 1 /\ p \in Nat
  BY <1>2, DivMod
<1> HIDE DEF r, q, s, p
<1>4. (q + p) * w = q * w + p * w /\ q * w \in Nat /\ p * w \in Nat
  BY <1>1, <1>3
<1>5. e = (q + p) * w + s /\ e \in Nat /\ q + p \in Int
  BY <1>1, <1>3, <1>4
<1> HIDE DEF d, e
<1>6. e % w = s
  BY <1>3, <1>5, DivUnique
<1>. QED BY <1>6 DEF e, s, d, r

\* Two numbers within a window have different remainders.
LEMMA WindowMod ==
  ASSUME NEW x \in Nat, NEW y \in Nat, NEW w \in Nat \ {0}, NEW f \in Nat,
         f <= x, x < f + w, f <= y, y < f + w, x % w = y % w
  PROVE  x = y
<1> DEFINE p == x \div w
           q == y \div w
           r == x % w
<1>1. x = p * w + r /\ p \in Nat /\ r \in 0 .. w - 1
  BY DivMod
<1>2. y = q * w + r /\ q \in Nat
  BY DivMod
<1> HIDE DEF p, q, r
<1>3. p * w \in Nat /\ q * w \in Nat
  BY <1>1, <1>2
<1>4. ~(p < q)
  <2>1. p < q => p * w + w <= q * w
    BY <1>1, <1>2, TimesGrows
  <2>. QED BY <1>1, <1>2, <1>3, <2>1
<1>5. ~(q < p)
  <2>1. q < p => q * w + w <= p * w
    BY <1>1, <1>2, TimesGrows
  <2>. QED BY <1>1, <1>2, <1>3, <2>1
<1>6. p = q
  BY <1>1, <1>2, <1>4, <1>5
<1>. QED BY <1>1, <1>2, <1>6

\* The lanes of whole programs take no more counters than are drawn.
LEMMA LanesDrawn ==
  ASSUME NEW n \in Nat, n % (BLOCK * UNROLL) = 0
  PROVE  \A i \in ActiveLanes(n) :
           i \in Nat /\ i < Rounded(increment(n))
<1> DEFINE b == BLOCK * UNROLL
           q == n \div b
           m == q * BLOCK
<1>1. BLOCK \in Nat \ {0} /\ b \in Nat \ {0} /\ b = BLOCK * 4
  BY PhiloxAssumption DEF UNROLL
<1>2. n = q * b + (n % b) /\ q \in Nat
  BY <1>1, DivMod
<1>3. n = q * b
  <2>1. q * b \in Nat
    <3>1. b \in Nat /\ q \in Nat
      BY <1>1, <1>2
    <3>. HIDE DEF q, b
    <3>. QED BY <3>1
  <2>2. n % b = 0
    OBVIOUS
  <2>. HIDE DEF q, b
  <2>. QED BY <1>2, <2>1, <2>2
<1> DEFINE u == n + b - 1
<1>4. cdiv(n, b) = q
  <2>1. u \in Nat /\ u = q * b + (b - 1) /\ b - 1 \in 0 .. b - 1
    <3>. HIDE DEF q, b
    <3>1. q * b \in Nat
      BY <1>1, <1>2
    <3>. QED BY <1>1, <1>3, <3>1
  <2>2. u \div b = q
    <3>1. q \in Int /\ b \in Nat \ {0}
      BY <1>1, <1>2
    <3>. HIDE DEF u, q, b
    <3>. QED BY <2>1, <3>1, DivUnique
  <2>. QED BY <2>2 DEF cdiv
<1>5. m \in Nat
  <2>1. q \in Nat /\ BLOCK \in Nat
    BY <1>1, <1>2
  <2>. HIDE DEF q
  <2>. QED BY <2>1
<1>6. n = m * 4
  <2>. HIDE DEF q
  <2>1. q * (BLOCK * 4) = (q * BLOCK) * 4
    BY <1>1, <1>2
  <2>. QED BY <1>1, <1>3, <2>1
<1>7. increment(n) = m
  <2> DEFINE v == n + 4 - 1
  <2>. HIDE DEF m
  <2>1. v \in Nat /\ v = m * 4 + 3 /\ 3 \in 0 .. 4 - 1
    BY <1>5, <1>6
  <2>. HIDE DEF v
  <2>2. v \div 4 = m
    BY <1>5, <2>1, DivUnique
  <2>. QED BY <2>2 DEF v, increment, cdiv, UNROLL
<1>8. m <= Rounded(m)
  <2> DEFINE v == m + 3
             z == v \div 4
  <2>1. v = z * 4 + (v % 4) /\ v % 4 \in 0 .. 3 /\ z \in Nat /\ v \in Nat
    <3>1. v \in Nat
      <4>. HIDE DEF m
      <4>. QED BY <1>5
    <3>. HIDE DEF v
    <3>. QED BY <3>1, DivMod
  <2>2. Rounded(m) = z * 4
    BY DEF Rounded
  <2>. HIDE DEF m, z
  <2>. QED BY <1>5, <2>1, <2>2
<1>9. ActiveLanes(n) \subseteq 0 .. m - 1
  BY <1>4 DEF ActiveLanes
<1>10. Rounded(m) \in Nat
  BY <1>7, RoundedByFour
<1> HIDE DEF m
<1>. QED BY <1>5, <1>7, <1>8, <1>9, <1>10
-----------------------------------------------------------------------------
(***************************************************************************)
(* No counter twice                                                        *)
(***************************************************************************)
\* The offsets a thread has drawn and not used yet.
Window(t) ==
  {x \in Nat : copy[t] <= x /\ x < copy[t] + Rounded(increment(N[t]))}

Drawing == {t \in Threads : at[t] = "launch"}

Orderly == ~raced /\ whole /\ asked <= Words

CallsOK ==
  /\ OffsetsOK
  /\ at \in [Threads -> {"idle", "set_state", "launch"}]
  /\ used \in [Counters -> Nat]
  /\ first \in Nat /\ asked \in Nat
  /\ whole \in BOOLEAN /\ raced \in BOOLEAN
  /\ whole => \A t \in Threads : at[t] # "idle" => N[t] % (BLOCK * UNROLL) = 0

\* Without a race the offsets follow on one another ...
WindowsApart ==
  ~raced =>
    /\ state = first + asked
    /\ \A t \in Drawing : \A x \in Window(t) : first <= x /\ x < state
    /\ \A t, u \in Drawing : t # u => Window(t) \cap Window(u) = {}

\* ... and what has been used is outside of what is still to be used.
UsedOnce ==
  Orderly =>
    \A c \in Counters : used[c] # 0 =>
      /\ used[c] = 1
      /\ \E x \in Nat : /\ first <= x /\ x < state /\ x % Words = c[1]
                        /\ \A t \in Drawing : x \notin Window(t)

DrawInv == CallsOK /\ WindowsApart /\ UsedOnce

LEMMA InitDraws == PhiloxInit => DrawInv
<1> SUFFICES ASSUME PhiloxInit PROVE DrawInv
  OBVIOUS
<1>1. OffsetsOK
  BY InitRestorable
<1>2. CallsOK
  BY <1>1, PhiloxAssumption DEF PhiloxInit, CallsOK
<1>3. Drawing = {}
  BY DEF PhiloxInit, Drawing
<1>4. state \in Nat
  BY <1>1 DEF OffsetsOK, Restorable
<1>5. WindowsApart /\ UsedOnce
  BY <1>3, <1>4 DEF PhiloxInit, WindowsApart, UsedOnce
<1>. QED BY <1>2, <1>5 DEF DrawInv

LEMMA GetStateDraws ==
  ASSUME DrawInv, NEW t \in Threads, NEW n \in Sizes, GetState(t, n)
  PROVE  CallsOK' /\ WindowsApart' /\ UsedOnce'
<1> USE DEF DrawInv
<1>1. OffsetsOK'
  BY StepRestorable DEF CallsOK, PhiloxNext
<1>2. /\ at \in [Threads -> {"idle", "set_state", "launch"}]
      /\ N \in [Threads -> Nat] /\ copy \in [Threads -> Nat]
      /\ whole \in BOOLEAN
  BY DEF CallsOK, OffsetsOK
<1>3. CallsOK'
  BY <1>1, <1>2 DEF GetState, CallsOK
<1>4. Drawing' = Drawing /\ t \notin Drawing
  BY <1>2 DEF GetState, Drawing
<1>5. \A u \in Drawing : copy'[u] = copy[u] /\ N'[u] = N[u]
  BY <1>2, <1>4 DEF GetState, Drawing
<1>6. \A u \in Drawing : Window(u)' = Window(u)
  BY <1>5 DEF Window, Rounded, increment, cdiv
<1>7. WindowsApart'
  BY <1>4, <1>6 DEF GetState, WindowsApart
<1>8. UsedOnce'
  BY <1>2, <1>4, <1>6 DEF GetState, UsedOnce, Orderly
<1>. QED BY <1>3, <1>7, <1>8

LEMMA SetStateDraws ==
  ASSUME DrawInv, NEW t \in Threads, SetState(t)
  PROVE  CallsOK' /\ WindowsApart' /\ UsedOnce'
<1> USE DEF DrawInv
<1> DEFINE inc == Rounded(increment(N[t]))
<1>1. OffsetsOK' /\ OffsetsOK
  BY StepRestorable DEF CallsOK, PhiloxNext
<1>2. /\ at \in [Threads -> {"idle", "set_state", "launch"}]
      /\ N \in [Threads -> Nat] /\ copy \in [Threads -> Nat]
      /\ whole \in BOOLEAN /\ raced \in BOOLEAN /\ asked \in Nat /\ first \in Nat
      /\ state \in Nat /\ state' \in Nat
  BY <1>1 DEF CallsOK, OffsetsOK, Restorable
<1>3. inc \in Nat
  BY <1>2, RoundedByFour
<1>4. /\ at[t] = "set_state" /\ at' = [at EXCEPT ![t] = "launch"]
      /\ state' = copy[t] + inc /\ asked' = asked + inc
      /\ raced' = (raced \/ state # copy[t])
      /\ first' = first /\ N' = N /\ copy' = copy /\ used' = used /\ whole' = whole
  BY DEF SetState
<1>5. CallsOK'
  BY <1>1, <1>2, <1>3, <1>4 DEF CallsOK
<1>6. Drawing' = Drawing \cup {t} /\ t \notin Drawing
  BY <1>2, <1>4 DEF Drawing
<1>7. \A u : Window(u)' = Window(u)
  BY <1>4 DEF Window, Rounded, increment, cdiv
<1>8. \A x \in Window(t) : x \in Nat /\ copy[t] <= x /\ x < copy[t] + inc
  BY DEF Window
<1> HIDE DEF inc
<1>9. WindowsApart'
  <2> SUFFICES ASSUME ~raced' PROVE WindowsApart'
    BY DEF WindowsApart
  <2>1. ~raced /\ state = copy[t]
    BY <1>4
  <2>2. state' = first + asked'
    BY <1>2, <1>3, <1>4, <2>1 DEF WindowsApart
  <2>3. first <= state /\ state' = state + inc
    BY <1>2, <1>4, <2>1 DEF WindowsApart
  <2>4. ASSUME NEW u \in Drawing \cup {t}, NEW x \in Window(u)
        PROVE  first <= x /\ x < state'
    <3>1. x \in Nat
      BY DEF Window
    <3>2. CASE u = t
      BY <1>2, <1>3, <1>8, <2>1, <2>3, <3>2
    <3>3. CASE u \in Drawing
      BY <1>2, <1>3, <2>1, <2>3, <3>1, <3>3 DEF WindowsApart
    <3>. QED BY <3>2, <3>3
  <2>5. ASSUME NEW u \in Drawing, NEW x \in Window(u)
        PROVE  x \notin Window(t)
    <3>1. x < state /\ x \in Nat
      BY <2>1 DEF WindowsApart, Window
    <3>. QED BY <1>2, <1>8, <2>1, <3>1
  <2>6. \A u, v \in Drawing \cup {t} : u # v => Window(u) \cap Window(v) = {}
    BY <2>1, <2>5 DEF WindowsApart
  <2>. QED BY <1>4, <1>6, <1>7, <2>2, <2>4, <2>6 DEF WindowsApart
<1>10. UsedOnce'
  <2> SUFFICES ASSUME Orderly', NEW c \in Counters, used[c] # 0
               PROVE  /\ used[c] = 1
                      /\ \E x \in Nat : /\ first <= x /\ x < state' /\ x % Words = c[1]
                                        /\ \A u \in Drawing' : x \notin Window(u)
    BY <1>4, <1>7 DEF UsedOnce
  <2>1. ~raced /\ state = copy[t] /\ Orderly
    <3>1. ~raced' /\ whole' /\ asked + inc <= Words
      BY <1>4 DEF Orderly
    <3>2. asked <= Words
      BY <1>2, <1>3, <3>1, PhiloxAssumption
    <3>. QED BY <1>4, <3>1, <3>2 DEF Orderly
  <2>2. PICK x \in Nat : /\ first <= x /\ x < state /\ x % Words = c[1]
                         /\ \A u \in Drawing : x \notin Window(u)
    BY <2>1 DEF UsedOnce
  <2>3. x \notin Window(t) /\ x < state'
    BY <1>2, <1>3, <1>4, <1>8, <2>1, <2>2
  <2>. QED BY <1>6, <2>1, <2>2, <2>3 DEF UsedOnce
<1>. QED BY <1>5, <1>9, <1>10

LEMMA LaunchDraws ==
  ASSUME DrawInv, NEW t \in Threads, Launch(t)
  PROVE  CallsOK' /\ WindowsApart' /\ UsedOnce'
<1> USE DEF DrawInv
<1> DEFINE S == {Counter(copy[t], i) : i \in ActiveLanes(N[t])}
<1>1. OffsetsOK' /\ OffsetsOK
  BY StepRestorable DEF CallsOK, PhiloxNext
<1>2. /\ at \in [Threads -> {"idle", "set_state", "launch"}]
      /\ N \in [Threads -> Nat] /\ copy \in [Threads -> Nat]
      /\ used \in [Counters -> Nat]
      /\ asked \in Nat /\ first \in Nat /\ state \in Nat /\ Words \in Nat \ {0}
  BY <1>1, PhiloxAssumption DEF CallsOK, OffsetsOK, Restorable
<1>3. /\ at[t] = "launch" /\ at' = [at EXCEPT ![t] = "idle"]
      /\ used' = [c \in Counters |-> IF c \in S THEN used[c] + 1 ELSE used[c]]
      /\ state' = state /\ first' = first /\ N' = N /\ copy' = copy
      /\ asked' = asked /\ whole' = whole /\ raced' = raced
  BY DEF Launch
<1> HIDE DEF S
<1>4. CallsOK'
  BY <1>1, <1>2, <1>3 DEF CallsOK
<1>5. Drawing' = Drawing \ {t} /\ t \in Drawing
  BY <1>2, <1>3 DEF Drawing
<1>6. \A u : Window(u)' = Window(u)
  BY <1>3 DEF Window, Rounded, increment, cdiv
<1>7. WindowsApart'
  BY <1>3, <1>5, <1>6 DEF WindowsApart
<1>8. ASSUME whole, NEW c \in S
      PROVE  \E x \in Window(t) : x % Words = c[1]
  <2>1. PICK i \in ActiveLanes(N[t]) : c = Counter(copy[t], i)
    BY DEF S
  <2>2. N[t] % (BLOCK * UNROLL) = 0
    BY <1>3, <1>8 DEF CallsOK
  <2>3. i \in Nat /\ i < Rounded(increment(N[t]))
    BY <1>2, <2>2, LanesDrawn
  <2>4. c[1] = (copy[t] + i) % Words
    <3>1. c[1] = ((copy[t] % Words) + i) % Words
      BY <2>1 DEF Counter
    <3>2. copy[t] \in Nat
      BY <1>2
    <3>. QED BY <1>2, <2>3, <3>1, <3>2, ModAdd
  <2>5. copy[t] + i \in Window(t)
    <3>1. Rounded(increment(N[t])) \in Nat /\ copy[t] \in Nat
      BY <1>2, RoundedByFour
    <3> DEFINE w == Rounded(increment(N[t]))
               a == copy[t]
    <3>2. w \in Nat /\ a \in Nat /\ i < w
      BY <2>3, <3>1
    <3>. HIDE DEF w, a
    <3>3. a + i \in Nat /\ a <= a + i /\ a + i < a + w
      BY <2>3, <3>2
    <3>. QED BY <3>3 DEF Window, w, a
  <2>. QED BY <2>4, <2>5
<1>9. UsedOnce'
  <2> SUFFICES ASSUME Orderly', NEW c \in Counters, used'[c] # 0
               PROVE  /\ used'[c] = 1
                      /\ \E x \in Nat : /\ first <= x /\ x < state /\ x % Words = c[1]
                                        /\ \A u \in Drawing' : x \notin Window(u)
    BY <1>3, <1>6 DEF UsedOnce
  <2>1. Orderly /\ ~raced /\ whole /\ asked <= Words
    BY <1>3 DEF Orderly
  <2>2. \A u \in Drawing' : u \in Drawing /\ u # t
    BY <1>5
  <2>3. CASE c \in S
    <3>1. PICK x \in Window(t) : x % Words = c[1]
      BY <1>8, <2>1, <2>3
    <3>2. x \in Nat /\ first <= x /\ x < state /\ \A u \in Drawing' : x \notin Window(u)
      BY <1>5, <2>1, <2>2 DEF WindowsApart, Window
    <3>3. used[c] = 0
      <4>1. SUFFICES ASSUME used[c] # 0 PROVE FALSE
        OBVIOUS
      <4>2. PICK y \in Nat : /\ first <= y /\ y < state /\ y % Words = c[1]
                             /\ \A u \in Drawing : y \notin Window(u)
        BY <2>1, <4>1 DEF UsedOnce
      <4>3. state = first + asked
        BY <2>1 DEF WindowsApart
      <4>4. x < first + Words /\ y < first + Words
        BY <1>2, <2>1, <3>2, <4>2, <4>3
      <4>5. x = y
        BY <1>2, <3>1, <3>2, <4>2, <4>4, WindowMod
      <4>. QED BY <1>5, <4>2, <4>5
    <3>4. used'[c] = 1
      BY <1>2, <1>3, <2>3, <3>3
    <3>. QED BY <3>1, <3>2, <3>4
  <2>4. CASE c \notin S
    <3>1. used'[c] = used[c]
      BY <1>2, <1>3, <2>4
    <3>. QED BY <2>1, <2>2, <3>1 DEF UsedOnce
  <2>. QED BY <2>3, <2>4
<1>. QED BY <1>4, <1>7, <1>9

LEMMA StepDraws == DrawInv /\ [PhiloxNext]_philox_vars => DrawInv'
<1> SUFFICES ASSUME DrawInv, [PhiloxNext]_philox_vars PROVE DrawInv'
  OBVIOUS
<1>1. ASSUME UNCHANGED philox_vars
      PROVE  DrawInv'
  <2>1. OffsetsOK'
    BY <1>1, StepRestorable DEF DrawInv, CallsOK
  <2>2. Drawing' = Drawing /\ \A u : Window(u)' = Window(u)
    BY <1>1 DEF philox_vars, Drawing, Window, Rounded, increment, cdiv
  <2>3. CallsOK' /\ WindowsApart' /\ UsedOnce'
    BY <1>1, <2>1, <2>2 DEF philox_vars, DrawInv, CallsOK, WindowsApart, UsedOnce, Orderly
  <2>. QED BY <2>3 DEF DrawInv
<1>. QED BY <1>1, GetStateDraws, SetStateDraws, LaunchDraws
         DEF PhiloxNext, AllDrawn, DrawInv

\* As long as nobody races, whole programs are asked for and no more than Words
\* counters are drawn, no two launches use the same counter, wherever in the low
\* word they begin.
THEOREM CountersAreFresh == PhiloxSpec => []NoRepeat
<1>1. DrawInv => NoRepeat
  <2> SUFFICES ASSUME DrawInv, Orderly, NEW c \in Counters PROVE used[c] <= 1
    BY DEF NoRepeat, Orderly
  <2>1. used[c] \in Nat
    BY DEF DrawInv, CallsOK
  <2>. QED BY <2>1 DEF DrawInv, UsedOnce
<1>. QED BY <1>1, InitDraws, StepDraws, PTL DEF PhiloxSpec
=============================================================================
