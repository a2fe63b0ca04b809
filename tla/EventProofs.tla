---------------------------- MODULE EventProofs -----------------------------
(*****************************************************************************)
(* Proofs about the event registry (RuntimeEvents), for any number of        *)
(* services, interrupt sources and slots.                                    *)
(*                                                                           *)
(*  - What the operators on the registry return, field by field.             *)
(*  - EInv, the inductive invariant: every operator and then every action    *)
(*    keeps Good, which says that sets, router and sleepers name only what   *)
(*    is live (Sound), that a wait in progress is in order (CallOK), that    *)
(*    no signal that is owed gets lost (KeptOK), and that a ready member of  *)
(*    a sleeper's set has a wake on its way (PromptOK; it needs each         *)
(*    hardware event in one set at most).                                    *)
(*****************************************************************************)
EXTENDS RuntimeEvents, Integers, TLAPS, WellFoundedInduction, NaturalsInduction

(* A set of numbers that is not empty has a least one.                      *)
LEMMA Least == ASSUME NEW T, T \subseteq Nat, T # {} PROVE \E x \in T : \A y \in T : x <= y
<1> DEFINE R == {ss \in Nat \X Nat : ss[1] < ss[2]}
<1>0. IsWellFoundedOn(R, Nat)
  BY NatLessThanWellFounded, Zenon DEF OpToRel
<1>a. ASSUME NEW x \in Nat, NEW y \in Nat, <<y, x>> \notin R PROVE x <= y
  <2>1. <<y, x>> \in Nat \X Nat /\ <<y, x>>[1] = y /\ <<y, x>>[2] = x
    BY Zenon
  <2>2. ~(y < x)
    BY Zenon, <1>a, <2>1
  <2> QED BY <2>2
<1>1. \E x \in T : \A y \in T : ~ (<<y, x>> \in R)
  <2> HIDE DEF R
  <2> QED BY Zenon, <1>0, WFMin
<1> HIDE DEF R
<1>2. QED BY Zenon, <1>1, <1>a

(* The function behind Without: f[i] is what is left of the first i         *)
(* elements of q.                                                           *)
Filters(f, q, E, S) ==
    /\ f \in [0 .. Len(q) -> Seq(S)]
    /\ f[0] = << >>
    /\ \A i \in 1 .. Len(q) : f[i] = IF q[i] \in E THEN f[i - 1] ELSE Append(f[i - 1], q[i])

(* The recursion of Without is well defined, and computes what it says.     *)
LEMMA WithoutRecursion ==
  ASSUME NEW S, NEW q \in Seq(S), NEW E
  PROVE  \E f : Filters(f, q, E, S) /\ Without(q, E) = f[Len(q)]
<1> DEFINE Good(g, n) == /\ g \in [0 .. n -> Seq(S)] /\ g[0] = << >>
                         /\ \A i \in 1 .. n : g[i] = IF q[i] \in E THEN g[i - 1] ELSE Append(g[i - 1], q[i])
           Bad == {n \in Nat : n <= Len(q) /\ ~\E g : Good(g, n)}
<1>0. Len(q) \in Nat /\ \A i \in 1 .. Len(q) : q[i] \in S
  OBVIOUS
<1>a. Good([i \in 0 .. 0 |-> << >>], 0)
  OBVIOUS
<1>b. ASSUME NEW n \in Nat, n + 1 <= Len(q), NEW g, Good(g, n)
      PROVE  \E h : Good(h, n + 1)
  <2> DEFINE v == IF q[n + 1] \in E THEN g[n] ELSE Append(g[n], q[n + 1])
             h == [i \in 0 .. n + 1 |-> IF i = n + 1 THEN v ELSE g[i]]
  <2>1. g[n] \in Seq(S) /\ q[n + 1] \in S
    BY <1>b, <1>0
  <2>2. v \in Seq(S)
    BY <2>1
  <2>3. h \in [0 .. n + 1 -> Seq(S)] /\ h[0] = << >> /\ h[n + 1] = v
    BY <1>b, <2>2
  <2>4. \A i \in 0 .. n : h[i] = g[i]
    BY <1>b
  <2>5. ASSUME NEW i \in 1 .. n + 1 PROVE h[i] = IF q[i] \in E THEN h[i - 1] ELSE Append(h[i - 1], q[i])
    <3>1. CASE i = n + 1
      <4>1. h[i - 1] = g[n]
        BY <3>1, <2>4
      <4> HIDE DEF h
      <4> QED BY Zenon, <3>1, <4>1, <2>3
    <3>2. CASE i # n + 1
      <4>1. i \in 1 .. n /\ i - 1 \in 0 .. n /\ i \in 0 .. n
        BY <3>2, <2>5
      <4> HIDE DEF h
      <4> QED BY Zenon, <4>1, <2>4, <1>b
    <3> QED BY Zenon, <3>1, <3>2
  <2> HIDE DEF h
  <2> QED BY Zenon, <2>3, <2>5
<1> HIDE DEF Good
<1>1. Bad = {}
  <2>1. SUFFICES ASSUME NEW n \in Bad, \A m \in Bad : n <= m PROVE FALSE
    <3>1. Bad \subseteq Nat
      BY Zenon
    <3> HIDE DEF Bad
    <3> QED BY Zenon, <3>1, Least
  <2>2. n \in Nat /\ n <= Len(q) /\ ~\E g : Good(g, n)
    BY Zenon
  <2>3. n # 0
    BY Zenon, <1>a, <2>2
  <2>4. n - 1 \in Nat /\ n - 1 <= Len(q)
    BY <2>2, <2>3, <1>0
  <2>5. n - 1 \notin Bad
    <3> HIDE DEF Bad
    <3> QED BY <2>1, <2>4, <2>2
  <2>6. PICK g : Good(g, n - 1)
    BY Zenon, <2>4, <2>5
  <2>7. \E h : Good(h, (n - 1) + 1)
    BY <1>b, <2>4, <2>6, <2>2
  <2> QED BY <2>7, <2>2
<1>2. PICK f : Good(f, Len(q))
  BY <1>1, <1>0
<1> DEFINE D(G) == [i \in 0 .. Len(q) |-> IF i = 0 THEN << >>
                                ELSE IF q[i] \in E THEN G[i - 1] ELSE Append(G[i - 1], q[i])]
<1>3. f = D(f)
  <2>1. f \in [0 .. Len(q) -> Seq(S)] /\ f[0] = << >>
    BY Zenon, <1>2 DEF Good
  <2>2. ASSUME NEW i \in 0 .. Len(q) PROVE f[i] = D(f)[i]
    <3>1. CASE i = 0
      BY Zenon, <3>1, <2>1
    <3>2. CASE i # 0
      <4>1. i \in 1 .. Len(q)
        BY <3>2, <1>0
      <4> QED BY Zenon, <4>1, <1>2 DEF Good
    <3> QED BY Zenon, <3>1, <3>2
  <2>3. DOMAIN D(f) = 0 .. Len(q)
    BY Zenon
  <2>4. D(f) = [i \in 0 .. Len(q) |-> D(f)[i]]
    BY Zenon
  <2> HIDE DEF D
  <2> QED BY Zenon, <2>1, <2>2, <2>4
<1> DEFINE F == CHOOSE F : F = D(F)
<1>4. F = D(F)
  BY <1>3, Zenon
<1>5. Without(q, E) = F[Len(q)]
  BY Zenon DEF Without
<1>6. \A i \in 0 .. Len(q) : F[i] = f[i]
  <2> DEFINE Off == {i \in Nat : i <= Len(q) /\ F[i] # f[i]}
  <2>1. SUFFICES ASSUME NEW n \in Off, \A m \in Off : n <= m PROVE FALSE
    <3>1. Off \subseteq Nat
      BY Zenon
    <3>2. Off = {}
      <4> HIDE DEF Off
      <4> QED BY Zenon, <3>1, Least, <2>1
    <3> HIDE DEF F
    <3>3. ASSUME NEW i \in 0 .. Len(q), F[i] # f[i] PROVE FALSE
      <4>1. i \in Off
        BY <3>3, <1>0
      <4> QED BY Zenon, <4>1, <3>2
    <3> QED BY Zenon, <3>3
  <2> HIDE DEF F
  <2>2. n \in 0 .. Len(q) /\ F[n] # f[n]
    BY <1>0
  <2>3. n # 0
    BY Zenon, <1>4, <1>3, <2>2, <1>0
  <2>4. n - 1 \in Nat /\ n - 1 <= Len(q)
    BY <2>2, <2>3, <1>0
  <2>5. F[n - 1] = f[n - 1]
    <3>1. n - 1 \notin Off
      <4> HIDE DEF Off
      <4> QED BY <2>1, <2>4, <2>2
    <3> QED BY Zenon, <3>1, <2>4
  <2> QED BY Zenon, <2>5, <2>2, <2>3, <1>4, <1>3
<1>7. Without(q, E) = f[Len(q)]
  <2> HIDE DEF F
  <2> QED BY <1>5, <1>6, <1>0
<1> QED BY Zenon, <1>2, <1>7 DEF Good, Filters

(* Without keeps exactly the elements that are not to be dropped.           *)
LEMMA WithoutRange == ASSUME NEW S, NEW q \in Seq(S), NEW E
           PROVE /\ Without(q, E) \in Seq(S)
                 /\ {Without(q, E)[k] : k \in DOMAIN Without(q, E)} = {q[k] : k \in DOMAIN q} \ E
<1> DEFINE R(s) == {s[k] : k \in DOMAIN s}
<1>0. Len(q) \in Nat /\ DOMAIN q = 1 .. Len(q) /\ \A i \in 1 .. Len(q) : q[i] \in S
  OBVIOUS
<1>a. PICK f : Filters(f, q, E, S) /\ Without(q, E) = f[Len(q)]
  BY Zenon, WithoutRecursion
<1>1. /\ f \in [0 .. Len(q) -> Seq(S)]
      /\ f[0] = << >>
      /\ \A i \in 1 .. Len(q) : f[i] = IF q[i] \in E THEN f[i - 1] ELSE Append(f[i - 1], q[i])
      /\ Without(q, E) = f[Len(q)]
  BY Zenon, <1>a DEF Filters
<1> DEFINE Off == {n \in Nat : n <= Len(q) /\ R(f[n]) # {q[k] : k \in 1 .. n} \ E}
<1>2. ASSUME NEW s \in Seq(S), NEW x \in S PROVE R(Append(s, x)) = R(s) \cup {x}
  <2>1. DOMAIN Append(s, x) = DOMAIN s \cup {Len(s) + 1} /\ Append(s, x)[Len(s) + 1] = x
        /\ \A k \in DOMAIN s : Append(s, x)[k] = s[k]
    OBVIOUS
  <2> QED BY Zenon, <2>1
<1>3. Off = {}
  <2>1. SUFFICES ASSUME NEW n \in Off, \A m \in Off : n <= m PROVE FALSE
    <3>1. Off \subseteq Nat
      BY Zenon
    <3> HIDE DEF Off
    <3> QED BY Zenon, <3>1, Least
  <2>2. n \in Nat /\ n <= Len(q) /\ R(f[n]) # {q[k] : k \in 1 .. n} \ E
    BY Zenon
  <2>3. n # 0
    <3>1. R(<< >>) = {}
      OBVIOUS
    <3>2. {q[k] : k \in 1 .. 0} = {}
      OBVIOUS
    <3> HIDE DEF R
    <3> QED BY Zenon, <3>1, <3>2, <2>2, <1>1
  <2>4. n - 1 \in Nat /\ n - 1 <= Len(q) /\ n \in 1 .. Len(q) /\ n - 1 \in 0 .. Len(q)
    BY <2>2, <2>3, <1>0
  <2>5. n - 1 \notin Off
    <3> HIDE DEF Off
    <3> QED BY <2>1, <2>4, <2>2
  <2>6. R(f[n - 1]) = {q[k] : k \in 1 .. n - 1} \ E
    <3> HIDE DEF R
    <3> QED BY Zenon, <2>4, <2>5
  <2>7. {q[k] : k \in 1 .. n} = {q[k] : k \in 1 .. n - 1} \cup {q[n]}
    <3>1. 1 .. n = (1 .. n - 1) \cup {n}
      BY <2>4
    <3> QED BY Zenon, <3>1
  <2>8. f[n - 1] \in Seq(S) /\ q[n] \in S
    BY Zenon, <2>4, <1>0, <1>1
  <2>9. f[n] = IF q[n] \in E THEN f[n - 1] ELSE Append(f[n - 1], q[n])
    BY Zenon, <2>4, <1>1
  <2>10. R(Append(f[n - 1], q[n])) = R(f[n - 1]) \cup {q[n]}
    BY Zenon, <2>8, <1>2
  <2> DEFINE A == {q[k] : k \in 1 .. n - 1}
             B == {q[k] : k \in 1 .. n}
  <2> HIDE DEF R, A, B
  <2>11. R(f[n]) = B \ E
    <3>1. CASE q[n] \in E
      BY Zenon, <3>1, <2>6, <2>7, <2>9 DEF A, B
    <3>2. CASE q[n] \notin E
      <4>1. R(f[n]) = (A \ E) \cup {q[n]}
        BY Zenon, <3>2, <2>6, <2>9, <2>10 DEF A
      <4>2. B = A \cup {q[n]}
        BY Zenon, <2>7 DEF A, B
      <4> QED BY Zenon, <3>2, <4>1, <4>2
    <3> QED BY Zenon, <3>1, <3>2
  <2> QED BY Zenon, <2>2, <2>11 DEF B
<1>4. R(f[Len(q)]) = {q[k] : k \in 1 .. Len(q)} \ E
  <2>1. Len(q) \notin Off
    BY Zenon, <1>3
  <2>2. Len(q) <= Len(q)
    BY <1>0
  <2> HIDE DEF R
  <2> QED BY Zenon, <2>1, <2>2, <1>0
<1>5. f[Len(q)] \in Seq(S)
  BY <1>0, <1>1
<1> QED BY <1>1, <1>4, <1>0, <1>5, Zenon

(* The parts of a registry and their types.                                 *)
LEMMA RegistryFields ==
  ASSUME NEW r \in Registries
  PROVE  /\ r.events \in [1 .. MaxEvents -> EventSlots]
         /\ r.sets \in [1 .. MaxSets -> SetSlots]
         /\ r.hw \in [Sources -> Routes]
         /\ r.asleep \in [Services -> SetHandles \cup {None}]
         /\ r = [events |-> r.events, sets |-> r.sets, hw |-> r.hw, asleep |-> r.asleep]
BY Zenon DEF Registries

(* The registry's tables of events and of sets, as sets of their own.       *)
EventTables == [1 .. MaxEvents -> EventSlots]
SetTables == [1 .. MaxSets -> SetSlots]

(* Two tables that agree on every slot are one table.                       *)
LEMMA SameEvents ==
  ASSUME NEW f \in EventTables, NEW g \in EventTables, \A i \in 1 .. MaxEvents : f[i] = g[i]
  PROVE  f = g
<1>1. f = [i \in 1 .. MaxEvents |-> f[i]] /\ g = [i \in 1 .. MaxEvents |-> g[i]]
  BY Zenon DEF EventTables
<1> QED BY Zenon, <1>1

(* The same for the tables of sets.                                         *)
LEMMA SameSets ==
  ASSUME NEW f \in SetTables, NEW g \in SetTables, \A i \in 1 .. MaxSets : f[i] = g[i]
  PROVE  f = g
<1>1. f = [i \in 1 .. MaxSets |-> f[i]] /\ g = [i \in 1 .. MaxSets |-> g[i]]
  BY Zenon DEF SetTables
<1> QED BY Zenon, <1>1

(* A registry is put together from its four tables.                         *)
LEMMA Assembled ==
  ASSUME NEW a \in [1 .. MaxEvents -> EventSlots], NEW b \in [1 .. MaxSets -> SetSlots],
         NEW c \in [Sources -> Routes], NEW d \in [Services -> SetHandles \cup {None}],
         NEW q, q = [events |-> a, sets |-> b, hw |-> c, asleep |-> d]
  PROVE  q \in Registries /\ q.events = a /\ q.sets = b /\ q.hw = c /\ q.asleep = d
BY Zenon DEF Registries

(* The domains of the registry's tables.                                    *)
LEMMA RegistryDomains ==
  ASSUME NEW r \in Registries
  PROVE  /\ DOMAIN r.events = 1 .. MaxEvents /\ DOMAIN r.sets = 1 .. MaxSets
BY Zenon, RegistryFields

(* The types of what slots, routes and sleepers hold.                       *)
LEMMA SlotFields ==
  ASSUME NEW r \in Registries
  PROVE  /\ \A i \in 1 .. MaxEvents : /\ r.events[i].gen \in Nat
                                     /\ r.events[i].owner \in Services \cup {None}
                                     /\ r.events[i].signaled \in BOOLEAN
         /\ \A i \in 1 .. MaxSets : /\ r.sets[i].gen \in Nat
                                   /\ r.sets[i].owner \in Services \cup {None}
                                   /\ r.sets[i].members \in Seq(Handles)
                                   /\ r.sets[i].waiting \in BOOLEAN
                                   /\ r.sets[i].invalidated \in BOOLEAN
         /\ \A h \in Sources : /\ r.hw[h].event \in Handles \cup {None}
                              /\ r.hw[h].set \in SetHandles \cup {None}
                              /\ r.hw[h].pending \in BOOLEAN
         /\ \A o \in Services : r.asleep[o] \in SetHandles \cup {None}
BY Zenon, RegistryFields DEF EventSlots, SetSlots, Routes

(* wake_event_set_inner changes only who sleeps.                            *)
LEMMA WakeFields ==
  ASSUME NEW r \in Registries, NEW S
  PROVE  /\ Wake(r, S) \in Registries
         /\ Wake(r, S).events = r.events
         /\ Wake(r, S).sets = r.sets
         /\ Wake(r, S).hw = r.hw
         /\ \A o \in Services : Wake(r, S).asleep[o] = IF r.asleep[o] \in S THEN None ELSE r.asleep[o]
BY Zenon DEF Registries, Wake

(* create_event_inner fills one event slot.                                 *)
LEMMA NewEventFields ==
  ASSUME NEW r \in Registries, NEW i \in 1 .. MaxEvents, NEW o \in Services
  PROVE  /\ NewEvent(r, i, o) \in Registries
         /\ NewEvent(r, i, o).sets = r.sets
         /\ NewEvent(r, i, o).hw = r.hw
         /\ NewEvent(r, i, o).asleep = r.asleep
         /\ \A j \in 1 .. MaxEvents : 
              NewEvent(r, i, o).events[j] = IF j = i THEN [gen |-> r.events[i].gen, owner |-> o, signaled |-> FALSE]
                                            ELSE r.events[j]
<1> DEFINE x == [gen |-> r.events[i].gen, owner |-> o, signaled |-> FALSE]
           f == [r.events EXCEPT ![i] = x]
<1>1. x \in EventSlots
  BY Zenon, RegistryFields DEF EventSlots
<1>2. f \in [1 .. MaxEvents -> EventSlots] /\ \A j \in 1 .. MaxEvents : f[j] = IF j = i THEN x ELSE r.events[j]
  BY Zenon, RegistryFields, <1>1
<1>3. NewEvent(r, i, o) = [r EXCEPT !.events = f]
  BY Zenon DEF NewEvent
<1> HIDE DEF f, x
<1>4. NewEvent(r, i, o) = [events |-> f, sets |-> r.sets, hw |-> r.hw, asleep |-> r.asleep]
  BY Zenon, <1>3 DEF Registries
<1> QED BY Zenon, <1>2, <1>4, RegistryFields DEF Registries, x

(* create_event_set fills one set slot.                                     *)
LEMMA NewSetFields ==
  ASSUME NEW r \in Registries, NEW i \in 1 .. MaxSets, NEW o \in Services
  PROVE  /\ NewSet(r, i, o) \in Registries
         /\ NewSet(r, i, o).events = r.events
         /\ NewSet(r, i, o).hw = r.hw
         /\ NewSet(r, i, o).asleep = r.asleep
         /\ \A j \in 1 .. MaxSets : 
              NewSet(r, i, o).sets[j] = IF j = i THEN [gen |-> r.sets[i].gen, owner |-> o, members |-> << >>,
                                          waiting |-> FALSE, invalidated |-> FALSE]
                                            ELSE r.sets[j]
<1> DEFINE x == [gen |-> r.sets[i].gen, owner |-> o, members |-> << >>, waiting |-> FALSE, invalidated |-> FALSE]
           f == [r.sets EXCEPT ![i] = x]
<1>0. << >> \in Seq(Handles)
  OBVIOUS
<1>1. x \in SetSlots
  BY Zenon, SlotFields, <1>0 DEF SetSlots
<1>2. f \in [1 .. MaxSets -> SetSlots] /\ \A j \in 1 .. MaxSets : f[j] = IF j = i THEN x ELSE r.sets[j]
  BY Zenon, RegistryFields, <1>1
<1>3. NewSet(r, i, o) = [r EXCEPT !.sets = f]
  BY Zenon DEF NewSet
<1> HIDE DEF f, x
<1>4. NewSet(r, i, o) = [events |-> r.events, sets |-> f, hw |-> r.hw, asleep |-> r.asleep]
  BY Zenon, <1>3 DEF Registries
<1> QED BY Zenon, <1>2, <1>4, RegistryFields DEF Registries, x

(* Unbinding changes only the set a route names.                            *)
LEMMA UnbindFields ==
  ASSUME NEW r \in Registries, NEW E, NEW S
  PROVE  /\ Unbind(r, E, S) \in Registries
         /\ Unbind(r, E, S).events = r.events
         /\ Unbind(r, E, S).sets = r.sets
         /\ Unbind(r, E, S).asleep = r.asleep
         /\ \A h \in Sources : /\ Unbind(r, E, S).hw[h].event = r.hw[h].event
                               /\ Unbind(r, E, S).hw[h].pending = r.hw[h].pending
                               /\ Unbind(r, E, S).hw[h].set = IF r.hw[h].event \in E /\ r.hw[h].set \in S
                                                              THEN None ELSE r.hw[h].set
<1> DEFINE f == [h \in Sources |-> IF r.hw[h].event \in E /\ r.hw[h].set \in S
                                   THEN [r.hw[h] EXCEPT !.set = None] ELSE r.hw[h]]
<1>1. ASSUME NEW h \in Sources
      PROVE  /\ [r.hw[h] EXCEPT !.set = None] \in Routes
             /\ [r.hw[h] EXCEPT !.set = None].event = r.hw[h].event
             /\ [r.hw[h] EXCEPT !.set = None].pending = r.hw[h].pending
             /\ [r.hw[h] EXCEPT !.set = None].set = None
  BY RegistryFields DEF Routes
<1>2. f \in [Sources -> Routes]
  BY Zenon, <1>1, RegistryFields
<1>3. \A h \in Sources : /\ f[h].event = r.hw[h].event
                         /\ f[h].pending = r.hw[h].pending
                         /\ f[h].set = IF r.hw[h].event \in E /\ r.hw[h].set \in S THEN None ELSE r.hw[h].set
  BY Zenon, <1>1
<1>4. Unbind(r, E, S) = [events |-> r.events, sets |-> r.sets, hw |-> f, asleep |-> r.asleep]
  BY RegistryFields DEF Unbind
<1> HIDE DEF f
<1> QED BY <1>2, <1>3, <1>4, RegistryFields DEF Registries

(* add_event_to_set appends a member, and binds a hardware event to the     *)
(* set.                                                                     *)
LEMMA AddMemberFields ==
  ASSUME NEW r \in Registries, NEW s \in SetHandles, NEW e \in Handles
  PROVE  /\ AddMember(r, s, e) \in Registries
         /\ AddMember(r, s, e).events = r.events
         /\ AddMember(r, s, e).asleep = r.asleep
         /\ \A i \in 1 .. MaxSets :
                /\ AddMember(r, s, e).sets[i].gen = r.sets[i].gen
                /\ AddMember(r, s, e).sets[i].owner = r.sets[i].owner
                /\ AddMember(r, s, e).sets[i].waiting = r.sets[i].waiting
                /\ AddMember(r, s, e).sets[i].invalidated = r.sets[i].invalidated
                /\ AddMember(r, s, e).sets[i].members = IF i = s[1] THEN Append(r.sets[i].members, e)
                                                        ELSE r.sets[i].members
         /\ \A h \in Sources : /\ AddMember(r, s, e).hw[h].event = r.hw[h].event
                               /\ AddMember(r, s, e).hw[h].pending = r.hw[h].pending
                               /\ AddMember(r, s, e).hw[h].set = IF r.hw[h].event = e THEN s ELSE r.hw[h].set
<1> DEFINE f == [h \in Sources |-> IF r.hw[h].event = e THEN [r.hw[h] EXCEPT !.set = s] ELSE r.hw[h]]
           x == [r.sets[s[1]] EXCEPT !.members = Append(@, e)]
           g == [r.sets EXCEPT ![s[1]] = x]
<1>1. ASSUME NEW h \in Sources
      PROVE  /\ [r.hw[h] EXCEPT !.set = s] \in Routes
             /\ [r.hw[h] EXCEPT !.set = s].event = r.hw[h].event
             /\ [r.hw[h] EXCEPT !.set = s].pending = r.hw[h].pending
             /\ [r.hw[h] EXCEPT !.set = s].set = s
  BY RegistryFields DEF Routes
<1>2. f \in [Sources -> Routes]
  BY Zenon, <1>1, RegistryFields
<1>3. \A h \in Sources : /\ f[h].event = r.hw[h].event
                         /\ f[h].pending = r.hw[h].pending
                         /\ f[h].set = IF r.hw[h].event = e THEN s ELSE r.hw[h].set
  BY <1>1
<1>4. s[1] \in 1 .. MaxSets
  BY Zenon DEF SetHandles
<1>5. r.sets[s[1]] \in SetSlots /\ r.sets[s[1]].members \in Seq(Handles)
  BY Zenon, <1>4, RegistryFields, SlotFields
<1>6. Append(r.sets[s[1]].members, e) \in Seq(Handles)
  BY <1>5
<1>7. /\ x \in SetSlots
      /\ x.gen = r.sets[s[1]].gen /\ x.owner = r.sets[s[1]].owner /\ x.waiting = r.sets[s[1]].waiting
      /\ x.invalidated = r.sets[s[1]].invalidated /\ x.members = Append(r.sets[s[1]].members, e)
  BY Zenon, <1>5, <1>6 DEF SetSlots
<1> HIDE DEF x
<1>8. g \in [1 .. MaxSets -> SetSlots] /\ \A i \in 1 .. MaxSets : g[i] = IF i = s[1] THEN x ELSE r.sets[i]
  BY Zenon, <1>4, <1>7, RegistryFields
<1>9a. AddMember(r, s, e) = [r EXCEPT !.sets = g, !.hw = f]
  BY Zenon DEF AddMember, x
<1>9. AddMember(r, s, e) = [events |-> r.events, sets |-> g, hw |-> f, asleep |-> r.asleep]
  <2> HIDE DEF f, g
  <2> QED BY Zenon, RegistryFields, <1>9a
<1> HIDE DEF f, g
<1>10. /\ AddMember(r, s, e).events = r.events /\ AddMember(r, s, e).asleep = r.asleep
       /\ AddMember(r, s, e).sets = g /\ AddMember(r, s, e).hw = f
  BY <1>9
<1>11. AddMember(r, s, e) \in Registries
  BY Zenon, <1>2, <1>8, <1>9, RegistryFields DEF Registries
<1> QED BY Zenon, <1>3, <1>7, <1>8, <1>10, <1>11

(* What remove_event_from_set leaves behind: q is r without the member.     *)
IsRemoved(r, s, e, q) ==
    /\ q \in Registries
    /\ q.events = r.events
    /\ q.asleep = r.asleep
    /\ \A i \in 1 .. MaxSets :
           /\ q.sets[i].gen = r.sets[i].gen
           /\ q.sets[i].owner = r.sets[i].owner
           /\ q.sets[i].waiting = r.sets[i].waiting
           /\ q.sets[i].invalidated = r.sets[i].invalidated
           /\ q.sets[i].members = IF i = s[1] THEN Without(r.sets[i].members, {e})
                                              ELSE r.sets[i].members
    /\ \A h \in Sources : /\ q.hw[h].event = r.hw[h].event
                          /\ q.hw[h].pending = r.hw[h].pending
                          /\ q.hw[h].set = IF r.hw[h].event = e /\ r.hw[h].set = s
                                           THEN None ELSE r.hw[h].set

(* remove_event_from_set drops a member and its binding.                    *)
LEMMA RemoveMemberFields ==
  ASSUME NEW r \in Registries, NEW s \in SetHandles, NEW e \in Handles,
         NEW q, q = RemoveMember(r, s, e)
  PROVE  IsRemoved(r, s, e, q)
<1> DEFINE w == Without(r.sets[s[1]].members, {e})
           x == [r.sets[s[1]] EXCEPT !.members = w]
           g == [r.sets EXCEPT ![s[1]] = x]
           p == [r EXCEPT !.sets = g]
<1>4. s[1] \in 1 .. MaxSets
  BY Zenon DEF SetHandles
<1>5. r.sets[s[1]] \in SetSlots /\ r.sets[s[1]].members \in Seq(Handles)
  BY Zenon, <1>4, RegistryFields, SlotFields
<1>6. w \in Seq(Handles)
  BY Zenon, <1>5, WithoutRange
<1> HIDE DEF w
<1>7. /\ x \in SetSlots
      /\ x.gen = r.sets[s[1]].gen /\ x.owner = r.sets[s[1]].owner /\ x.waiting = r.sets[s[1]].waiting
      /\ x.invalidated = r.sets[s[1]].invalidated /\ x.members = w
  BY Zenon, <1>5, <1>6 DEF SetSlots
<1> HIDE DEF x
<1>8. g \in [1 .. MaxSets -> SetSlots] /\ \A i \in 1 .. MaxSets : g[i] = IF i = s[1] THEN x ELSE r.sets[i]
  BY Zenon, <1>4, <1>7, RegistryFields
<1>9. RemoveMember(r, s, e) = Unbind(p, {e}, {s})
  BY Zenon DEF RemoveMember, x, w
<1> HIDE DEF g
<1>10. p = [events |-> r.events, sets |-> g, hw |-> r.hw, asleep |-> r.asleep]
  BY RegistryFields
<1> HIDE DEF p
<1>11. p \in Registries /\ p.events = r.events /\ p.sets = g /\ p.hw = r.hw /\ p.asleep = r.asleep
  BY Zenon, <1>8, <1>10, RegistryFields DEF Registries
<1>12. /\ Unbind(p, {e}, {s}) \in Registries
       /\ Unbind(p, {e}, {s}).events = p.events
       /\ Unbind(p, {e}, {s}).sets = p.sets
       /\ Unbind(p, {e}, {s}).asleep = p.asleep
       /\ \A h \in Sources : /\ Unbind(p, {e}, {s}).hw[h].event = p.hw[h].event
                             /\ Unbind(p, {e}, {s}).hw[h].pending = p.hw[h].pending
                             /\ Unbind(p, {e}, {s}).hw[h].set = IF p.hw[h].event \in {e} /\ p.hw[h].set \in {s}
                                                              THEN None ELSE p.hw[h].set
  BY <1>11, UnbindFields
<1>13. q = Unbind(p, {e}, {s})
  BY Zenon, <1>9
<1>14. \A i \in 1 .. MaxSets :
                /\ q.sets[i].gen = r.sets[i].gen
                /\ q.sets[i].owner = r.sets[i].owner
                /\ q.sets[i].waiting = r.sets[i].waiting
                /\ q.sets[i].invalidated = r.sets[i].invalidated
                /\ q.sets[i].members = IF i = s[1] THEN Without(r.sets[i].members, {e})
                                                   ELSE r.sets[i].members
  <2> TAKE i \in 1 .. MaxSets
  <2>1. CASE i = s[1]
    BY Zenon, <2>1, <1>7, <1>8, <1>11, <1>12, <1>13 DEF w
  <2>2. CASE i # s[1]
    <3>1. q.sets[i] = r.sets[i]
      BY Zenon, <2>2, <1>8, <1>11, <1>12, <1>13
    <3> QED BY Zenon, <2>2, <3>1
  <2> QED BY Zenon, <2>1, <2>2
<1>15. q \in Registries /\ q.events = r.events /\ q.asleep = r.asleep
  BY Zenon, <1>11, <1>12, <1>13
<1>16. \A h \in Sources : /\ q.hw[h].event = r.hw[h].event
                               /\ q.hw[h].pending = r.hw[h].pending
                               /\ q.hw[h].set = IF r.hw[h].event = e /\ r.hw[h].set = s
                                                THEN None ELSE r.hw[h].set
  BY Zenon, <1>11, <1>12, <1>13
<1> QED BY Zenon, <1>14, <1>15, <1>16 DEF IsRemoved

(* What signal_event_inner leaves behind.                                   *)
IsSignaled(r, e, q) ==
    /\ q \in Registries
    /\ q.sets = r.sets
    /\ q.hw = r.hw
    /\ \A i \in 1 .. MaxEvents :
           /\ q.events[i].gen = r.events[i].gen
           /\ q.events[i].owner = r.events[i].owner
           /\ q.events[i].signaled = IF i = e[1] THEN TRUE ELSE r.events[i].signaled
    /\ \A o \in Services : q.asleep[o] = IF r.asleep[o] \in Waiters(r, e) THEN None ELSE r.asleep[o]

(* signal_event_inner latches the event and wakes the sets that wait for    *)
(* it.                                                                      *)
LEMMA SignalEventFields ==
  ASSUME NEW r \in Registries, NEW e \in Handles,
         NEW q, q = SignalEvent(r, e)
  PROVE  IsSignaled(r, e, q)
<1> DEFINE x == [r.events[e[1]] EXCEPT !.signaled = TRUE]
           g == [r.events EXCEPT ![e[1]] = x]
           p == [r EXCEPT !.events = g]
           W == Waiters(r, e)
<1>4. e[1] \in 1 .. MaxEvents
  BY Zenon DEF Handles
<1>5. r.events[e[1]] \in EventSlots
  BY Zenon, <1>4, RegistryFields
<1>7. /\ x \in EventSlots
      /\ x.gen = r.events[e[1]].gen /\ x.owner = r.events[e[1]].owner /\ x.signaled = TRUE
  BY Zenon, <1>5 DEF EventSlots
<1> HIDE DEF x
<1>8. g \in [1 .. MaxEvents -> EventSlots] /\ \A i \in 1 .. MaxEvents : g[i] = IF i = e[1] THEN x ELSE r.events[i]
  BY Zenon, <1>4, <1>7, RegistryFields
<1>9. SignalEvent(r, e) = Wake(p, W)
  BY Zenon DEF SignalEvent, x
<1> HIDE DEF g, W
<1>10. p = [events |-> g, sets |-> r.sets, hw |-> r.hw, asleep |-> r.asleep]
  BY RegistryFields
<1> HIDE DEF p
<1>11. p \in Registries /\ p.events = g /\ p.sets = r.sets /\ p.hw = r.hw /\ p.asleep = r.asleep
  BY Zenon, <1>8, <1>10, RegistryFields DEF Registries
<1>12. /\ q \in Registries
       /\ q.events = g /\ q.sets = r.sets /\ q.hw = r.hw
       /\ \A o \in Services : q.asleep[o] = IF r.asleep[o] \in W THEN None ELSE r.asleep[o]
  BY <1>9, <1>11, WakeFields
<1>14. \A i \in 1 .. MaxEvents :
                /\ q.events[i].gen = r.events[i].gen
                /\ q.events[i].owner = r.events[i].owner
                /\ q.events[i].signaled = IF i = e[1] THEN TRUE ELSE r.events[i].signaled
  BY Zenon, <1>7, <1>8, <1>12
<1> QED BY Zenon, <1>14, <1>12 DEF W, IsSignaled

(* A member of the set is among the events.                                *)
Struck(r, i, E) ==
    r.sets[i].owner # None /\ \E k \in DOMAIN r.sets[i].members : r.sets[i].members[k] \in E

(* The sets that wait for one of some events.                               *)
Woken(r, E) == UNION {Waiters(r, e) : e \in E}

(* The events that some sets hold.                                          *)
Held(r, S) == UNION {Members(r, s) : s \in S}

(* An update of the event and the set slots, field by field.                *)
LEMMA EventsAndSets ==
  ASSUME NEW r \in Registries, NEW F, NEW G, NEW t, t = [r EXCEPT !.events = F, !.sets = G]
  PROVE  t = [events |-> F, sets |-> G, hw |-> r.hw, asleep |-> r.asleep]
<1>1. r = [events |-> r.events, sets |-> r.sets, hw |-> r.hw, asleep |-> r.asleep]
  BY Zenon, RegistryFields
<1> QED BY Zenon, <1>1

(* What is left of a registry r once the events E are destroyed.            *)
EventsDestroyed(r, E, q) ==
    /\ q \in Registries
    /\ \A i \in 1 .. MaxEvents :
         IF <<i, r.events[i].gen>> \in E
         THEN q.events[i].gen = r.events[i].gen + 1 /\ q.events[i].owner = None
              /\ q.events[i].signaled = FALSE
         ELSE q.events[i] = r.events[i]
    /\ \A i \in 1 .. MaxSets :
         /\ q.sets[i].gen = r.sets[i].gen
         /\ q.sets[i].owner = r.sets[i].owner
         /\ q.sets[i].waiting = IF Struck(r, i, E) THEN FALSE ELSE r.sets[i].waiting
         /\ q.sets[i].invalidated = IF Struck(r, i, E) THEN TRUE ELSE r.sets[i].invalidated
         /\ q.sets[i].members = IF Struck(r, i, E) THEN Without(r.sets[i].members, E) ELSE r.sets[i].members
    /\ \A h \in Sources :
         IF r.hw[h].event \in E
         THEN q.hw[h].event = None /\ q.hw[h].set = None /\ q.hw[h].pending = FALSE
         ELSE q.hw[h] = r.hw[h]
    /\ \A o \in Services : q.asleep[o] = IF r.asleep[o] \in Woken(r, E) THEN None ELSE r.asleep[o]

(* destroy_event_inner and its caller leave what EventsDestroyed says.      *)
LEMMA DestroyEventsFields ==
  ASSUME NEW r \in Registries, NEW E,
         NEW q, q = DestroyEvents(r, E)
  PROVE  EventsDestroyed(r, E, q)
<1> DEFINE W == UNION {Waiters(r, e) : e \in E}
           Hit(i) == r.sets[i].owner # None /\ \E k \in DOMAIN r.sets[i].members : r.sets[i].members[k] \in E
           y == [event |-> None, set |-> None, pending |-> FALSE]
           z(i) == [gen |-> r.events[i].gen + 1, owner |-> None, signaled |-> FALSE]
           x(i) == Invalidated(r.sets[i], E)
           F == [i \in 1 .. MaxEvents |-> IF <<i, r.events[i].gen>> \in E THEN z(i) ELSE r.events[i]]
           G == [i \in 1 .. MaxSets |-> IF Hit(i) THEN x(i) ELSE r.sets[i]]
           H == [h \in Sources |-> IF r.hw[h].event \in E THEN y ELSE r.hw[h]]
           p == Wake(r, W)
<1>1. p \in Registries /\ p.events = r.events /\ p.sets = r.sets /\ p.hw = r.hw
      /\ \A o \in Services : p.asleep[o] = IF r.asleep[o] \in W THEN None ELSE r.asleep[o]
  <2> HIDE DEF W
  <2> QED BY WakeFields
<1>2. ForgetEvents(p, E) = [p EXCEPT !.events = F, !.sets = G]
  <2> HIDE DEF p
  <2>1. ForgetEvents(p, E) =
    [p EXCEPT
        !.events = [i \in 1 .. MaxEvents |->
            IF <<i, p.events[i].gen>> \in E
            THEN [gen |-> p.events[i].gen + 1, owner |-> None, signaled |-> FALSE] ELSE p.events[i]],
        !.sets = [i \in 1 .. MaxSets |->
            IF p.sets[i].owner # None /\ \E k \in DOMAIN p.sets[i].members : p.sets[i].members[k] \in E
            THEN Invalidated(p.sets[i], E) ELSE p.sets[i]]]
    BY Zenon DEF ForgetEvents
  <2>2. p.events = r.events /\ p.sets = r.sets
    BY Zenon, <1>1
  <2> QED BY <2>1, <2>2, Zenon
<1>3. \A i \in 1 .. MaxEvents : z(i) \in EventSlots /\ z(i).gen = r.events[i].gen + 1 /\ z(i).owner = None /\ z(i).signaled = FALSE
  BY SlotFields DEF EventSlots
<1>4. F \in [1 .. MaxEvents -> EventSlots]
  <2> HIDE DEF z
  <2> QED BY Zenon, <1>3, RegistryFields
<1>5. ASSUME NEW i \in 1 .. MaxSets
      PROVE  /\ x(i) \in SetSlots /\ x(i).gen = r.sets[i].gen /\ x(i).owner = r.sets[i].owner
             /\ x(i).waiting = FALSE /\ x(i).invalidated = TRUE /\ x(i).members = Without(r.sets[i].members, E)
  <2>1. r.sets[i] \in SetSlots /\ r.sets[i].members \in Seq(Handles)
    BY Zenon, RegistryFields, SlotFields
  <2>2. Without(r.sets[i].members, E) \in Seq(Handles)
    BY Zenon, <2>1, WithoutRange
  <2> QED BY Zenon, <2>1, <2>2 DEF SetSlots, Invalidated
<1>6. G \in [1 .. MaxSets -> SetSlots]
  <2> HIDE DEF x, Hit
  <2> QED BY Zenon, <1>5, RegistryFields
<1>7. y \in Routes /\ y.event = None /\ y.set = None /\ y.pending = FALSE
  BY Zenon DEF Routes
<1>8. H \in [Sources -> Routes]
  <2> HIDE DEF y
  <2> QED BY Zenon, <1>7, RegistryFields
<1> DEFINE t == [p EXCEPT !.events = F, !.sets = G]
<1>9. t = [events |-> F, sets |-> G, hw |-> r.hw, asleep |-> p.asleep]
  <2> HIDE DEF p, F, G
  <2>1. t = [events |-> F, sets |-> G, hw |-> p.hw, asleep |-> p.asleep]
    BY <1>1, EventsAndSets, Zenon
  <2> QED BY <1>1, <2>1, Zenon
<1>10. t \in Registries /\ t.events = F /\ t.sets = G /\ t.hw = r.hw /\ t.asleep = p.asleep
  <2> HIDE DEF p, F, G, t
  <2> QED BY Zenon, <1>1, <1>4, <1>6, <1>9, RegistryFields DEF Registries
<1>11. q = ClearRoutes(t, E)
  BY <1>2, Zenon DEF DestroyEvents
<1>12. q = [t EXCEPT !.hw = H]
  <2> HIDE DEF t
  <2>1. ClearRoutes(t, E) = [t EXCEPT !.hw = [h \in Sources |-> IF t.hw[h].event \in E THEN y ELSE t.hw[h]]]
    BY Zenon DEF ClearRoutes
  <2> QED BY <2>1, <1>10, <1>11, Zenon
<1>13. q \in Registries /\ q.events = F /\ q.sets = G /\ q.hw = H /\ q.asleep = p.asleep
  <2> HIDE DEF t, H, F, G, p
  <2>1. q = [events |-> F, sets |-> G, hw |-> H, asleep |-> p.asleep]
    BY Zenon, <1>10, <1>12, RegistryFields
  <2> QED BY Zenon, <2>1, <1>8, <1>10, RegistryFields DEF Registries
<1>14. ASSUME NEW i \in 1 .. MaxEvents
       PROVE  IF <<i, r.events[i].gen>> \in E
              THEN q.events[i].gen = r.events[i].gen + 1 /\ q.events[i].owner = None
                   /\ q.events[i].signaled = FALSE
              ELSE q.events[i] = r.events[i]
  <2>1. F[i] = IF <<i, r.events[i].gen>> \in E THEN z(i) ELSE r.events[i]
    BY Zenon
  <2> HIDE DEF F, z
  <2> QED BY Zenon, <2>1, <1>13, <1>3
<1>15. ASSUME NEW i \in 1 .. MaxSets
       PROVE  /\ q.sets[i].gen = r.sets[i].gen
              /\ q.sets[i].owner = r.sets[i].owner
              /\ q.sets[i].waiting = IF Hit(i) THEN FALSE ELSE r.sets[i].waiting
              /\ q.sets[i].invalidated = IF Hit(i) THEN TRUE ELSE r.sets[i].invalidated
              /\ q.sets[i].members = IF Hit(i) THEN Without(r.sets[i].members, E) ELSE r.sets[i].members
  <2> HIDE DEF Hit, x
  <2>1. G[i] = IF Hit(i) THEN x(i) ELSE r.sets[i]
    BY Zenon
  <2> HIDE DEF G
  <2>2. q.sets[i] = IF Hit(i) THEN x(i) ELSE r.sets[i]
    BY Zenon, <2>1, <1>13
  <2>3. CASE Hit(i)
    BY Zenon, <2>2, <2>3, <1>5
  <2>4. CASE ~Hit(i)
    BY Zenon, <2>2, <2>4
  <2> QED BY Zenon, <2>3, <2>4
<1>16. ASSUME NEW h \in Sources
       PROVE  IF r.hw[h].event \in E
              THEN q.hw[h].event = None /\ q.hw[h].set = None /\ q.hw[h].pending = FALSE
              ELSE q.hw[h] = r.hw[h]
  <2>1. H[h] = IF r.hw[h].event \in E THEN y ELSE r.hw[h]
    BY Zenon
  <2> HIDE DEF H, y
  <2> QED BY Zenon, <2>1, <1>13, <1>7
<1>17. \A o \in Services : q.asleep[o] = IF r.asleep[o] \in W THEN None ELSE r.asleep[o]
  <2> HIDE DEF p, W
  <2> QED BY Zenon, <1>1, <1>13
<1>18. q \in Registries
  BY Zenon, <1>13
<1> HIDE DEF W, Hit
<1> QED BY <1>14, <1>15, <1>16, <1>17, <1>18, Zenon DEF W, Hit, Struck, Woken, EventsDestroyed

(* What is left of a registry r once the sets S are destroyed.              *)
SetsDestroyed(r, S, q) ==
    /\ q \in Registries
    /\ q.events = r.events
    /\ \A i \in 1 .. MaxSets :
         IF <<i, r.sets[i].gen>> \in S
         THEN q.sets[i].gen = r.sets[i].gen + 1 /\ q.sets[i].owner = None /\ q.sets[i].members = << >>
              /\ q.sets[i].waiting = FALSE /\ q.sets[i].invalidated = FALSE
         ELSE q.sets[i] = r.sets[i]
    /\ \A h \in Sources : /\ q.hw[h].event = r.hw[h].event
                          /\ q.hw[h].pending = r.hw[h].pending
                          /\ q.hw[h].set = IF r.hw[h].event \in Held(r, S) /\ r.hw[h].set \in S
                                           THEN None ELSE r.hw[h].set
    /\ \A o \in Services : q.asleep[o] = IF r.asleep[o] \in {s \in S : r.sets[s[1]].waiting} THEN None ELSE r.asleep[o]

(* destroy_event_set_inner leaves what SetsDestroyed says.                  *)
LEMMA DestroySetsFields ==
  ASSUME NEW r \in Registries, NEW S,
         NEW q, q = DestroySets(r, S)
  PROVE  SetsDestroyed(r, S, q)
<1> DEFINE W == {s \in S : r.sets[s[1]].waiting}
           M == UNION {Members(r, s) : s \in S}
           x(i) == [gen |-> r.sets[i].gen + 1, owner |-> None, members |-> << >>,
                    waiting |-> FALSE, invalidated |-> FALSE]
           G == [i \in 1 .. MaxSets |-> IF <<i, r.sets[i].gen>> \in S THEN x(i) ELSE r.sets[i]]
           p == Wake(r, W)
           t == Unbind(p, M, S)
<1>1. p \in Registries /\ p.events = r.events /\ p.sets = r.sets /\ p.hw = r.hw
      /\ \A o \in Services : p.asleep[o] = IF r.asleep[o] \in W THEN None ELSE r.asleep[o]
  <2> HIDE DEF W
  <2> QED BY WakeFields
<1>2. /\ t \in Registries /\ t.events = p.events /\ t.sets = p.sets /\ t.asleep = p.asleep
      /\ \A h \in Sources : /\ t.hw[h].event = p.hw[h].event
                            /\ t.hw[h].pending = p.hw[h].pending
                            /\ t.hw[h].set = IF p.hw[h].event \in M /\ p.hw[h].set \in S
                                             THEN None ELSE p.hw[h].set
  <2> HIDE DEF p, M
  <2> QED BY <1>1, UnbindFields
<1>3. q = [t EXCEPT !.sets = [i \in 1 .. MaxSets |-> 
              IF <<i, t.sets[i].gen>> \in S
              THEN [gen |-> t.sets[i].gen + 1, owner |-> None, members |-> << >>,
                    waiting |-> FALSE, invalidated |-> FALSE]
              ELSE t.sets[i]]]
  BY Zenon DEF DestroySets
<1> HIDE DEF t, p, W, M
<1>4. t.sets = r.sets
  BY Zenon, <1>1, <1>2
<1>5. q = [t EXCEPT !.sets = G]
  BY <1>3, <1>4, Zenon
<1>6. \A i \in 1 .. MaxSets : /\ x(i) \in SetSlots /\ x(i).gen = r.sets[i].gen + 1 /\ x(i).owner = None
                              /\ x(i).members = << >> /\ x(i).waiting = FALSE /\ x(i).invalidated = FALSE
  <2>1. << >> \in Seq(Handles)
    OBVIOUS
  <2> QED BY <2>1, SlotFields DEF SetSlots
<1> HIDE DEF x
<1>7. G \in [1 .. MaxSets -> SetSlots] /\ \A i \in 1 .. MaxSets : G[i] = IF <<i, r.sets[i].gen>> \in S THEN x(i) ELSE r.sets[i]
  BY Zenon, <1>6, RegistryFields
<1> HIDE DEF G
<1>8. q = [events |-> t.events, sets |-> G, hw |-> t.hw, asleep |-> t.asleep]
  <2>1. t = [events |-> t.events, sets |-> t.sets, hw |-> t.hw, asleep |-> t.asleep]
    BY Zenon, <1>2, RegistryFields
  <2> QED BY Zenon, <2>1, <1>5
<1>9. q \in Registries /\ q.events = t.events /\ q.sets = G /\ q.hw = t.hw /\ q.asleep = t.asleep
  BY <1>2, <1>7, <1>8, RegistryFields DEF Registries
<1>10. ASSUME NEW i \in 1 .. MaxSets
       PROVE  IF <<i, r.sets[i].gen>> \in S
              THEN q.sets[i].gen = r.sets[i].gen + 1 /\ q.sets[i].owner = None /\ q.sets[i].members = << >>
                   /\ q.sets[i].waiting = FALSE /\ q.sets[i].invalidated = FALSE
              ELSE q.sets[i] = r.sets[i]
  BY Zenon, <1>6, <1>7, <1>9
<1>11. \A h \in Sources : /\ q.hw[h].event = r.hw[h].event
                          /\ q.hw[h].pending = r.hw[h].pending
                          /\ q.hw[h].set = IF r.hw[h].event \in M /\ r.hw[h].set \in S
                                           THEN None ELSE r.hw[h].set
  BY Zenon, <1>1, <1>2, <1>9
<1>12. \A o \in Services : q.asleep[o] = IF r.asleep[o] \in W THEN None ELSE r.asleep[o]
  BY Zenon, <1>1, <1>2, <1>9
<1>13. q \in Registries /\ q.events = r.events
  BY Zenon, <1>1, <1>2, <1>9
<1> QED BY <1>10, <1>11, <1>12, <1>13, Zenon DEF W, M, Held, SetsDestroyed

(* What a registry that starts over with generation n looks like.           *)
IsFresh(n, q) ==
    /\ q \in Registries
    /\ \A i \in 1 .. MaxEvents : /\ q.events[i].gen = n /\ q.events[i].signaled = FALSE
                                 /\ q.events[i].owner = IF i \in Sources THEN Driver ELSE None
    /\ \A i \in 1 .. MaxSets : /\ q.sets[i].gen = n /\ q.sets[i].owner = None
                               /\ q.sets[i].members = << >>
                               /\ q.sets[i].waiting = FALSE /\ q.sets[i].invalidated = FALSE
    /\ \A h \in Sources : q.hw[h].event = <<h, n>> /\ q.hw[h].set = None /\ q.hw[h].pending = FALSE
    /\ \A o \in Services : q.asleep[o] = None

(* The registry of a graph that starts over is a registry.                  *)
LEMMA NewRegistryFields ==
  ASSUME NEW n \in Nat,
         NEW q, q = NewRegistry(n)
  PROVE  IsFresh(n, q)
<1> DEFINE F == [i \in 1 .. MaxEvents |->
                    [gen |-> n, owner |-> IF i \in Sources THEN Driver ELSE None, signaled |-> FALSE]]
           x == [gen |-> n, owner |-> None, members |-> << >>, waiting |-> FALSE, invalidated |-> FALSE]
           G == [i \in 1 .. MaxSets |-> x]
           H == [h \in Sources |-> [event |-> <<h, n>>, set |-> None, pending |-> FALSE]]
           Z == [o \in Services |-> None]
<1>1. q = [events |-> F, sets |-> G, hw |-> H, asleep |-> Z]
  BY Zenon DEF NewRegistry
<1>2. F \in [1 .. MaxEvents -> EventSlots]
      /\ \A i \in 1 .. MaxEvents : /\ F[i].gen = n /\ F[i].signaled = FALSE
                                   /\ F[i].owner = IF i \in Sources THEN Driver ELSE None
  BY Zenon, DriverAssumption DEF EventSlots
<1>3. /\ x \in SetSlots /\ x.gen = n /\ x.owner = None /\ x.members = << >>
      /\ x.waiting = FALSE /\ x.invalidated = FALSE
  <2>1. << >> \in Seq(Handles)
    OBVIOUS
  <2> QED BY Zenon, <2>1 DEF SetSlots
<1>4. G \in [1 .. MaxSets -> SetSlots] /\ \A i \in 1 .. MaxSets : G[i] = x
  BY Zenon, <1>3
<1>5. H \in [Sources -> Routes]
      /\ \A h \in Sources : H[h].event = <<h, n>> /\ H[h].set = None /\ H[h].pending = FALSE
  <2>1. ASSUME NEW h \in Sources PROVE <<h, n>> \in Handles
    BY BoundsAssumption DEF Sources, Handles
  <2> QED BY Zenon, <2>1 DEF Routes
<1>6. Z \in [Services -> SetHandles \cup {None}] /\ \A o \in Services : Z[o] = None
  BY Zenon
<1> HIDE DEF F, G, H, Z, x
<1>7. q \in Registries
  BY <1>1, <1>2, <1>4, <1>5, <1>6 DEF Registries
<1>8. q.events = F /\ q.sets = G /\ q.hw = H /\ q.asleep = Z
  BY <1>1
<1>9. /\ \A i \in 1 .. MaxEvents : /\ q.events[i].gen = n /\ q.events[i].signaled = FALSE
                                   /\ q.events[i].owner = IF i \in Sources THEN Driver ELSE None
      /\ \A i \in 1 .. MaxSets : /\ q.sets[i].gen = n /\ q.sets[i].owner = None
                                    /\ q.sets[i].members = << >>
                                    /\ q.sets[i].waiting = FALSE /\ q.sets[i].invalidated = FALSE
      /\ \A h \in Sources : q.hw[h].event = <<h, n>> /\ q.hw[h].set = None /\ q.hw[h].pending = FALSE
      /\ \A o \in Services : q.asleep[o] = None
  BY Zenon, <1>2, <1>3, <1>4, <1>5, <1>6, <1>8
<1> QED BY Zenon, <1>7, <1>9 DEF IsFresh

(* What is left of a registry r once the event e has been consumed through  *)
(* the set s.                                                               *)
IsConsumed(r, s, e, q) ==
    /\ q \in Registries
    /\ q.asleep = r.asleep
    /\ \A i \in 1 .. MaxEvents :
         /\ q.events[i].gen = r.events[i].gen /\ q.events[i].owner = r.events[i].owner
         /\ q.events[i].signaled = IF i = e[1] THEN FALSE ELSE r.events[i].signaled
    /\ \A i \in 1 .. MaxSets :
         /\ q.sets[i].gen = r.sets[i].gen /\ q.sets[i].owner = r.sets[i].owner
         /\ q.sets[i].members = r.sets[i].members /\ q.sets[i].invalidated = r.sets[i].invalidated
         /\ q.sets[i].waiting = IF i = s[1] THEN FALSE ELSE r.sets[i].waiting
    /\ \A h \in Sources :
         /\ q.hw[h].event = r.hw[h].event /\ q.hw[h].set = r.hw[h].set
         /\ q.hw[h].pending = IF r.hw[h].event = e THEN FALSE ELSE r.hw[h].pending

(* consume_event leaves what IsConsumed says.                               *)
LEMMA ConsumedFields ==
  ASSUME NEW r \in Registries, NEW s \in SetHandles, NEW e \in Handles,
         NEW q, q = Consumed(r, s, e)
  PROVE  IsConsumed(r, s, e, q)
<1> DEFINE x == [r.events[e[1]] EXCEPT !.signaled = FALSE]
           F == [r.events EXCEPT ![e[1]] = x]
           y == [r.sets[s[1]] EXCEPT !.waiting = FALSE]
           G == [r.sets EXCEPT ![s[1]] = y]
           z(h) == [r.hw[h] EXCEPT !.pending = FALSE]
           H == [h \in Sources |-> IF r.hw[h].event = e THEN z(h) ELSE r.hw[h]]
<1>1. q = [r EXCEPT !.events = F, !.sets = G, !.hw = H]
  BY Zenon DEF Consumed
<1>2. e[1] \in 1 .. MaxEvents /\ s[1] \in 1 .. MaxSets
  BY Zenon DEF Handles, SetHandles
<1>3. /\ x \in EventSlots
      /\ x.gen = r.events[e[1]].gen /\ x.owner = r.events[e[1]].owner /\ x.signaled = FALSE
  <2>1. r.events[e[1]] \in EventSlots
    BY Zenon, <1>2, RegistryFields
  <2> QED BY Zenon, <2>1 DEF EventSlots
<1>4. /\ y \in SetSlots
      /\ y.gen = r.sets[s[1]].gen /\ y.owner = r.sets[s[1]].owner /\ y.members = r.sets[s[1]].members
      /\ y.invalidated = r.sets[s[1]].invalidated /\ y.waiting = FALSE
  <2>1. r.sets[s[1]] \in SetSlots
    BY Zenon, <1>2, RegistryFields
  <2> QED BY Zenon, <2>1 DEF SetSlots
<1>5. \A h \in Sources : /\ z(h) \in Routes
                         /\ z(h).event = r.hw[h].event /\ z(h).set = r.hw[h].set /\ z(h).pending = FALSE
  <2> TAKE h \in Sources
  <2>1. r.hw[h] \in Routes
    BY Zenon, RegistryFields
  <2> QED BY Zenon, <2>1 DEF Routes
<1> HIDE DEF x, y, z
<1>6. F \in [1 .. MaxEvents -> EventSlots] /\ \A i \in 1 .. MaxEvents : F[i] = IF i = e[1] THEN x ELSE r.events[i]
  BY Zenon, <1>2, <1>3, RegistryFields
<1>7. G \in [1 .. MaxSets -> SetSlots] /\ \A i \in 1 .. MaxSets : G[i] = IF i = s[1] THEN y ELSE r.sets[i]
  BY Zenon, <1>2, <1>4, RegistryFields
<1>8. H \in [Sources -> Routes] /\ \A h \in Sources : H[h] = IF r.hw[h].event = e THEN z(h) ELSE r.hw[h]
  BY Zenon, <1>5, RegistryFields
<1> HIDE DEF F, G, H
<1>9. q = [events |-> F, sets |-> G, hw |-> H, asleep |-> r.asleep]
  <2>1. r = [events |-> r.events, sets |-> r.sets, hw |-> r.hw, asleep |-> r.asleep]
    BY Zenon, RegistryFields
  <2> QED BY Zenon, <2>1, <1>1
<1>10. q \in Registries /\ q.events = F /\ q.sets = G /\ q.hw = H /\ q.asleep = r.asleep
  BY <1>6, <1>7, <1>8, <1>9, RegistryFields DEF Registries
<1>11. \A i \in 1 .. MaxEvents :
              /\ q.events[i].gen = r.events[i].gen /\ q.events[i].owner = r.events[i].owner
              /\ q.events[i].signaled = IF i = e[1] THEN FALSE ELSE r.events[i].signaled
  BY Zenon, <1>3, <1>6, <1>10
<1>12. \A i \in 1 .. MaxSets :
              /\ q.sets[i].gen = r.sets[i].gen /\ q.sets[i].owner = r.sets[i].owner
              /\ q.sets[i].members = r.sets[i].members /\ q.sets[i].invalidated = r.sets[i].invalidated
              /\ q.sets[i].waiting = IF i = s[1] THEN FALSE ELSE r.sets[i].waiting
  BY Zenon, <1>4, <1>7, <1>10
<1>13. \A h \in Sources :
              /\ q.hw[h].event = r.hw[h].event /\ q.hw[h].set = r.hw[h].set
              /\ q.hw[h].pending = IF r.hw[h].event = e THEN FALSE ELSE r.hw[h].pending
  BY Zenon, <1>5, <1>8, <1>10
<1> QED BY <1>10, <1>11, <1>12, <1>13, Zenon DEF IsConsumed

(* What is left of a registry r once the waiting flag of the set s is set   *)
(* to b.                                                                    *)
IsPublished(r, s, b, q) ==
    /\ q \in Registries
    /\ q.events = r.events /\ q.hw = r.hw /\ q.asleep = r.asleep
    /\ \A i \in 1 .. MaxSets :
         /\ q.sets[i].gen = r.sets[i].gen /\ q.sets[i].owner = r.sets[i].owner
         /\ q.sets[i].members = r.sets[i].members /\ q.sets[i].invalidated = r.sets[i].invalidated
         /\ q.sets[i].waiting = IF i = s[1] THEN b ELSE r.sets[i].waiting

(* The store that publishes a waiter or takes the publication back.         *)
Publishes(r, s, b, q) == q = [r EXCEPT !.sets[s[1]].waiting = b]

(* Publishing a waiter, or taking the publication back, leaves what         *)
(* IsPublished says.                                                        *)
LEMMA WaitingTables ==
  ASSUME NEW r \in Registries, NEW s \in SetHandles, NEW b \in BOOLEAN,
         NEW q, Publishes(r, s, b, q)
  PROVE  IsPublished(r, s, b, q)
<1> DEFINE y == [r.sets[s[1]] EXCEPT !.waiting = b]
           G == [r.sets EXCEPT ![s[1]] = y]
<1>1. q = [r EXCEPT !.sets = G]
  BY Zenon DEF Publishes
<1>2. s[1] \in 1 .. MaxSets
  BY Zenon DEF SetHandles
<1>4. /\ y \in SetSlots
      /\ y.gen = r.sets[s[1]].gen /\ y.owner = r.sets[s[1]].owner /\ y.members = r.sets[s[1]].members
      /\ y.invalidated = r.sets[s[1]].invalidated /\ y.waiting = b
  <2>1. r.sets[s[1]] \in SetSlots
    BY Zenon, <1>2, RegistryFields
  <2> QED BY Zenon, <2>1 DEF SetSlots
<1> HIDE DEF y
<1>7. G \in [1 .. MaxSets -> SetSlots] /\ \A i \in 1 .. MaxSets : G[i] = IF i = s[1] THEN y ELSE r.sets[i]
  BY Zenon, <1>2, <1>4, RegistryFields
<1> HIDE DEF G
<1>9. q = [events |-> r.events, sets |-> G, hw |-> r.hw, asleep |-> r.asleep]
  <2>1. r = [events |-> r.events, sets |-> r.sets, hw |-> r.hw, asleep |-> r.asleep]
    BY Zenon, RegistryFields
  <2> QED BY Zenon, <2>1, <1>1
<1>10. q \in Registries /\ q.events = r.events /\ q.sets = G /\ q.hw = r.hw /\ q.asleep = r.asleep
  BY SMT, <1>7, <1>9, RegistryFields, Assembled
<1>12. \A i \in 1 .. MaxSets :
              /\ q.sets[i].gen = r.sets[i].gen /\ q.sets[i].owner = r.sets[i].owner
              /\ q.sets[i].members = r.sets[i].members /\ q.sets[i].invalidated = r.sets[i].invalidated
              /\ q.sets[i].waiting = IF i = s[1] THEN b ELSE r.sets[i].waiting
  <2> TAKE i \in 1 .. MaxSets
  <2>1. CASE i = s[1]
    BY Zenon, <2>1, <1>4, <1>7, <1>10
  <2>2. CASE i # s[1]
    <3>1. q.sets[i] = r.sets[i]
      BY Zenon, <2>2, <1>7, <1>10
    <3> QED BY Zenon, <2>2, <3>1
  <2> QED BY Zenon, <2>1, <2>2
<1> QED BY Zenon, <1>10, <1>12 DEF IsPublished

(* The same, with the update written out.                                    *)
LEMMA WaitingFields ==
  ASSUME NEW r \in Registries, NEW s \in SetHandles, NEW b \in BOOLEAN,
         NEW q, q = [r EXCEPT !.sets[s[1]].waiting = b]
  PROVE  IsPublished(r, s, b, q)
BY Zenon, WaitingTables DEF Publishes

(* q is r with service o asleep on s, or awake.                             *)
IsAsleep(r, o, s, q) ==
    /\ q \in Registries
    /\ q.events = r.events /\ q.sets = r.sets /\ q.hw = r.hw
    /\ \A c \in Services : q.asleep[c] = IF c = o THEN s ELSE r.asleep[c]

(* The store that puts a service to sleep or wakes it.                      *)
Sleeps(r, o, s, q) == q = [r EXCEPT !.asleep[o] = s]

(* A service that falls asleep or wakes changes nothing else.               *)
LEMMA AsleepTables ==
  ASSUME NEW r \in Registries, NEW o \in Services, NEW s \in SetHandles \cup {None},
         NEW q, Sleeps(r, o, s, q)
  PROVE  IsAsleep(r, o, s, q)
<1> DEFINE G == [r.asleep EXCEPT ![o] = s]
<1>1. q = [r EXCEPT !.asleep = G]
  BY Zenon DEF Sleeps
<1>7. G \in [Services -> SetHandles \cup {None}] /\ \A c \in Services : G[c] = IF c = o THEN s ELSE r.asleep[c]
  BY Zenon, RegistryFields
<1> HIDE DEF G
<1>9. q = [events |-> r.events, sets |-> r.sets, hw |-> r.hw, asleep |-> G]
  <2>1. r = [events |-> r.events, sets |-> r.sets, hw |-> r.hw, asleep |-> r.asleep]
    BY Zenon, RegistryFields
  <2> QED BY Zenon, <2>1, <1>1
<1>10. q \in Registries /\ q.events = r.events /\ q.sets = r.sets /\ q.hw = r.hw /\ q.asleep = G
  BY SMT, <1>7, <1>9, RegistryFields, Assembled
<1> QED BY Zenon, <1>7, <1>10 DEF IsAsleep

(* The same, with the update written out.                                    *)
LEMMA AsleepFields ==
  ASSUME NEW r \in Registries, NEW o \in Services, NEW s \in SetHandles \cup {None},
         NEW q, q = [r EXCEPT !.asleep[o] = s]
  PROVE  IsAsleep(r, o, s, q)
BY Zenon, AsleepTables DEF Sleeps

(* q is r with the pending flag of source h set.                            *)
IsPended(r, h, q) ==
    /\ q \in Registries
    /\ q.events = r.events /\ q.sets = r.sets /\ q.asleep = r.asleep
    /\ \A g \in Sources :
         /\ q.hw[g].event = r.hw[g].event /\ q.hw[g].set = r.hw[g].set
         /\ q.hw[g].pending = IF g = h THEN TRUE ELSE r.hw[g].pending

(* The store of the interrupt handler.                                      *)
Pends(r, h, q) == q = [r EXCEPT !.hw[h].pending = TRUE]

(* A pending hardware event changes nothing but that route.                 *)
LEMMA PendingTables ==
  ASSUME NEW r \in Registries, NEW h \in Sources,
         NEW q, Pends(r, h, q)
  PROVE  IsPended(r, h, q)
<1> DEFINE z == [r.hw[h] EXCEPT !.pending = TRUE]
           H == [r.hw EXCEPT ![h] = z]
<1>1. q = [r EXCEPT !.hw = H]
  BY Zenon DEF Pends
<1>5. z \in Routes /\ z.event = r.hw[h].event /\ z.set = r.hw[h].set /\ z.pending = TRUE
  <2>1. r.hw[h] \in Routes
    BY Zenon, RegistryFields
  <2> QED BY Zenon, <2>1 DEF Routes
<1> HIDE DEF z
<1>8. H \in [Sources -> Routes] /\ \A g \in Sources : H[g] = IF g = h THEN z ELSE r.hw[g]
  BY Zenon, <1>5, RegistryFields
<1> HIDE DEF H
<1>9. q = [events |-> r.events, sets |-> r.sets, hw |-> H, asleep |-> r.asleep]
  <2>1. r = [events |-> r.events, sets |-> r.sets, hw |-> r.hw, asleep |-> r.asleep]
    BY Zenon, RegistryFields
  <2> QED BY Zenon, <2>1, <1>1
<1>10. q \in Registries /\ q.events = r.events /\ q.sets = r.sets /\ q.hw = H /\ q.asleep = r.asleep
  BY SMT, <1>8, <1>9, RegistryFields, Assembled
<1>11. \A g \in Sources :
              /\ q.hw[g].event = r.hw[g].event /\ q.hw[g].set = r.hw[g].set
              /\ q.hw[g].pending = IF g = h THEN TRUE ELSE r.hw[g].pending
  <2> TAKE g \in Sources
  <2>1. CASE g = h
    BY Zenon, <2>1, <1>5, <1>8, <1>10
  <2>2. CASE g # h
    <3>1. q.hw[g] = r.hw[g]
      BY Zenon, <2>2, <1>8, <1>10
    <3> QED BY Zenon, <2>2, <3>1
  <2> QED BY Zenon, <2>1, <2>2
<1> QED BY Zenon, <1>10, <1>11 DEF IsPended

(* The same, with the update written out.                                    *)
LEMMA PendingFields ==
  ASSUME NEW r \in Registries, NEW h \in Sources,
         NEW q, q = [r EXCEPT !.hw[h].pending = TRUE]
  PROVE  IsPended(r, h, q)
BY Zenon, PendingTables DEF Pends


(* The event is in the list of members of the set in slot i.               *)
InSet(r, i, e) == \E k \in DOMAIN r.sets[i].members : r.sets[i].members[k] = e

(* Only a live set has members, and they are live events of its owner.     *)
MembersOK(r) ==
    \A i \in 1 .. MaxSets : \A e \in Handles : InSet(r, i, e) =>
        /\ r.sets[i].owner # None
        /\ r.events[e[1]].gen = e[2]
        /\ r.events[e[1]].owner = r.sets[i].owner

(* Nothing is owned by a service that does not run.                        *)
OwnersOK(r, R) ==
    /\ \A i \in 1 .. MaxEvents : r.events[i].owner \in R \cup {None}
    /\ \A i \in 1 .. MaxSets : r.sets[i].owner \in R \cup {None}

(* The router names live events, and for each the live set it is in.       *)
RoutesOK(r) ==
    \A h \in Sources :
        /\ r.hw[h].event # None => LiveEvent(r, r.hw[h].event)
        /\ r.hw[h].set # None => /\ LiveSet(r, r.hw[h].set)
                                 /\ r.hw[h].event # None
                                 /\ InSet(r, r.hw[h].set[1], r.hw[h].event)

(* A sleeper sleeps on a published, valid set of its own.                  *)
SleepOK(r, R) ==
    \A o \in Services : r.asleep[o] # None =>
        /\ o \in R
        /\ LiveSet(r, r.asleep[o])
        /\ r.sets[r.asleep[o][1]].owner = o
        /\ r.sets[r.asleep[o][1]].waiting
        /\ ~r.sets[r.asleep[o][1]].invalidated

(* Sets, owners, router and sleepers name only what is live.                *)
Sound(r, R) == MembersOK(r) /\ OwnersOK(r, R) /\ RoutesOK(r) /\ SleepOK(r, R)

(* The wait under the lock: its caller runs and still owns the set, sleeps *)
(* only after the registration, and the set is published from then on.     *)
CallOK(r, R, x) ==
    x.pc # "free" =>
        /\ x.owner \in R
        /\ x.set # None
        /\ LiveSet(r, x.set)
        /\ r.sets[x.set[1]].owner = x.owner
        /\ ~r.sets[x.set[1]].invalidated
        /\ x.i >= 1
        /\ x.pc \in {"scan", "consume", "register"} => r.asleep[x.owner] = None
        /\ x.pc \in {"register", "recheck"} => r.sets[x.set[1]].waiting
        /\ x.pc = "consume" => x.i \in DOMAIN r.sets[x.set[1]].members
        /\ x.pc = "register" => x.i = 1
        /\ x.pc = "recheck" => r.asleep[x.owner] \in {None, x.set}

(* What is owed is live and ready.                                         *)
KeptOK(r, W) == \A e \in W : LiveEvent(r, e) /\ Ready(r, e)

(* A hardware event that is in a set is bound to that set.                 *)
BoundOK(r) ==
    \A h \in Sources : \A i \in 1 .. MaxSets :
        r.hw[h].event # None /\ InSet(r, i, r.hw[h].event) => r.hw[h].set = <<i, r.sets[i].gen>>

(* A handler is going to wake the set.                                     *)
Coming(r, I, s) ==
    \E h \in Sources : \/ I[h].pc = "load" /\ r.hw[h].set = s
                       \/ I[h].pc = "wake" /\ I[h].set = s

(* The recheck of the service has yet to look at the event.                *)
Ahead(r, x, o, e) ==
    /\ x.pc = "recheck" /\ x.owner = o
    /\ \E k \in DOMAIN r.sets[x.set[1]].members : k >= x.i /\ r.sets[x.set[1]].members[k] = e

(* A ready member of a sleeper's set has a wake on its way.                *)
PromptOK(r, x, I) ==
    \A o \in Services : \A e \in Handles :
        r.asleep[o] # None /\ InSet(r, r.asleep[o][1], e) /\ Ready(r, e)
            => Coming(r, I, r.asleep[o]) \/ Ahead(r, x, o, e)

(* What holds of the registry r with the running services R, the call x,    *)
(* the interrupt handlers I and the signals W that are owed. The last part  *)
(* needs every hardware event in one set at most.                           *)
Good(r, R, x, I, W) ==
    /\ Sound(r, R) /\ CallOK(r, R, x) /\ KeptOK(r, W)
    /\ ~SharedHardware => BoundOK(r) /\ PromptOK(r, x, I)

(* The inductive invariant of the event registry.                           *)
EInv == TypeOK /\ Good(reg, running, op, isr, owed)

(* Handles are pairs of a slot and a generation, and None is not one.       *)
LEMMA Pairs ==
  /\ \A e \in Handles : e = <<e[1], e[2]>> /\ e[1] \in 1 .. MaxEvents /\ e[2] \in Nat /\ e # None
  /\ \A s \in SetHandles : s = <<s[1], s[2]>> /\ s[1] \in 1 .. MaxSets /\ s[2] \in Nat /\ s # None
<1>1. Handles \subseteq Nat \X Nat /\ SetHandles \subseteq Nat \X Nat
  BY BoundsAssumption DEF Handles, SetHandles
<1>2. None \notin Handles /\ None \notin SetHandles
  BY Zenon, <1>1, NoHandleAssumption
<1> QED BY <1>2 DEF Handles, SetHandles

(* None is not a service.                                                   *)
LEMMA NoneOwner == None \notin Services
BY Zenon, NoHandleAssumption

(* A slot and its generation make up a handle.                              *)
LEMMA Slots ==
  ASSUME NEW r \in Registries
  PROVE  /\ \A i \in 1 .. MaxEvents : <<i, r.events[i].gen>> \in Handles
         /\ \A i \in 1 .. MaxSets : <<i, r.sets[i].gen>> \in SetHandles
BY Zenon, SlotFields DEF Handles, SetHandles

(* The live events and sets, by slot or by handle.                          *)
LEMMA LiveIn ==
  ASSUME NEW r \in Registries
  PROVE  /\ LiveEvents(r) \subseteq Handles
         /\ LiveSets(r) \subseteq SetHandles
         /\ \A e \in Handles : e \in LiveEvents(r) <=> LiveEvent(r, e)
         /\ \A s \in SetHandles : s \in LiveSets(r) <=> LiveSet(r, s)
<1>1. LiveEvents(r) \subseteq Handles /\ LiveSets(r) \subseteq SetHandles
  BY Zenon, Slots DEF LiveEvents, LiveSets
<1>2. ASSUME NEW e \in Handles PROVE e \in LiveEvents(r) <=> LiveEvent(r, e)
  <2>1. e = <<e[1], e[2]>> /\ e[1] \in 1 .. MaxEvents
    BY Zenon, Pairs
  <2> QED BY <2>1 DEF LiveEvents, LiveEvent
<1>3. ASSUME NEW s \in SetHandles PROVE s \in LiveSets(r) <=> LiveSet(r, s)
  <2>1. s = <<s[1], s[2]>> /\ s[1] \in 1 .. MaxSets
    BY Zenon, Pairs
  <2> QED BY <2>1 DEF LiveSets, LiveSet
<1> QED BY Zenon, <1>1, <1>2, <1>3

(* Members and InSet say the same.                                          *)
LEMMA MembersIn ==
  ASSUME NEW r, NEW s, NEW e
  PROVE  e \in Members(r, s) <=> InSet(r, s[1], e)
BY Zenon DEF Members, InSet

(* Members of a set are event handles.                                      *)
LEMMA InSetHandle ==
  ASSUME NEW r \in Registries, NEW i \in 1 .. MaxSets, NEW e, InSet(r, i, e)
  PROVE  e \in Handles
BY SlotFields DEF InSet

(* The sets a signal wakes: live, published and holding the event.          *)
LEMMA WaitersIn ==
  ASSUME NEW r \in Registries, NEW s \in SetHandles, NEW e
  PROVE  s \in Waiters(r, e) <=> LiveSet(r, s) /\ r.sets[s[1]].waiting /\ InSet(r, s[1], e)
BY Zenon, LiveIn, MembersIn DEF Waiters

(* What a service owns is live and names it as the owner.                   *)
LEMMA OwnedIn ==
  ASSUME NEW r \in Registries, NEW o
  PROVE  /\ EventsOf(r, o) \subseteq Handles
         /\ SetsOf(r, o) \subseteq SetHandles
         /\ \A e \in Handles : e \in EventsOf(r, o) <=> LiveEvent(r, e) /\ r.events[e[1]].owner = o
         /\ \A s \in SetHandles : s \in SetsOf(r, o) <=> LiveSet(r, s) /\ r.sets[s[1]].owner = o
BY Zenon, LiveIn DEF EventsOf, SetsOf

(* The elements of a sequence with one more.                                *)
LEMMA InAppend ==
  ASSUME NEW q \in Seq(Handles), NEW e \in Handles, NEW x
  PROVE  (\E k \in DOMAIN Append(q, e) : Append(q, e)[k] = x)
            <=> x = e \/ \E k \in DOMAIN q : q[k] = x
<1>1. DOMAIN Append(q, e) = DOMAIN q \cup {Len(q) + 1} /\ Append(q, e)[Len(q) + 1] = e
      /\ \A k \in DOMAIN q : Append(q, e)[k] = q[k]
  OBVIOUS
<1> QED BY Zenon, <1>1

(* The elements of a sequence with some dropped.                            *)
LEMMA InWithout ==
  ASSUME NEW q \in Seq(Handles), NEW E, NEW x
  PROVE  (\E k \in DOMAIN Without(q, E) : Without(q, E)[k] = x)
            <=> x \notin E /\ \E k \in DOMAIN q : q[k] = x
<1> DEFINE w == Without(q, E)
<1>1. {w[k] : k \in DOMAIN w} = {q[k] : k \in DOMAIN q} \ E
  BY WithoutRange
<1> HIDE DEF w
<1>2. (x \in {w[k] : k \in DOMAIN w}) <=> (x \in {q[k] : k \in DOMAIN q} /\ x \notin E)
  BY Zenon, <1>1
<1>3. (\E k \in DOMAIN w : w[k] = x) <=> x \notin E /\ \E k \in DOMAIN q : q[k] = x
  BY Zenon, <1>2
<1> QED BY <1>3, Zenon DEF w

(* An empty set has no member.                                              *)
LEMMA NoneEmpty ==
  ASSUME NEW r, NEW i, NEW e, r.sets[i].members = << >>
  PROVE  ~InSet(r, i, e)
BY DEF InSet

(* Membership depends on the member list alone.                             *)
LEMMA SameMembers ==
  ASSUME NEW r, NEW q, NEW i, NEW e, q.sets[i].members = r.sets[i].members
  PROVE  InSet(q, i, e) <=> InSet(r, i, e)
BY Zenon DEF InSet

(* Waking a set keeps the registry in order.                                *)
LEMMA WakeGood ==
  ASSUME NEW r \in Registries, NEW R, NEW x \in Calls, NEW I, NEW W, NEW S, Good(r, R, x, I, W)
  PROVE  Good(Wake(r, S), R, x, I, W)
<1> DEFINE q == Wake(r, S)
<1>1. /\ q \in Registries /\ q.events = r.events /\ q.sets = r.sets /\ q.hw = r.hw
      /\ \A o \in Services : q.asleep[o] = r.asleep[o] \/ q.asleep[o] = None
  BY WakeFields
<1> HIDE DEF q
<1>2. \A i, e : InSet(q, i, e) <=> InSet(r, i, e)
  BY Zenon, <1>1 DEF InSet
<1>3. \A e : (LiveEvent(q, e) <=> LiveEvent(r, e)) /\ (LiveSet(q, e) <=> LiveSet(r, e))
             /\ (Ready(q, e) <=> Ready(r, e))
  BY Zenon, <1>1 DEF LiveEvent, LiveSet, Ready
<1>4. MembersOK(q)
  BY <1>1, <1>2 DEF Good, Sound, MembersOK
<1>5. OwnersOK(q, R)
  BY Zenon, <1>1 DEF Good, Sound, OwnersOK
<1>6. RoutesOK(q)
  BY Zenon, <1>1, <1>2, <1>3 DEF Good, Sound, RoutesOK
<1>7. SleepOK(q, R)
  BY Zenon, <1>1, <1>3 DEF Good, Sound, SleepOK
<1>8. CallOK(q, R, x)
  <2>1. x.owner \in Services
    BY Zenon DEF Calls
  <2> QED BY Zenon, <1>1, <1>3, <2>1 DEF Good, CallOK
<1>9. KeptOK(q, W)
  BY Zenon, <1>3 DEF Good, KeptOK
<1>10. ~SharedHardware => BoundOK(q)
  BY Zenon, <1>1, <1>2 DEF Good, BoundOK
<1>11. ~SharedHardware => PromptOK(q, x, I)
  BY <1>1, <1>2, <1>3 DEF Good, PromptOK, Coming, Ahead
<1> QED BY Zenon, <1>4, <1>5, <1>6, <1>7, <1>8, <1>9, <1>10, <1>11 DEF q, Good, Sound

(* Creating an event keeps the registry in order.                           *)
LEMMA NewEventGood ==
  ASSUME NEW r \in Registries, NEW R \in SUBSET Services, NEW x \in Calls, NEW I, NEW W \in SUBSET Handles,
         NEW i \in 1 .. MaxEvents, NEW o \in R,
         Good(r, R, x, I, W), x.pc = "free", r.events[i].owner = None
  PROVE  Good(NewEvent(r, i, o), R, x, I, W)
<1> DEFINE q == NewEvent(r, i, o)
<1>1. /\ q \in Registries /\ q.asleep = r.asleep /\ q.sets = r.sets /\ q.hw = r.hw
      /\ \A j \in 1 .. MaxEvents : /\ q.events[j].gen = r.events[j].gen
                                   /\ j # i => q.events[j] = r.events[j]
      /\ q.events[i].owner = o /\ q.events[i].signaled = FALSE
  <2>1. o \in Services
    BY Zenon
  <2>2. /\ q \in Registries /\ q.asleep = r.asleep /\ q.sets = r.sets /\ q.hw = r.hw
        /\ \A j \in 1 .. MaxEvents :
              q.events[j] = IF j = i THEN [gen |-> r.events[i].gen, owner |-> o, signaled |-> FALSE]
                            ELSE r.events[j]
    BY <2>1, NewEventFields
  <2> HIDE DEF q
  <2> QED BY <2>2
<1> HIDE DEF q
<1>2. \A j, e : InSet(q, j, e) <=> InSet(r, j, e)
  BY Zenon, <1>1 DEF InSet
<1>3. \A e \in Handles : LiveEvent(r, e) => LiveEvent(q, e) /\ q.events[e[1]] = r.events[e[1]]
  <2> TAKE e \in Handles
  <2>1. e[1] \in 1 .. MaxEvents
    BY Zenon, Pairs
  <2> QED BY Zenon, <1>1, <2>1 DEF LiveEvent
<1>4. \A s : LiveSet(q, s) <=> LiveSet(r, s)
  BY Zenon, <1>1 DEF LiveSet
<1>5. \A e \in Handles : LiveEvent(r, e) => (Ready(q, e) <=> Ready(r, e))
  <2> TAKE e \in Handles
  <2> QED BY Zenon, <1>1, <1>3 DEF Ready
<1>6. MembersOK(q)
  <2> SUFFICES ASSUME NEW j \in 1 .. MaxSets, NEW e \in Handles, InSet(q, j, e)
               PROVE  q.sets[j].owner # None /\ q.events[e[1]].gen = e[2] /\ q.events[e[1]].owner = q.sets[j].owner
    BY Zenon DEF MembersOK
  <2>1. r.sets[j].owner # None /\ r.events[e[1]].gen = e[2] /\ r.events[e[1]].owner = r.sets[j].owner
    BY Zenon, <1>2 DEF Good, Sound, MembersOK
  <2> QED BY Zenon, <1>1, <2>1, <1>3 DEF LiveEvent
<1>7. OwnersOK(q, R)
  BY Zenon, <1>1 DEF Good, Sound, OwnersOK
<1>8. RoutesOK(q)
  BY <1>1, <1>2, <1>3, <1>4, SlotFields DEF Good, Sound, RoutesOK
<1>9. SleepOK(q, R)
  BY Zenon, <1>1, <1>4 DEF Good, Sound, SleepOK
<1>10. CallOK(q, R, x)
  BY Zenon DEF CallOK
<1>11. KeptOK(q, W)
  BY Zenon, <1>3, <1>5 DEF Good, KeptOK
<1>12. ~SharedHardware => BoundOK(q)
  BY Zenon, <1>1, <1>2 DEF Good, BoundOK
<1>13. ASSUME ~SharedHardware PROVE PromptOK(q, x, I)
  <2> SUFFICES ASSUME NEW c \in Services, NEW e \in Handles,
                      q.asleep[c] # None, InSet(q, q.asleep[c][1], e), Ready(q, e)
               PROVE  Coming(q, I, q.asleep[c]) \/ Ahead(q, x, c, e)
    BY Zenon DEF PromptOK
  <2>1. r.asleep[c] # None /\ InSet(r, r.asleep[c][1], e)
    BY Zenon, <1>1, <1>2
  <2>2. r.asleep[c][1] \in 1 .. MaxSets
    BY Zenon, <2>1, SlotFields, Pairs
  <2>3. LiveEvent(r, e)
    BY Zenon, <2>1, <2>2 DEF Good, Sound, MembersOK, LiveEvent
  <2>4. Ready(r, e)
    BY Zenon, <2>3, <1>5
  <2>5. Coming(r, I, r.asleep[c]) \/ Ahead(r, x, c, e)
    BY Zenon, <2>1, <2>4, <1>13 DEF Good, PromptOK
  <2> QED BY Zenon, <2>5, <1>1 DEF Coming, Ahead
<1> QED BY Zenon, <1>6, <1>7, <1>8, <1>9, <1>10, <1>11, <1>12, <1>13 DEF q, Good, Sound

(* Creating a set keeps the registry in order.                              *)
LEMMA NewSetGood ==
  ASSUME NEW r \in Registries, NEW R \in SUBSET Services, NEW x \in Calls, NEW I, NEW W \in SUBSET Handles,
         NEW i \in 1 .. MaxSets, NEW o \in R,
         Good(r, R, x, I, W), x.pc = "free", r.sets[i].owner = None
  PROVE  Good(NewSet(r, i, o), R, x, I, W)
<1> DEFINE q == NewSet(r, i, o)
<1>1. /\ q \in Registries /\ q.asleep = r.asleep /\ q.events = r.events /\ q.hw = r.hw
      /\ \A j \in 1 .. MaxSets : /\ q.sets[j].gen = r.sets[j].gen
                                 /\ j # i => q.sets[j] = r.sets[j]
      /\ q.sets[i].owner = o /\ q.sets[i].members = << >>
  <2>1. o \in Services
    BY Zenon
  <2>2. /\ q \in Registries /\ q.asleep = r.asleep /\ q.events = r.events /\ q.hw = r.hw
        /\ \A j \in 1 .. MaxSets :
              q.sets[j] = IF j = i THEN [gen |-> r.sets[i].gen, owner |-> o, members |-> << >>,
                                          waiting |-> FALSE, invalidated |-> FALSE]
                                            ELSE r.sets[j]
    BY <2>1, NewSetFields
  <2> HIDE DEF q
  <2> QED BY <2>2
<1> HIDE DEF q
<1>2. \A j \in 1 .. MaxSets : \A e \in Handles : InSet(q, j, e) <=> InSet(r, j, e)
  <2> TAKE j \in 1 .. MaxSets
  <2> TAKE e \in Handles
  <2>1. CASE j = i
    <3>1. ~InSet(q, j, e)
      BY Zenon, <1>1, <2>1, NoneEmpty
    <3>2. ~InSet(r, j, e)
      BY Zenon, <2>1 DEF Good, Sound, MembersOK
    <3> QED BY Zenon, <3>1, <3>2
  <2>2. CASE j # i
    BY Zenon, <1>1, <2>2, SameMembers
  <2> QED BY Zenon, <2>1, <2>2
<1>3. \A e : (LiveEvent(q, e) <=> LiveEvent(r, e)) /\ (Ready(q, e) <=> Ready(r, e))
  BY Zenon, <1>1 DEF LiveEvent, Ready
<1>4. \A s \in SetHandles : LiveSet(r, s) => LiveSet(q, s) /\ q.sets[s[1]] = r.sets[s[1]]
  <2> TAKE s \in SetHandles
  <2>1. s[1] \in 1 .. MaxSets
    BY Zenon, Pairs
  <2> QED BY Zenon, <1>1, <2>1 DEF LiveSet
<1>6. MembersOK(q)
  BY <1>1, <1>2 DEF Good, Sound, MembersOK
<1>7. OwnersOK(q, R)
  BY Zenon, <1>1 DEF Good, Sound, OwnersOK
<1>8. RoutesOK(q)
  <2> SUFFICES ASSUME NEW h \in Sources
               PROVE  /\ q.hw[h].event # None => LiveEvent(q, q.hw[h].event)
                      /\ q.hw[h].set # None => /\ LiveSet(q, q.hw[h].set)
                                               /\ q.hw[h].event # None
                                               /\ InSet(q, q.hw[h].set[1], q.hw[h].event)
    BY Zenon DEF RoutesOK
  <2>1. /\ r.hw[h].event # None => LiveEvent(r, r.hw[h].event)
        /\ r.hw[h].set # None => /\ LiveSet(r, r.hw[h].set)
                                 /\ r.hw[h].event # None
                                 /\ InSet(r, r.hw[h].set[1], r.hw[h].event)
    BY Zenon DEF Good, Sound, RoutesOK
  <2>2. r.hw[h].event \in Handles \cup {None} /\ r.hw[h].set \in SetHandles \cup {None}
    BY Zenon, SlotFields
  <2>3. r.hw[h].set # None => r.hw[h].set[1] \in 1 .. MaxSets
    BY Zenon, <2>2, Pairs
  <2> QED BY Zenon, <1>1, <1>2, <1>3, <1>4, <2>1, <2>2, <2>3
<1>9. SleepOK(q, R)
  BY <1>1, <1>4, SlotFields DEF Good, Sound, SleepOK
<1>10. CallOK(q, R, x)
  BY Zenon DEF CallOK
<1>11. KeptOK(q, W)
  BY Zenon, <1>3 DEF Good, KeptOK
<1>12. ~SharedHardware => BoundOK(q)
  BY <1>1, <1>2, SlotFields DEF Good, BoundOK
<1>13. ASSUME ~SharedHardware PROVE PromptOK(q, x, I)
  <2> SUFFICES ASSUME NEW c \in Services, NEW e \in Handles,
                      q.asleep[c] # None, InSet(q, q.asleep[c][1], e), Ready(q, e)
               PROVE  Coming(q, I, q.asleep[c]) \/ Ahead(q, x, c, e)
    BY Zenon DEF PromptOK
  <2>1. r.asleep[c] # None /\ r.asleep[c][1] \in 1 .. MaxSets
    BY <1>1, SlotFields, Pairs
  <2>2. InSet(r, r.asleep[c][1], e) /\ Ready(r, e)
    BY Zenon, <1>1, <1>2, <1>3, <2>1
  <2>5. Coming(r, I, r.asleep[c]) \/ Ahead(r, x, c, e)
    BY Zenon, <2>1, <2>2, <1>13 DEF Good, PromptOK
  <2> QED BY Zenon, <2>5, <1>1 DEF Coming, Ahead
<1> QED BY Zenon, <1>6, <1>7, <1>8, <1>9, <1>10, <1>11, <1>12, <1>13 DEF q, Good, Sound

(* Membership after an event is added.                                      *)
LEMMA SetAppend ==
  ASSUME NEW r, NEW q, NEW i, NEW e \in Handles, NEW c, r.sets[i].members \in Seq(Handles),
         q.sets[i].members = Append(r.sets[i].members, e)
  PROVE  InSet(q, i, c) <=> c = e \/ InSet(r, i, c)
<1> DEFINE m == r.sets[i].members
<1>1. (\E k \in DOMAIN Append(m, e) : Append(m, e)[k] = c) <=> c = e \/ \E k \in DOMAIN m : m[k] = c
  <2> HIDE DEF m
  <2>1. m \in Seq(Handles)
    BY Zenon DEF m
  <2> QED BY <2>1, InAppend
<1> QED BY <1>1, Zenon DEF InSet

(* Membership after events are dropped.                                     *)
LEMMA SetWithout ==
  ASSUME NEW r, NEW q, NEW i, NEW E, NEW c, r.sets[i].members \in Seq(Handles),
         q.sets[i].members = Without(r.sets[i].members, E)
  PROVE  InSet(q, i, c) <=> c \notin E /\ InSet(r, i, c)
<1> DEFINE m == r.sets[i].members
<1>1. (\E k \in DOMAIN Without(m, E) : Without(m, E)[k] = c) <=> c \notin E /\ \E k \in DOMAIN m : m[k] = c
  <2> HIDE DEF m
  <2>1. m \in Seq(Handles)
    BY Zenon DEF m
  <2> QED BY Zenon, <2>1, InWithout
<1> QED BY <1>1, Zenon DEF InSet

(* Adding an event to a set keeps the registry in order.                    *)
LEMMA AddMemberGood ==
  ASSUME NEW r \in Registries, NEW R \in SUBSET Services, NEW x \in Calls, NEW I, NEW W \in SUBSET Handles,
         NEW s \in SetHandles, NEW e \in Handles,
         Good(r, R, x, I, W), x.pc = "free",
         LiveSet(r, s), LiveEvent(r, e), r.events[e[1]].owner = r.sets[s[1]].owner,
         ~r.sets[s[1]].waiting,
         ~SharedHardware => \/ ~IsHardware(r, e)
                            \/ \A j \in 1 .. MaxSets : ~InSet(r, j, e)
  PROVE  Good(AddMember(r, s, e), R, x, I, W)
<1> DEFINE q == AddMember(r, s, e)
<1>1. /\ q \in Registries /\ q.events = r.events /\ q.asleep = r.asleep
      /\ \A i \in 1 .. MaxSets :
                /\ q.sets[i].gen = r.sets[i].gen
                /\ q.sets[i].owner = r.sets[i].owner
                /\ q.sets[i].waiting = r.sets[i].waiting
                /\ q.sets[i].invalidated = r.sets[i].invalidated
                /\ q.sets[i].members = IF i = s[1] THEN Append(r.sets[i].members, e)
                                                        ELSE r.sets[i].members
      /\ \A h \in Sources : /\ q.hw[h].event = r.hw[h].event
                               /\ q.hw[h].pending = r.hw[h].pending
                               /\ q.hw[h].set = IF r.hw[h].event = e THEN s ELSE r.hw[h].set
  BY AddMemberFields
<1> HIDE DEF q
<1>0. s[1] \in 1 .. MaxSets /\ s = <<s[1], s[2]>> /\ s # None /\ e # None
  BY Zenon, Pairs
<1>2. \A i \in 1 .. MaxSets : \A c : InSet(q, i, c) <=> InSet(r, i, c) \/ (i = s[1] /\ c = e)
  <2> TAKE i \in 1 .. MaxSets
  <2> TAKE c
  <2>1. CASE i = s[1]
    <3>1. r.sets[i].members \in Seq(Handles)
      BY Zenon, SlotFields
    <3>2. q.sets[i].members = Append(r.sets[i].members, e)
      BY Zenon, <1>1, <2>1
    <3>3. InSet(q, i, c) <=> c = e \/ InSet(r, i, c)
      BY Zenon, <3>1, <3>2, SetAppend
    <3> QED BY Zenon, <3>3, <2>1
  <2>2. CASE i # s[1]
    BY Zenon, <1>1, <2>2, SameMembers
  <2> QED BY Zenon, <2>1, <2>2
<1>3. \A c \in Handles : (LiveEvent(q, c) <=> LiveEvent(r, c)) /\ (Ready(q, c) <=> Ready(r, c))
  BY <1>1 DEF LiveEvent, Ready
<1>4. \A t \in SetHandles : LiveSet(q, t) <=> LiveSet(r, t)
  BY Zenon, <1>1, Pairs DEF LiveSet
<1>6. MembersOK(q)
  BY <1>1, <1>2 DEF Good, Sound, MembersOK, LiveSet, LiveEvent
<1>7. OwnersOK(q, R)
  BY Zenon, <1>1 DEF Good, Sound, OwnersOK
<1>8. RoutesOK(q)
  <2> SUFFICES ASSUME NEW h \in Sources
               PROVE  /\ q.hw[h].event # None => LiveEvent(q, q.hw[h].event)
                      /\ q.hw[h].set # None => /\ LiveSet(q, q.hw[h].set)
                                               /\ q.hw[h].event # None
                                               /\ InSet(q, q.hw[h].set[1], q.hw[h].event)
    BY Zenon DEF RoutesOK
  <2>1. /\ r.hw[h].event # None => LiveEvent(r, r.hw[h].event)
        /\ r.hw[h].set # None => /\ LiveSet(r, r.hw[h].set)
                                 /\ r.hw[h].event # None
                                 /\ InSet(r, r.hw[h].set[1], r.hw[h].event)
    BY Zenon DEF Good, Sound, RoutesOK
  <2>2. r.hw[h].event \in Handles \cup {None} /\ r.hw[h].set \in SetHandles \cup {None}
    BY Zenon, SlotFields
  <2>3. r.hw[h].set # None => r.hw[h].set[1] \in 1 .. MaxSets
    BY Zenon, <2>2, Pairs
  <2>4. CASE r.hw[h].event = e
    BY Zenon, <1>0, <1>1, <1>2, <1>3, <1>4, <2>4
  <2>5. CASE r.hw[h].event # e
    BY Zenon, <1>1, <1>2, <1>3, <1>4, <2>1, <2>2, <2>3, <2>5
  <2> QED BY Zenon, <2>4, <2>5
<1>9. SleepOK(q, R)
  <2> SUFFICES ASSUME NEW o \in Services, q.asleep[o] # None
               PROVE  /\ o \in R /\ LiveSet(q, q.asleep[o]) /\ q.sets[q.asleep[o][1]].owner = o
                      /\ q.sets[q.asleep[o][1]].waiting /\ ~q.sets[q.asleep[o][1]].invalidated
    BY Zenon DEF SleepOK
  <2>1. r.asleep[o] \in SetHandles /\ r.asleep[o][1] \in 1 .. MaxSets
    BY <1>1, SlotFields, Pairs
  <2> QED BY <1>1, <1>4, <2>1 DEF Good, Sound, SleepOK
<1>10. CallOK(q, R, x)
  BY Zenon DEF CallOK
<1>11. KeptOK(q, W)
  BY Zenon, <1>3 DEF Good, KeptOK
<1>12. ASSUME ~SharedHardware PROVE BoundOK(q)
  <2> SUFFICES ASSUME NEW h \in Sources, NEW i \in 1 .. MaxSets,
                      q.hw[h].event # None, InSet(q, i, q.hw[h].event)
               PROVE  q.hw[h].set = <<i, q.sets[i].gen>>
    BY Zenon DEF BoundOK
  <2>1. CASE r.hw[h].event = e
    <3>1. IsHardware(r, e)
      BY Zenon, <2>1 DEF IsHardware
    <3>2. i = s[1]
      BY Zenon, <1>1, <1>2, <2>1, <3>1, <1>12
    <3> QED BY Zenon, <3>2, <1>0, <1>1, <2>1 DEF LiveSet
  <2>2. CASE r.hw[h].event # e
    BY <1>1, <1>2, <2>2, <1>12 DEF Good, BoundOK
  <2> QED BY Zenon, <2>1, <2>2
<1>13. ASSUME ~SharedHardware PROVE PromptOK(q, x, I)
  <2> SUFFICES ASSUME NEW c \in Services, NEW d \in Handles,
                      q.asleep[c] # None, InSet(q, q.asleep[c][1], d), Ready(q, d)
               PROVE  Coming(q, I, q.asleep[c])
    BY Zenon DEF PromptOK
  <2>1. r.asleep[c] # None /\ r.asleep[c][1] \in 1 .. MaxSets /\ r.asleep[c] \in SetHandles
    BY <1>1, SlotFields, Pairs
  <2>2. r.asleep[c][1] # s[1]
    BY Zenon, <2>1 DEF Good, Sound, SleepOK
  <2>3. InSet(r, r.asleep[c][1], d) /\ Ready(r, d)
    BY Zenon, <1>1, <1>2, <1>3, <2>1, <2>2
  <2>4. Coming(r, I, r.asleep[c])
    BY Zenon, <2>1, <2>3, <1>13 DEF Good, PromptOK, Ahead
  <2>5. PICK h \in Sources : \/ I[h].pc = "load" /\ r.hw[h].set = r.asleep[c]
                             \/ I[h].pc = "wake" /\ I[h].set = r.asleep[c]
    BY Zenon, <2>4 DEF Coming
  <2>6. CASE I[h].pc = "wake" /\ I[h].set = r.asleep[c]
    BY Zenon, <1>1, <2>6 DEF Coming
  <2>7. CASE I[h].pc = "load" /\ r.hw[h].set = r.asleep[c]
    <3>1. InSet(r, r.asleep[c][1], r.hw[h].event)
      BY Zenon, <2>7, <2>1 DEF Good, Sound, RoutesOK
    <3>2. r.hw[h].event # e
      BY Zenon, <3>1, <2>1, <1>13 DEF IsHardware
    <3>3. q.hw[h].set = q.asleep[c]
      BY Zenon, <1>1, <2>7, <3>2
    <3> QED BY Zenon, <2>7, <3>3 DEF Coming
  <2> QED BY Zenon, <2>5, <2>6, <2>7
<1> QED BY Zenon, <1>6, <1>7, <1>8, <1>9, <1>10, <1>11, <1>12, <1>13 DEF q, Good, Sound

(* Removing an event from a set keeps the registry in order.                *)
LEMMA RemoveMemberGood ==
  ASSUME NEW r \in Registries, NEW R \in SUBSET Services, NEW x \in Calls, NEW I, NEW W \in SUBSET Handles,
         NEW s \in SetHandles, NEW e \in Handles,
         Good(r, R, x, I, W), x.pc = "free", LiveSet(r, s), ~r.sets[s[1]].waiting
  PROVE  Good(RemoveMember(r, s, e), R, x, I, W)
<1> DEFINE q == RemoveMember(r, s, e)
<1>1. /\ q \in Registries /\ q.events = r.events /\ q.asleep = r.asleep
      /\ \A i \in 1 .. MaxSets :
                /\ q.sets[i].gen = r.sets[i].gen
                /\ q.sets[i].owner = r.sets[i].owner
                /\ q.sets[i].waiting = r.sets[i].waiting
                /\ q.sets[i].invalidated = r.sets[i].invalidated
                /\ q.sets[i].members = IF i = s[1] THEN Without(r.sets[i].members, {e})
                                                   ELSE r.sets[i].members
      /\ \A h \in Sources : /\ q.hw[h].event = r.hw[h].event
                            /\ q.hw[h].pending = r.hw[h].pending
                            /\ q.hw[h].set = IF r.hw[h].event = e /\ r.hw[h].set = s
                                             THEN None ELSE r.hw[h].set
  <2>1. IsRemoved(r, s, e, q)
    BY Zenon, RemoveMemberFields
  <2> HIDE DEF q
  <2> QED BY Zenon, <2>1 DEF IsRemoved
<1> HIDE DEF q
<1>0. s[1] \in 1 .. MaxSets /\ s = <<s[1], s[2]>>
  BY Zenon, Pairs
<1>2. \A i \in 1 .. MaxSets : \A c : InSet(q, i, c) <=> InSet(r, i, c) /\ ~(i = s[1] /\ c = e)
  <2> TAKE i \in 1 .. MaxSets
  <2> TAKE c
  <2>1. CASE i = s[1]
    <3>1. r.sets[i].members \in Seq(Handles)
      BY Zenon, SlotFields
    <3>2. q.sets[i].members = Without(r.sets[i].members, {e})
      BY Zenon, <1>1, <2>1
    <3>3. InSet(q, i, c) <=> c \notin {e} /\ InSet(r, i, c)
      BY Zenon, <3>1, <3>2, SetWithout
    <3> QED BY Zenon, <3>3, <2>1
  <2>2. CASE i # s[1]
    BY Zenon, <1>1, <2>2, SameMembers
  <2> QED BY Zenon, <2>1, <2>2
<1>3. \A c \in Handles : (LiveEvent(q, c) <=> LiveEvent(r, c)) /\ (Ready(q, c) <=> Ready(r, c))
  BY <1>1 DEF LiveEvent, Ready
<1>4. \A t \in SetHandles : LiveSet(q, t) <=> LiveSet(r, t)
  BY Zenon, <1>1, Pairs DEF LiveSet
<1>6. MembersOK(q)
  BY <1>1, <1>2 DEF Good, Sound, MembersOK
<1>7. OwnersOK(q, R)
  BY Zenon, <1>1 DEF Good, Sound, OwnersOK
<1>8. RoutesOK(q)
  <2> SUFFICES ASSUME NEW h \in Sources
               PROVE  /\ q.hw[h].event # None => LiveEvent(q, q.hw[h].event)
                      /\ q.hw[h].set # None => /\ LiveSet(q, q.hw[h].set)
                                               /\ q.hw[h].event # None
                                               /\ InSet(q, q.hw[h].set[1], q.hw[h].event)
    BY Zenon DEF RoutesOK
  <2>1. /\ r.hw[h].event # None => LiveEvent(r, r.hw[h].event)
        /\ r.hw[h].set # None => /\ LiveSet(r, r.hw[h].set)
                                 /\ r.hw[h].event # None
                                 /\ InSet(r, r.hw[h].set[1], r.hw[h].event)
    BY Zenon DEF Good, Sound, RoutesOK
  <2>2. r.hw[h].event \in Handles \cup {None} /\ r.hw[h].set \in SetHandles \cup {None}
    BY Zenon, SlotFields
  <2>3. r.hw[h].set # None => r.hw[h].set[1] \in 1 .. MaxSets /\ r.hw[h].set = <<r.hw[h].set[1], r.hw[h].set[2]>>
    BY Zenon, <2>2, Pairs
  <2>4. CASE r.hw[h].set = None \/ r.hw[h].set = s
    BY <1>1, <1>2, <1>3, <1>4, <2>1, <2>2, <2>3, <2>4
  <2>5. CASE r.hw[h].set # None /\ r.hw[h].set # s
    <3>1. r.hw[h].set[1] # s[1]
      BY Zenon, <2>1, <2>3, <2>5, <1>0 DEF LiveSet
    <3> QED BY Zenon, <1>1, <1>2, <1>3, <1>4, <2>1, <2>2, <2>3, <2>5, <3>1
  <2> QED BY Zenon, <2>4, <2>5
<1>9. SleepOK(q, R)
  <2> SUFFICES ASSUME NEW o \in Services, q.asleep[o] # None
               PROVE  /\ o \in R /\ LiveSet(q, q.asleep[o]) /\ q.sets[q.asleep[o][1]].owner = o
                      /\ q.sets[q.asleep[o][1]].waiting /\ ~q.sets[q.asleep[o][1]].invalidated
    BY Zenon DEF SleepOK
  <2>1. r.asleep[o] \in SetHandles /\ r.asleep[o][1] \in 1 .. MaxSets
    BY <1>1, SlotFields, Pairs
  <2> QED BY <1>1, <1>4, <2>1 DEF Good, Sound, SleepOK
<1>10. CallOK(q, R, x)
  BY Zenon DEF CallOK
<1>11. KeptOK(q, W)
  BY Zenon, <1>3 DEF Good, KeptOK
<1>12. ASSUME ~SharedHardware PROVE BoundOK(q)
  <2> SUFFICES ASSUME NEW h \in Sources, NEW i \in 1 .. MaxSets,
                      q.hw[h].event # None, InSet(q, i, q.hw[h].event)
               PROVE  q.hw[h].set = <<i, q.sets[i].gen>>
    BY Zenon DEF BoundOK
  <2>1. r.hw[h].set = <<i, r.sets[i].gen>> /\ ~(i = s[1] /\ r.hw[h].event = e)
    BY <1>1, <1>2, <1>12 DEF Good, BoundOK
  <2> QED BY <1>0, <1>1, <2>1
<1>13. ASSUME ~SharedHardware PROVE PromptOK(q, x, I)
  <2> SUFFICES ASSUME NEW c \in Services, NEW d \in Handles,
                      q.asleep[c] # None, InSet(q, q.asleep[c][1], d), Ready(q, d)
               PROVE  Coming(q, I, q.asleep[c])
    BY Zenon DEF PromptOK
  <2>1. r.asleep[c] # None /\ r.asleep[c][1] \in 1 .. MaxSets /\ r.asleep[c] \in SetHandles
    BY <1>1, SlotFields, Pairs
  <2>2. r.asleep[c] # s
    BY Zenon, <2>1 DEF Good, Sound, SleepOK
  <2>3. InSet(r, r.asleep[c][1], d) /\ Ready(r, d)
    BY Zenon, <1>1, <1>2, <1>3, <2>1, <2>2
  <2>4. Coming(r, I, r.asleep[c])
    BY Zenon, <2>1, <2>3, <1>13 DEF Good, PromptOK, Ahead
  <2> QED BY <1>1, <2>2, <2>4 DEF Coming
<1> QED BY Zenon, <1>6, <1>7, <1>8, <1>9, <1>10, <1>11, <1>12, <1>13 DEF q, Good, Sound

(* Signalling an event keeps the registry in order, and the signal is owed  *)
(* from then on.                                                            *)
LEMMA SignalEventGood ==
  ASSUME NEW r \in Registries, NEW R \in SUBSET Services, NEW x \in Calls, NEW I, NEW W \in SUBSET Handles,
         NEW e \in Handles, Good(r, R, x, I, W), x.pc = "free", LiveEvent(r, e)
  PROVE  Good(SignalEvent(r, e), R, x, I, W \cup {e})
<1> DEFINE q == SignalEvent(r, e)
<1>1. /\ q \in Registries /\ q.sets = r.sets /\ q.hw = r.hw
      /\ \A i \in 1 .. MaxEvents :
                /\ q.events[i].gen = r.events[i].gen
                /\ q.events[i].owner = r.events[i].owner
                /\ q.events[i].signaled = IF i = e[1] THEN TRUE ELSE r.events[i].signaled
      /\ \A o \in Services : q.asleep[o] = IF r.asleep[o] \in Waiters(r, e) THEN None ELSE r.asleep[o]
  <2>1. IsSignaled(r, e, q)
    BY Zenon, SignalEventFields
  <2> HIDE DEF q
  <2> QED BY Zenon, <2>1 DEF IsSignaled
<1> HIDE DEF q
<1>0. e[1] \in 1 .. MaxEvents /\ e = <<e[1], e[2]>>
  BY Zenon, Pairs
<1>2. \A j, c : InSet(q, j, c) <=> InSet(r, j, c)
  BY Zenon, <1>1 DEF InSet
<1>3. \A c \in Handles : (LiveEvent(q, c) <=> LiveEvent(r, c)) /\ (Ready(r, c) => Ready(q, c))
  <2> TAKE c \in Handles
  <2>1. c[1] \in 1 .. MaxEvents
    BY Zenon, Pairs
  <2> QED BY Zenon, <1>1, <2>1 DEF LiveEvent, Ready
<1>4. \A c \in Handles : c # e => (Ready(q, c) <=> Ready(r, c))
  <2> TAKE c \in Handles
  <2>1. c[1] \in 1 .. MaxEvents /\ c = <<c[1], c[2]>>
    BY Zenon, Pairs
  <2>2. LiveEvent(r, c) /\ c # e => c[1] # e[1]
    BY Zenon, <1>0, <2>1 DEF LiveEvent
  <2> QED BY Zenon, <1>1, <1>3, <2>1, <2>2 DEF Ready
<1>5. \A s : LiveSet(q, s) <=> LiveSet(r, s)
  BY Zenon, <1>1 DEF LiveSet
<1>6. MembersOK(q)
  <2> SUFFICES ASSUME NEW j \in 1 .. MaxSets, NEW c \in Handles, InSet(q, j, c)
               PROVE  q.sets[j].owner # None /\ q.events[c[1]].gen = c[2] /\ q.events[c[1]].owner = q.sets[j].owner
    BY Zenon DEF MembersOK
  <2>1. r.sets[j].owner # None /\ r.events[c[1]].gen = c[2] /\ r.events[c[1]].owner = r.sets[j].owner
    BY Zenon, <1>2 DEF Good, Sound, MembersOK
  <2>2. c[1] \in 1 .. MaxEvents
    BY Zenon, Pairs
  <2> QED BY Zenon, <1>1, <2>1, <2>2
<1>7. OwnersOK(q, R)
  BY Zenon, <1>1 DEF Good, Sound, OwnersOK
<1>8. RoutesOK(q)
  BY <1>1, <1>2, <1>3, <1>5, SlotFields DEF Good, Sound, RoutesOK
<1>9. SleepOK(q, R)
  BY <1>1, <1>5 DEF Good, Sound, SleepOK
<1>10. CallOK(q, R, x)
  BY Zenon DEF CallOK
<1>11. KeptOK(q, W \cup {e})
  <2>1. LiveEvent(q, e) /\ Ready(q, e)
    BY Zenon, <1>0, <1>1, <1>3 DEF Ready
  <2> QED BY Zenon, <2>1, <1>3 DEF Good, KeptOK
<1>12. ~SharedHardware => BoundOK(q)
  BY <1>1, <1>2 DEF Good, BoundOK
<1>13. ASSUME ~SharedHardware PROVE PromptOK(q, x, I)
  <2> SUFFICES ASSUME NEW c \in Services, NEW d \in Handles,
                      q.asleep[c] # None, InSet(q, q.asleep[c][1], d), Ready(q, d)
               PROVE  Coming(q, I, q.asleep[c])
    BY Zenon DEF PromptOK
  <2>1. r.asleep[c] # None /\ q.asleep[c] = r.asleep[c] /\ r.asleep[c] \notin Waiters(r, e)
    BY Zenon, <1>1
  <2>2. r.asleep[c] \in SetHandles
    BY Zenon, <2>1, SlotFields
  <2>3. LiveSet(r, r.asleep[c]) /\ r.sets[r.asleep[c][1]].waiting
    BY Zenon, <2>1 DEF Good, Sound, SleepOK
  <2>4. ~InSet(r, r.asleep[c][1], e)
    BY Zenon, <2>1, <2>2, <2>3, WaitersIn
  <2>5. d # e /\ InSet(r, r.asleep[c][1], d)
    BY Zenon, <2>1, <2>4, <1>2
  <2>6. Ready(r, d)
    BY Zenon, <2>5, <1>4
  <2>7. Coming(r, I, r.asleep[c])
    BY Zenon, <2>1, <2>5, <2>6, <1>13 DEF Good, PromptOK, Ahead
  <2> QED BY Zenon, <1>1, <2>1, <2>7 DEF Coming
<1> QED BY Zenon, <1>6, <1>7, <1>8, <1>9, <1>10, <1>11, <1>12, <1>13 DEF q, Good, Sound

(* Destroying events keeps the registry in order: nothing owes them any     *)
(* more.                                                                    *)
LEMMA DestroyEventsGood ==
  ASSUME NEW r \in Registries, NEW R \in SUBSET Services, NEW x \in Calls, NEW I, NEW W \in SUBSET Handles,
         NEW E \in SUBSET Handles, Good(r, R, x, I, W), x.pc = "free"
  PROVE  Good(DestroyEvents(r, E), R, x, I, W \ E)
<1> DEFINE q == DestroyEvents(r, E)
           Z == Woken(r, E)
           Hit(i) == Struck(r, i, E)
<1>1. /\ q \in Registries
      /\ \A i \in 1 .. MaxEvents :
              IF <<i, r.events[i].gen>> \in E
              THEN q.events[i].gen = r.events[i].gen + 1 /\ q.events[i].owner = None
                   /\ q.events[i].signaled = FALSE
              ELSE q.events[i] = r.events[i]
      /\ \A i \in 1 .. MaxSets :
              /\ q.sets[i].gen = r.sets[i].gen
              /\ q.sets[i].owner = r.sets[i].owner
              /\ q.sets[i].waiting = IF Hit(i) THEN FALSE ELSE r.sets[i].waiting
              /\ q.sets[i].invalidated = IF Hit(i) THEN TRUE ELSE r.sets[i].invalidated
              /\ q.sets[i].members = IF Hit(i) THEN Without(r.sets[i].members, E) ELSE r.sets[i].members
      /\ \A h \in Sources :
              IF r.hw[h].event \in E
              THEN q.hw[h].event = None /\ q.hw[h].set = None /\ q.hw[h].pending = FALSE
              ELSE q.hw[h] = r.hw[h]
      /\ \A o \in Services : q.asleep[o] = IF r.asleep[o] \in Z THEN None ELSE r.asleep[o]
  <2>1. EventsDestroyed(r, E, q)
    BY Zenon, DestroyEventsFields
  <2> HIDE DEF q
  <2> QED BY <2>1, Zenon DEF EventsDestroyed
<1>a. \A i : Hit(i) <=> r.sets[i].owner # None /\ \E e \in E : InSet(r, i, e)
  BY Zenon DEF InSet, Struck
<1>b. \A s \in SetHandles : s \in Z <=> \E e \in E : LiveSet(r, s) /\ r.sets[s[1]].waiting /\ InSet(r, s[1], e)
  BY Zenon, WaitersIn DEF Woken
<1> HIDE DEF q, Z, Hit
<1>2. \A i \in 1 .. MaxSets : \A c \in Handles : InSet(q, i, c) <=> InSet(r, i, c) /\ c \notin E
  <2> TAKE i \in 1 .. MaxSets
  <2> TAKE c \in Handles
  <2>1. CASE Hit(i)
    <3>1. r.sets[i].members \in Seq(Handles)
      BY Zenon, SlotFields
    <3>2. q.sets[i].members = Without(r.sets[i].members, E)
      BY Zenon, <1>1, <2>1
    <3> QED BY Zenon, <3>1, <3>2, SetWithout
  <2>2. CASE ~Hit(i)
    <3>1. InSet(q, i, c) <=> InSet(r, i, c)
      BY Zenon, <1>1, <2>2, SameMembers
    <3>2. InSet(r, i, c) => r.sets[i].owner # None
      BY Zenon DEF Good, Sound, MembersOK
    <3> QED BY Zenon, <3>1, <3>2, <2>2, <1>a
  <2> QED BY Zenon, <2>1, <2>2
<1>3. \A c \in Handles : LiveEvent(r, c) /\ c \notin E => LiveEvent(q, c) /\ q.events[c[1]] = r.events[c[1]]
  <2> TAKE c \in Handles
  <2>1. c[1] \in 1 .. MaxEvents /\ c = <<c[1], c[2]>>
    BY Zenon, Pairs
  <2> QED BY <1>1, <2>1 DEF LiveEvent
<1>4. \A c \in Handles : LiveEvent(r, c) /\ c \notin E => (Ready(q, c) <=> Ready(r, c))
  <2> TAKE c \in Handles
  <2>1. c # None
    BY Zenon, Pairs
  <2>2. \A h \in Sources : c \notin E => ((q.hw[h].event = c /\ q.hw[h].pending) <=> (r.hw[h].event = c /\ r.hw[h].pending))
    BY Zenon, <1>1, <2>1
  <2> QED BY Zenon, <1>3, <2>2 DEF Ready
<1>5. \A t \in SetHandles : LiveSet(q, t) <=> LiveSet(r, t)
  BY Zenon, <1>1, Pairs DEF LiveSet
<1>6. MembersOK(q)
  <2> SUFFICES ASSUME NEW j \in 1 .. MaxSets, NEW c \in Handles, InSet(q, j, c)
               PROVE  q.sets[j].owner # None /\ q.events[c[1]].gen = c[2] /\ q.events[c[1]].owner = q.sets[j].owner
    BY Zenon DEF MembersOK
  <2>1. /\ r.sets[j].owner # None /\ r.events[c[1]].gen = c[2] /\ r.events[c[1]].owner = r.sets[j].owner
        /\ c \notin E
    BY Zenon, <1>2 DEF Good, Sound, MembersOK
  <2> QED BY Zenon, <1>1, <1>3, <2>1 DEF LiveEvent
<1>7. OwnersOK(q, R)
  BY Zenon, <1>1 DEF Good, Sound, OwnersOK
<1>8. RoutesOK(q)
  <2> SUFFICES ASSUME NEW h \in Sources
               PROVE  /\ q.hw[h].event # None => LiveEvent(q, q.hw[h].event)
                      /\ q.hw[h].set # None => /\ LiveSet(q, q.hw[h].set)
                                               /\ q.hw[h].event # None
                                               /\ InSet(q, q.hw[h].set[1], q.hw[h].event)
    BY Zenon DEF RoutesOK
  <2>1. /\ r.hw[h].event # None => LiveEvent(r, r.hw[h].event)
        /\ r.hw[h].set # None => /\ LiveSet(r, r.hw[h].set)
                                 /\ r.hw[h].event # None
                                 /\ InSet(r, r.hw[h].set[1], r.hw[h].event)
    BY Zenon DEF Good, Sound, RoutesOK
  <2>2. r.hw[h].event \in Handles \cup {None} /\ r.hw[h].set \in SetHandles \cup {None}
    BY Zenon, SlotFields
  <2>3. r.hw[h].set # None => r.hw[h].set[1] \in 1 .. MaxSets
    BY Zenon, <2>2, Pairs
  <2>4. CASE r.hw[h].event \in E
    BY Zenon, <1>1, <2>4
  <2>5. CASE r.hw[h].event \notin E
    BY Zenon, <1>1, <1>2, <1>3, <1>5, <2>1, <2>2, <2>3, <2>5
  <2> QED BY Zenon, <2>4, <2>5
<1>c. ASSUME NEW o \in Services, q.asleep[o] # None
      PROVE  /\ q.asleep[o] = r.asleep[o] /\ r.asleep[o] \in SetHandles
             /\ LiveSet(r, r.asleep[o]) /\ r.sets[r.asleep[o][1]].waiting
             /\ r.asleep[o][1] \in 1 .. MaxSets
             /\ \A e \in E : ~InSet(r, r.asleep[o][1], e)
  <2>1. q.asleep[o] = r.asleep[o] /\ r.asleep[o] \notin Z
    BY Zenon, <1>1, <1>c
  <2>2. r.asleep[o] \in SetHandles /\ r.asleep[o][1] \in 1 .. MaxSets
    BY Zenon, <2>1, <1>c, SlotFields, Pairs
  <2>3. LiveSet(r, r.asleep[o]) /\ r.sets[r.asleep[o][1]].waiting
    BY Zenon, <2>1, <1>c DEF Good, Sound, SleepOK
  <2> QED BY Zenon, <2>1, <2>2, <2>3, <1>b
<1>9. SleepOK(q, R)
  <2> SUFFICES ASSUME NEW o \in Services, q.asleep[o] # None
               PROVE  /\ o \in R /\ LiveSet(q, q.asleep[o]) /\ q.sets[q.asleep[o][1]].owner = o
                      /\ q.sets[q.asleep[o][1]].waiting /\ ~q.sets[q.asleep[o][1]].invalidated
    BY Zenon DEF SleepOK
  <2>1. ~Hit(r.asleep[o][1])
    BY Zenon, <1>a, <1>c
  <2>2. /\ o \in R /\ r.sets[r.asleep[o][1]].owner = o /\ ~r.sets[r.asleep[o][1]].invalidated
    BY Zenon, <1>c DEF Good, Sound, SleepOK
  <2> DEFINE i == r.asleep[o][1]
  <2>3. q.asleep[o] = r.asleep[o] /\ i \in 1 .. MaxSets /\ LiveSet(q, r.asleep[o])
    BY Zenon, <1>5, <1>c
  <2> HIDE DEF i
  <2>4. q.sets[i].owner = r.sets[i].owner /\ q.sets[i].waiting = r.sets[i].waiting
        /\ q.sets[i].invalidated = r.sets[i].invalidated
    BY Zenon, <1>1, <2>1, <2>3 DEF i
  <2> QED BY Zenon, <1>c, <2>2, <2>3, <2>4 DEF i
<1>10. CallOK(q, R, x)
  BY Zenon DEF CallOK
<1>11. KeptOK(q, W \ E)
  BY Zenon, <1>3, <1>4 DEF Good, KeptOK
<1>12. ASSUME ~SharedHardware PROVE BoundOK(q)
  <2> SUFFICES ASSUME NEW h \in Sources, NEW i \in 1 .. MaxSets,
                      q.hw[h].event # None, InSet(q, i, q.hw[h].event)
               PROVE  q.hw[h].set = <<i, q.sets[i].gen>>
    BY Zenon DEF BoundOK
  <2>1. q.hw[h] = r.hw[h] /\ r.hw[h].event \in Handles
    BY Zenon, <1>1, SlotFields
  <2>2. InSet(r, i, r.hw[h].event) /\ r.hw[h].event # None
    BY Zenon, <1>2, <2>1
  <2>3. r.hw[h].set = <<i, r.sets[i].gen>>
    BY Zenon, <2>2, <1>12 DEF Good, BoundOK
  <2> QED BY Zenon, <1>1, <2>1, <2>3
<1>13. ASSUME ~SharedHardware PROVE PromptOK(q, x, I)
  <2> SUFFICES ASSUME NEW c \in Services, NEW d \in Handles,
                      q.asleep[c] # None, InSet(q, q.asleep[c][1], d), Ready(q, d)
               PROVE  Coming(q, I, q.asleep[c])
    BY Zenon DEF PromptOK
  <2>1. InSet(r, r.asleep[c][1], d) /\ d \notin E
    BY Zenon, <1>c, <1>2
  <2>2. LiveEvent(r, d)
    BY <2>1, <1>c DEF Good, Sound, MembersOK, LiveEvent
  <2>3. Ready(r, d)
    BY Zenon, <2>1, <2>2, <1>4
  <2>4. Coming(r, I, r.asleep[c])
    BY Zenon, <2>1, <2>3, <1>c, <1>13 DEF Good, PromptOK, Ahead
  <2>5. PICK h \in Sources : \/ I[h].pc = "load" /\ r.hw[h].set = r.asleep[c]
                             \/ I[h].pc = "wake" /\ I[h].set = r.asleep[c]
    BY Zenon, <2>4 DEF Coming
  <2>6. CASE I[h].pc = "wake" /\ I[h].set = r.asleep[c]
    BY Zenon, <1>c, <2>6 DEF Coming
  <2>7. CASE I[h].pc = "load" /\ r.hw[h].set = r.asleep[c]
    <3>0. r.asleep[c] # None
      BY Zenon, <1>c
    <3>1. InSet(r, r.asleep[c][1], r.hw[h].event)
      BY Zenon, <2>7, <3>0 DEF Good, Sound, RoutesOK
    <3>2. r.hw[h].event \notin E
      BY Zenon, <3>1, <1>c
    <3>3. q.hw[h].set = q.asleep[c]
      BY Zenon, <1>1, <2>7, <3>2, <1>c
    <3> QED BY Zenon, <2>7, <3>3 DEF Coming
  <2> QED BY Zenon, <2>5, <2>6, <2>7
<1> QED BY Zenon, <1>6, <1>7, <1>8, <1>9, <1>10, <1>11, <1>12, <1>13 DEF q, Good, Sound

(* Destroying sets nobody sleeps on keeps the registry in order.            *)
LEMMA DestroySetsGood ==
  ASSUME NEW r \in Registries, NEW R \in SUBSET Services, NEW x \in Calls, NEW I, NEW W \in SUBSET Handles,
         NEW S \in SUBSET SetHandles, Good(r, R, x, I, W), x.pc = "free"
  PROVE  Good(DestroySets(r, S), R, x, I, W)
<1> DEFINE q == DestroySets(r, S)
           Z == {s \in S : r.sets[s[1]].waiting}
           M == Held(r, S)
<1>1. /\ q \in Registries
      /\ q.events = r.events
      /\ \A i \in 1 .. MaxSets :
              IF <<i, r.sets[i].gen>> \in S
              THEN q.sets[i].gen = r.sets[i].gen + 1 /\ q.sets[i].owner = None /\ q.sets[i].members = << >>
                   /\ q.sets[i].waiting = FALSE /\ q.sets[i].invalidated = FALSE
              ELSE q.sets[i] = r.sets[i]
      /\ \A h \in Sources : /\ q.hw[h].event = r.hw[h].event
                            /\ q.hw[h].pending = r.hw[h].pending
                            /\ q.hw[h].set = IF r.hw[h].event \in M /\ r.hw[h].set \in S
                                                THEN None ELSE r.hw[h].set
      /\ \A o \in Services : q.asleep[o] = IF r.asleep[o] \in Z THEN None ELSE r.asleep[o]
  <2>1. SetsDestroyed(r, S, q)
    BY Zenon, DestroySetsFields
  <2> HIDE DEF q
  <2> QED BY <2>1, Zenon DEF SetsDestroyed
<1>a. \A e : e \in M <=> \E s \in S : InSet(r, s[1], e)
  BY Zenon, MembersIn DEF Held
<1>b. \A s : s \in Z <=> s \in S /\ r.sets[s[1]].waiting
  BY Zenon
<1> HIDE DEF q, Z, M
<1>2. \A i \in 1 .. MaxSets : \A c : InSet(q, i, c) <=> InSet(r, i, c) /\ <<i, r.sets[i].gen>> \notin S
  <2> TAKE i \in 1 .. MaxSets
  <2> TAKE c
  <2>1. CASE <<i, r.sets[i].gen>> \in S
    BY Zenon, <1>1, <2>1, NoneEmpty
  <2>2. CASE <<i, r.sets[i].gen>> \notin S
    BY Zenon, <1>1, <2>2, SameMembers
  <2> QED BY Zenon, <2>1, <2>2
<1>3. \A c : (LiveEvent(q, c) <=> LiveEvent(r, c)) /\ (Ready(q, c) <=> Ready(r, c))
  BY Zenon, <1>1 DEF LiveEvent, Ready
<1>4. \A t \in SetHandles : LiveSet(r, t) /\ t \notin S => /\ LiveSet(q, t) /\ q.sets[t[1]] = r.sets[t[1]]
                                                         /\ <<t[1], r.sets[t[1]].gen>> \notin S
  <2> TAKE t \in SetHandles
  <2>1. t[1] \in 1 .. MaxSets /\ t = <<t[1], t[2]>>
    BY Zenon, Pairs
  <2> QED BY <1>1, <2>1 DEF LiveSet
<1>6. MembersOK(q)
  <2> SUFFICES ASSUME NEW j \in 1 .. MaxSets, NEW c \in Handles, InSet(q, j, c)
               PROVE  q.sets[j].owner # None /\ q.events[c[1]].gen = c[2] /\ q.events[c[1]].owner = q.sets[j].owner
    BY Zenon DEF MembersOK
  <2>1. /\ r.sets[j].owner # None /\ r.events[c[1]].gen = c[2] /\ r.events[c[1]].owner = r.sets[j].owner
        /\ q.sets[j] = r.sets[j]
    BY Zenon, <1>1, <1>2 DEF Good, Sound, MembersOK
  <2> QED BY Zenon, <1>1, <2>1
<1>7. OwnersOK(q, R)
  BY Zenon, <1>1 DEF Good, Sound, OwnersOK
<1>8. RoutesOK(q)
  <2> SUFFICES ASSUME NEW h \in Sources
               PROVE  /\ q.hw[h].event # None => LiveEvent(q, q.hw[h].event)
                      /\ q.hw[h].set # None => /\ LiveSet(q, q.hw[h].set)
                                               /\ q.hw[h].event # None
                                               /\ InSet(q, q.hw[h].set[1], q.hw[h].event)
    BY Zenon DEF RoutesOK
  <2>1. /\ r.hw[h].event # None => LiveEvent(r, r.hw[h].event)
        /\ r.hw[h].set # None => /\ LiveSet(r, r.hw[h].set)
                                 /\ r.hw[h].event # None
                                 /\ InSet(r, r.hw[h].set[1], r.hw[h].event)
    BY Zenon DEF Good, Sound, RoutesOK
  <2>2. r.hw[h].event \in Handles \cup {None} /\ r.hw[h].set \in SetHandles \cup {None}
    BY Zenon, SlotFields
  <2>3. r.hw[h].set # None => r.hw[h].set[1] \in 1 .. MaxSets
    BY Zenon, <2>2, Pairs
  <2>4. q.hw[h].set # None => q.hw[h].set = r.hw[h].set /\ r.hw[h].set \notin S
    BY Zenon, <1>1, <1>a, <2>1
  <2> QED BY Zenon, <1>1, <1>2, <1>3, <1>4, <2>1, <2>2, <2>3, <2>4
<1>c. ASSUME NEW o \in Services, q.asleep[o] # None
      PROVE  /\ q.asleep[o] = r.asleep[o] /\ r.asleep[o] \in SetHandles
             /\ LiveSet(r, r.asleep[o]) /\ r.asleep[o][1] \in 1 .. MaxSets
             /\ r.asleep[o] \notin S
  <2>1. q.asleep[o] = r.asleep[o] /\ r.asleep[o] \notin Z
    BY Zenon, <1>1, <1>c
  <2>2. r.asleep[o] \in SetHandles /\ r.asleep[o][1] \in 1 .. MaxSets
    BY Zenon, <2>1, <1>c, SlotFields, Pairs
  <2>3. LiveSet(r, r.asleep[o]) /\ r.sets[r.asleep[o][1]].waiting
    BY Zenon, <2>1, <1>c DEF Good, Sound, SleepOK
  <2> QED BY Zenon, <2>1, <2>2, <2>3, <1>b
<1>9. SleepOK(q, R)
  <2> SUFFICES ASSUME NEW o \in Services, q.asleep[o] # None
               PROVE  /\ o \in R /\ LiveSet(q, q.asleep[o]) /\ q.sets[q.asleep[o][1]].owner = o
                      /\ q.sets[q.asleep[o][1]].waiting /\ ~q.sets[q.asleep[o][1]].invalidated
    BY Zenon DEF SleepOK
  <2>2. /\ o \in R /\ r.sets[r.asleep[o][1]].owner = o /\ ~r.sets[r.asleep[o][1]].invalidated
        /\ r.sets[r.asleep[o][1]].waiting
    BY Zenon, <1>c DEF Good, Sound, SleepOK
  <2> QED BY <1>4, <1>c, <2>2
<1>10. CallOK(q, R, x)
  BY Zenon DEF CallOK
<1>11. KeptOK(q, W)
  BY Zenon, <1>3 DEF Good, KeptOK
<1>12. ASSUME ~SharedHardware PROVE BoundOK(q)
  <2> SUFFICES ASSUME NEW h \in Sources, NEW i \in 1 .. MaxSets,
                      q.hw[h].event # None, InSet(q, i, q.hw[h].event)
               PROVE  q.hw[h].set = <<i, q.sets[i].gen>>
    BY Zenon DEF BoundOK
  <2>1. r.hw[h].set = <<i, r.sets[i].gen>> /\ <<i, r.sets[i].gen>> \notin S
    BY Zenon, <1>1, <1>2, <1>12 DEF Good, BoundOK
  <2> QED BY Zenon, <1>1, <2>1
<1>13. ASSUME ~SharedHardware PROVE PromptOK(q, x, I)
  <2> SUFFICES ASSUME NEW c \in Services, NEW d \in Handles,
                      q.asleep[c] # None, InSet(q, q.asleep[c][1], d), Ready(q, d)
               PROVE  Coming(q, I, q.asleep[c])
    BY Zenon DEF PromptOK
  <2>1. InSet(r, r.asleep[c][1], d) /\ Ready(r, d) /\ r.asleep[c] # None
    BY Zenon, <1>c, <1>2, <1>3
  <2>4. Coming(r, I, r.asleep[c])
    BY Zenon, <2>1, <1>13 DEF Good, PromptOK, Ahead
  <2> QED BY Zenon, <1>1, <1>c, <2>4 DEF Coming
<1> QED BY Zenon, <1>6, <1>7, <1>8, <1>9, <1>10, <1>11, <1>12, <1>13 DEF q, Good, Sound

(* Destroying what a stopped service owns keeps the registry in order.      *)
LEMMA DestroyServiceGood ==
  ASSUME NEW r \in Registries, NEW R \in SUBSET Services, NEW x \in Calls, NEW I, NEW W \in SUBSET Handles,
         NEW o \in Services, Good(r, R, x, I, W), x.pc = "free"
  PROVE  /\ DestroyService(r, o) \in Registries
         /\ Good(DestroyService(r, o), R \ {o}, x, I, W \ EventsOf(r, o))
<1> DEFINE E == EventsOf(r, o)
           p == DestroyEvents(r, E)
           S == SetsOf(p, o)
           q == DestroySets(p, S)
<1>1. DestroyService(r, o) = q
  BY Zenon DEF DestroyService
<1>2. E \in SUBSET Handles /\ \A e \in Handles : e \in E <=> LiveEvent(r, e) /\ r.events[e[1]].owner = o
  BY Zenon, OwnedIn
<1> HIDE DEF E
<1>3. EventsDestroyed(r, E, p)
  BY Zenon, DestroyEventsFields
<1>4. Good(p, R, x, I, W \ E)
  BY Zenon, <1>2, DestroyEventsGood
<1> HIDE DEF p
<1>5. p \in Registries
  BY Zenon, <1>3 DEF EventsDestroyed
<1>6. \A i \in 1 .. MaxEvents : p.events[i].owner # o
  <2> TAKE i \in 1 .. MaxEvents
  <2>1. <<i, r.events[i].gen>> \in Handles /\ o # None
    BY Zenon, Slots, NoneOwner
  <2>2. r.events[i].owner = o => <<i, r.events[i].gen>> \in E
    BY Zenon, <1>2, <2>1 DEF LiveEvent
  <2>3. CASE <<i, r.events[i].gen>> \in E
    BY Zenon, <1>3, <2>1, <2>3 DEF EventsDestroyed
  <2>4. CASE <<i, r.events[i].gen>> \notin E
    <3>1. p.events[i] = r.events[i]
      BY Zenon, <1>3, <2>4 DEF EventsDestroyed
    <3> QED BY Zenon, <3>1, <2>2, <2>4
  <2> QED BY Zenon, <2>3, <2>4
<1>7. S \in SUBSET SetHandles /\ \A s \in SetHandles : s \in S <=> LiveSet(p, s) /\ p.sets[s[1]].owner = o
  BY Zenon, <1>5, OwnedIn
<1> HIDE DEF S
<1>8. SetsDestroyed(p, S, q)
  BY Zenon, <1>5, DestroySetsFields
<1>9. Good(q, R, x, I, W \ E)
  BY Zenon, <1>4, <1>5, <1>7, DestroySetsGood
<1> HIDE DEF q
<1>10. q \in Registries
  BY Zenon, <1>8 DEF SetsDestroyed
<1>11. \A i \in 1 .. MaxEvents : q.events[i].owner # o
  BY Zenon, <1>6, <1>8 DEF SetsDestroyed
<1>12. \A i \in 1 .. MaxSets : q.sets[i].owner # o
  <2> TAKE i \in 1 .. MaxSets
  <2>1. <<i, p.sets[i].gen>> \in SetHandles /\ o # None
    BY Zenon, <1>5, Slots, NoneOwner
  <2>2. p.sets[i].owner = o => <<i, p.sets[i].gen>> \in S
    BY Zenon, <1>7, <2>1 DEF LiveSet
  <2>3. CASE <<i, p.sets[i].gen>> \in S
    BY Zenon, <1>8, <2>1, <2>3 DEF SetsDestroyed
  <2>4. CASE <<i, p.sets[i].gen>> \notin S
    <3>1. q.sets[i] = p.sets[i]
      BY Zenon, <1>8, <2>4 DEF SetsDestroyed
    <3> QED BY Zenon, <3>1, <2>2, <2>4
  <2> QED BY Zenon, <2>3, <2>4
<1>13. OwnersOK(q, R \ {o})
  BY Zenon, <1>9, <1>11, <1>12 DEF Good, Sound, OwnersOK
<1>14. SleepOK(q, R \ {o})
  <2> SUFFICES ASSUME NEW c \in Services, q.asleep[c] # None
               PROVE  /\ c \in R \ {o} /\ LiveSet(q, q.asleep[c]) /\ q.sets[q.asleep[c][1]].owner = c
                      /\ q.sets[q.asleep[c][1]].waiting /\ ~q.sets[q.asleep[c][1]].invalidated
    BY Zenon DEF SleepOK
  <2>1. /\ c \in R /\ LiveSet(q, q.asleep[c]) /\ q.sets[q.asleep[c][1]].owner = c
        /\ q.sets[q.asleep[c][1]].waiting /\ ~q.sets[q.asleep[c][1]].invalidated
    BY Zenon, <1>9 DEF Good, Sound, SleepOK
  <2>2. q.asleep[c][1] \in 1 .. MaxSets
    BY Zenon, <1>10, SlotFields, Pairs
  <2> QED BY Zenon, <2>1, <2>2, <1>12
<1>15. CallOK(q, R \ {o}, x)
  BY Zenon DEF CallOK
<1> QED BY <1>1, <1>9, <1>10, <1>13, <1>14, <1>15, Zenon DEF Good, Sound, E

(* Cancelling a wait keeps the registry in order.                           *)
LEMMA CancelGood ==
  ASSUME NEW r \in Registries, NEW R \in SUBSET Services, NEW x \in Calls, NEW I, NEW W \in SUBSET Handles,
         NEW s \in SetHandles, Good(r, R, x, I, W), x.pc = "free", LiveSet(r, s)
  PROVE  LET q == Wake([r EXCEPT !.sets[s[1]].waiting = FALSE], {s}) IN
         q \in Registries /\ Good(q, R, x, I, W)
<1> DEFINE p == [r EXCEPT !.sets[s[1]].waiting = FALSE]
           q == Wake(p, {s})
<1>0. s[1] \in 1 .. MaxSets /\ s = <<s[1], s[2]>>
  BY Zenon, Pairs
<1>1. /\ p \in Registries
      /\ p.events = r.events /\ p.hw = r.hw /\ p.asleep = r.asleep
      /\ \A i \in 1 .. MaxSets :
              /\ p.sets[i].gen = r.sets[i].gen /\ p.sets[i].owner = r.sets[i].owner
              /\ p.sets[i].members = r.sets[i].members /\ p.sets[i].invalidated = r.sets[i].invalidated
              /\ i # s[1] => p.sets[i].waiting = r.sets[i].waiting
  <2>0. PICK b \in BOOLEAN : b = FALSE
    BY Zenon
  <2>1. p = [r EXCEPT !.sets[s[1]].waiting = b]
    BY Zenon, <2>0
  <2> HIDE DEF p
  <2>2. /\ p \in Registries
        /\ p.events = r.events /\ p.hw = r.hw /\ p.asleep = r.asleep
        /\ \A i \in 1 .. MaxSets :
              /\ p.sets[i].gen = r.sets[i].gen /\ p.sets[i].owner = r.sets[i].owner
              /\ p.sets[i].members = r.sets[i].members /\ p.sets[i].invalidated = r.sets[i].invalidated
              /\ p.sets[i].waiting = IF i = s[1] THEN b ELSE r.sets[i].waiting
    <3>1. IsPublished(r, s, b, p)
      BY Zenon, <2>1, WaitingFields
    <3> QED BY <3>1, Zenon DEF IsPublished
  <2> QED BY Zenon, <2>2
<1> HIDE DEF p
<1>2. /\ q \in Registries
      /\ q.events = p.events /\ q.sets = p.sets /\ q.hw = p.hw
      /\ \A o \in Services : q.asleep[o] = IF p.asleep[o] \in {s} THEN None ELSE p.asleep[o]
  BY <1>1, WakeFields
<1> HIDE DEF q
<1>3. /\ q \in Registries /\ q.events = r.events /\ q.hw = r.hw
      /\ \A i \in 1 .. MaxSets :
              /\ q.sets[i].gen = r.sets[i].gen /\ q.sets[i].owner = r.sets[i].owner
              /\ q.sets[i].members = r.sets[i].members /\ q.sets[i].invalidated = r.sets[i].invalidated
              /\ i # s[1] => q.sets[i].waiting = r.sets[i].waiting
      /\ \A o \in Services : q.asleep[o] # None => q.asleep[o] = r.asleep[o] /\ q.asleep[o] # s
  <2>1. q \in Registries /\ q.events = r.events /\ q.hw = r.hw /\ q.sets = p.sets
    BY Zenon, <1>1, <1>2
  <2>2. ASSUME NEW o \in Services, q.asleep[o] # None PROVE q.asleep[o] = r.asleep[o] /\ q.asleep[o] # s
    BY Zenon, <1>1, <1>2, <2>2
  <2> QED BY <1>1, <2>1, <2>2, Zenon
<1>4. \A i \in 1 .. MaxSets : \A c : InSet(q, i, c) <=> InSet(r, i, c)
  BY Zenon, <1>3, SameMembers
<1>5. \A c : (LiveEvent(q, c) <=> LiveEvent(r, c)) /\ (Ready(q, c) <=> Ready(r, c))
  BY Zenon, <1>3 DEF LiveEvent, Ready
<1>6. \A t \in SetHandles : LiveSet(q, t) <=> LiveSet(r, t)
  BY Zenon, <1>3, Pairs DEF LiveSet
<1>7. MembersOK(q)
  BY <1>3, <1>4 DEF Good, Sound, MembersOK
<1>8. OwnersOK(q, R)
  BY Zenon, <1>3 DEF Good, Sound, OwnersOK
<1>9. RoutesOK(q)
  <2> SUFFICES ASSUME NEW h \in Sources
               PROVE  /\ q.hw[h].event # None => LiveEvent(q, q.hw[h].event)
                      /\ q.hw[h].set # None => /\ LiveSet(q, q.hw[h].set)
                                               /\ q.hw[h].event # None
                                               /\ InSet(q, q.hw[h].set[1], q.hw[h].event)
    BY Zenon DEF RoutesOK
  <2>1. q.hw[h].set # None => q.hw[h].set \in SetHandles /\ q.hw[h].set[1] \in 1 .. MaxSets
    BY <1>3, SlotFields, Pairs
  <2> QED BY Zenon, <1>3, <1>4, <1>5, <1>6, <2>1 DEF Good, Sound, RoutesOK
<1>10. ASSUME NEW o \in Services, q.asleep[o] # None
       PROVE  /\ q.asleep[o] = r.asleep[o] /\ r.asleep[o] \in SetHandles
              /\ o \in R /\ LiveSet(r, r.asleep[o]) /\ r.asleep[o][1] \in 1 .. MaxSets
              /\ r.sets[r.asleep[o][1]].owner = o /\ r.sets[r.asleep[o][1]].waiting
              /\ ~r.sets[r.asleep[o][1]].invalidated
              /\ r.asleep[o][1] # s[1]
  <2>1. q.asleep[o] = r.asleep[o] /\ r.asleep[o] # s
    BY Zenon, <1>3, <1>10
  <2>2. r.asleep[o] \in SetHandles /\ r.asleep[o][1] \in 1 .. MaxSets /\ r.asleep[o] = <<r.asleep[o][1], r.asleep[o][2]>>
    BY Zenon, <2>1, <1>10, SlotFields, Pairs
  <2>3. /\ o \in R /\ LiveSet(r, r.asleep[o])
        /\ r.sets[r.asleep[o][1]].owner = o /\ r.sets[r.asleep[o][1]].waiting
        /\ ~r.sets[r.asleep[o][1]].invalidated
    BY Zenon, <2>1, <1>10 DEF Good, Sound, SleepOK
  <2>4. r.asleep[o][1] # s[1]
    BY Zenon, <2>1, <2>2, <2>3, <1>0 DEF LiveSet
  <2> QED BY Zenon, <2>1, <2>2, <2>3, <2>4
<1>11. SleepOK(q, R)
  BY SMTT(40), <1>3, <1>6, <1>10 DEF SleepOK
<1>12. CallOK(q, R, x)
  BY Zenon DEF CallOK
<1>13. KeptOK(q, W)
  BY Zenon, <1>5 DEF Good, KeptOK
<1>14. ~SharedHardware => BoundOK(q)
  BY <1>3, <1>4 DEF Good, BoundOK
<1>15. ASSUME ~SharedHardware PROVE PromptOK(q, x, I)
  <2> SUFFICES ASSUME NEW c \in Services, NEW d \in Handles,
                      q.asleep[c] # None, InSet(q, q.asleep[c][1], d), Ready(q, d)
               PROVE  Coming(q, I, q.asleep[c])
    BY Zenon DEF PromptOK
  <2>1. InSet(r, r.asleep[c][1], d) /\ Ready(r, d) /\ r.asleep[c] # None
    BY Zenon, <1>4, <1>5, <1>10
  <2>4. Coming(r, I, r.asleep[c])
    BY Zenon, <2>1, <1>15 DEF Good, PromptOK, Ahead
  <2> QED BY <1>3, <1>10, <2>4 DEF Coming
<1>16. Good(q, R, x, I, W)
  BY Zenon, <1>7, <1>8, <1>9, <1>11, <1>12, <1>13, <1>14, <1>15 DEF Good, Sound
<1> QED BY <1>3, <1>16, Zenon DEF q, p

(* The wait moves and the registry does not: what the recheck had ahead of  *)
(* it and is ready stays ahead, or its caller no longer sleeps.             *)
LEMMA CallGood ==
  ASSUME NEW r \in Registries, NEW R \in SUBSET Services, NEW x, NEW y, NEW I, NEW W,
         Good(r, R, x, I, W), CallOK(r, R, y),
         \A o \in Services : \A e \in Handles :
            r.asleep[o] # None /\ Ready(r, e) /\ Ahead(r, x, o, e) => Ahead(r, y, o, e)
  PROVE  Good(r, R, y, I, W)
<1>1. ~SharedHardware => PromptOK(r, y, I)
  BY Zenon DEF Good, PromptOK
<1> QED BY Zenon, <1>1 DEF Good

(* A handler moves and the registry does not: a wake that was on its way is *)
(* still on its way.                                                        *)
LEMMA HandlerGood ==
  ASSUME NEW r \in Registries, NEW R, NEW x, NEW I, NEW J, NEW W, Good(r, R, x, I, W),
         \A o \in Services : r.asleep[o] # None /\ Coming(r, I, r.asleep[o]) => Coming(r, J, r.asleep[o])
  PROVE  Good(r, R, x, J, W)
<1>1. ~SharedHardware => PromptOK(r, x, J)
  BY Zenon DEF Good, PromptOK
<1> QED BY Zenon, <1>1 DEF Good

(* The deadline of a sleeper passes, or its task is removed.                *)
LEMMA TimerGood ==
  ASSUME NEW r \in Registries, NEW R \in SUBSET Services, NEW x \in Calls, NEW I, NEW W, NEW o \in Services,
         Good(r, R, x, I, W),
         NEW q, Sleeps(r, o, None, q)
  PROVE  q \in Registries /\ q.events = r.events /\ Good(q, R, x, I, W)
<1>1. /\ q \in Registries /\ q.events = r.events /\ q.sets = r.sets /\ q.hw = r.hw
      /\ \A c \in Services : q.asleep[c] = r.asleep[c] \/ q.asleep[c] = None
  <2>1. IsAsleep(r, o, None, q)
    BY Zenon, AsleepTables
  <2> QED BY Zenon, <2>1 DEF IsAsleep
<1>2. \A i, e : InSet(q, i, e) <=> InSet(r, i, e)
  BY Zenon, <1>1 DEF InSet
<1>3. \A e : (LiveEvent(q, e) <=> LiveEvent(r, e)) /\ (LiveSet(q, e) <=> LiveSet(r, e))
             /\ (Ready(q, e) <=> Ready(r, e))
  BY Zenon, <1>1 DEF LiveEvent, LiveSet, Ready
<1>4. MembersOK(q)
  BY <1>1, <1>2 DEF Good, Sound, MembersOK
<1>5. OwnersOK(q, R)
  BY Zenon, <1>1 DEF Good, Sound, OwnersOK
<1>6. RoutesOK(q)
  BY Zenon, <1>1, <1>2, <1>3 DEF Good, Sound, RoutesOK
<1>7. SleepOK(q, R)
  BY <1>1, <1>3 DEF Good, Sound, SleepOK
<1>8. CallOK(q, R, x)
  <2>1. x.owner \in Services
    BY Zenon DEF Calls
  <2> QED BY Zenon, <1>1, <1>3, <2>1 DEF Good, CallOK
<1>9. KeptOK(q, W)
  BY Zenon, <1>3 DEF Good, KeptOK
<1>10. ~SharedHardware => BoundOK(q)
  BY Zenon, <1>1, <1>2 DEF Good, BoundOK
<1>11. ~SharedHardware => PromptOK(q, x, I)
  BY <1>1, <1>2, <1>3 DEF Good, PromptOK, Coming, Ahead
<1> QED BY Zenon, <1>1, <1>4, <1>5, <1>6, <1>7, <1>8, <1>9, <1>10, <1>11 DEF Good, Sound

(* The interrupt handler stores the pending flag; from then on a sleeper on *)
(* the bound set has this handler coming.                                   *)
LEMMA PendGood ==
  ASSUME NEW r \in Registries, NEW R \in SUBSET Services, NEW x \in Calls, NEW h \in Sources,
         NEW I \in [Sources -> Interrupts], NEW W, Good(r, R, x, I, W), I[h].pc = "pend",
         NEW J, J = [I EXCEPT ![h].pc = "load"],
         NEW q, Pends(r, h, q)
  PROVE  q \in Registries /\ Good(q, R, x, J, W \cup ({r.hw[h].event} \ {None}))
<1>1. /\ q \in Registries /\ q.events = r.events /\ q.sets = r.sets /\ q.asleep = r.asleep
      /\ \A g \in Sources :
              /\ q.hw[g].event = r.hw[g].event /\ q.hw[g].set = r.hw[g].set
              /\ q.hw[g].pending = IF g = h THEN TRUE ELSE r.hw[g].pending
  <2>1. IsPended(r, h, q)
    BY Zenon, PendingTables
  <2> QED BY Zenon, <2>1 DEF IsPended
<1>2. \A i, e : InSet(q, i, e) <=> InSet(r, i, e)
  BY <1>1 DEF InSet
<1>3. \A e : (LiveEvent(q, e) <=> LiveEvent(r, e)) /\ (LiveSet(q, e) <=> LiveSet(r, e))
  BY Zenon, <1>1 DEF LiveEvent, LiveSet
<1>4. ASSUME NEW e, Ready(r, e) PROVE Ready(q, e)
  BY Zenon, <1>1, <1>4 DEF Ready, LiveEvent
<1>5. ASSUME NEW e, Ready(q, e) PROVE Ready(r, e) \/ e = r.hw[h].event
  BY Zenon, <1>1, <1>5 DEF Ready, LiveEvent
<1>6. Ready(q, r.hw[h].event)
  BY Zenon, <1>1 DEF Ready
<1>7. MembersOK(q)
  <2>1. MembersOK(r)
    BY Zenon DEF Good, Sound
  <2> QED BY Zenon, <1>1, <1>2, <2>1 DEF MembersOK
<1>8. OwnersOK(q, R)
  BY Zenon, <1>1 DEF Good, Sound, OwnersOK
<1>9. RoutesOK(q)
  BY Zenon, <1>1, <1>2, <1>3 DEF Good, Sound, RoutesOK
<1>10. SleepOK(q, R)
  <2>1. SleepOK(r, R)
    BY Zenon DEF Good, Sound
  <2> QED BY Zenon, <1>1, <1>3, <2>1 DEF SleepOK
<1>11. CallOK(q, R, x)
  BY Zenon, <1>1, <1>3 DEF Good, CallOK
<1>12. KeptOK(q, W \cup ({r.hw[h].event} \ {None}))
  <2>1. r.hw[h].event # None => LiveEvent(q, r.hw[h].event)
    BY Zenon, <1>3 DEF Good, Sound, RoutesOK
  <2> QED BY Zenon, <1>3, <1>4, <1>6, <2>1 DEF Good, KeptOK
<1>13. ~SharedHardware => BoundOK(q)
  BY Zenon, <1>1, <1>2 DEF Good, BoundOK
<1>14. J[h].pc = "load" /\ \A g \in Sources : g # h => J[g] = I[g]
  BY Zenon DEF Interrupts
<1>15. ASSUME NEW s, Coming(r, I, s) PROVE Coming(q, J, s)
  BY Zenon, <1>1, <1>14, <1>15 DEF Coming
<1>16. ASSUME ~SharedHardware PROVE PromptOK(q, x, J)
  <2> SUFFICES ASSUME NEW o \in Services, NEW e \in Handles,
                      q.asleep[o] # None, InSet(q, q.asleep[o][1], e), Ready(q, e)
               PROVE  Coming(q, J, q.asleep[o]) \/ Ahead(q, x, o, e)
    BY Zenon DEF PromptOK
  <2>1. r.asleep[o] # None /\ InSet(r, r.asleep[o][1], e)
    BY Zenon, <1>1, <1>2
  <2>2. CASE Ready(r, e)
    <3>1. Coming(r, I, r.asleep[o]) \/ Ahead(r, x, o, e)
      BY Zenon, <2>1, <2>2, <1>16 DEF Good, PromptOK
    <3>2. Ahead(r, x, o, e) => Ahead(q, x, o, e)
      BY Zenon, <1>1 DEF Ahead
    <3> QED BY Zenon, <3>1, <3>2, <1>1, <1>15
  <2>3. CASE e = r.hw[h].event
    <3>1. r.asleep[o] \in SetHandles
      BY Zenon, <2>1, SlotFields
    <3>2. r.asleep[o][1] \in 1 .. MaxSets /\ r.asleep[o] = <<r.asleep[o][1], r.asleep[o][2]>> /\ e # None
      BY Zenon, <3>1, Pairs
    <3>3. r.hw[h].set = <<r.asleep[o][1], r.sets[r.asleep[o][1]].gen>>
      BY Zenon, <2>1, <2>3, <3>2, <1>16 DEF Good, BoundOK
    <3>4. r.sets[r.asleep[o][1]].gen = r.asleep[o][2]
      BY Zenon, <2>1 DEF Good, Sound, SleepOK, LiveSet
    <3>5. q.hw[h].set = q.asleep[o]
      BY Zenon, <3>2, <3>3, <3>4, <1>1
    <3> QED BY Zenon, <3>5, <1>14 DEF Coming
  <2> QED BY Zenon, <1>5, <2>2, <2>3
<1> QED BY Zenon, <1>1, <1>7, <1>8, <1>9, <1>10, <1>11, <1>12, <1>13, <1>16 DEF Good, Sound

(* The registry a graph restart builds.                                     *)
LEMMA NewRegistryGood ==
  ASSUME NEW n \in Nat, NEW x \in Calls, x.pc = "free", NEW I,
         NEW q, q = NewRegistry(n)
  PROVE  q \in Registries /\ Good(q, Services, x, I, {})
<1>1. /\ q \in Registries
      /\ \A i \in 1 .. MaxEvents : /\ q.events[i].gen = n /\ q.events[i].signaled = FALSE
                                   /\ q.events[i].owner = IF i \in Sources THEN Driver ELSE None
      /\ \A i \in 1 .. MaxSets : /\ q.sets[i].gen = n /\ q.sets[i].owner = None
                                 /\ q.sets[i].members = << >>
                                 /\ q.sets[i].waiting = FALSE /\ q.sets[i].invalidated = FALSE
      /\ \A h \in Sources : q.hw[h].event = <<h, n>> /\ q.hw[h].set = None /\ q.hw[h].pending = FALSE
      /\ \A o \in Services : q.asleep[o] = None
  <2>1. IsFresh(n, q)
    BY Zenon, NewRegistryFields
  <2> QED BY Zenon, <2>1 DEF IsFresh
<1>2. \A i \in 1 .. MaxSets : \A e : ~InSet(q, i, e)
  BY <1>1, NoneEmpty
<1>3. MembersOK(q)
  BY Zenon, <1>2 DEF MembersOK
<1>4. OwnersOK(q, Services)
  BY Zenon, <1>1, DriverAssumption DEF OwnersOK
<1>5. RoutesOK(q)
  <2> SUFFICES ASSUME NEW h \in Sources PROVE LiveEvent(q, q.hw[h].event)
    BY Zenon, <1>1 DEF RoutesOK
  <2>1. h \in 1 .. MaxEvents
    BY BoundsAssumption DEF Sources
  <2>2. q.events[h].gen = n /\ q.events[h].owner = Driver /\ q.hw[h].event = <<h, n>>
    BY Zenon, <1>1, <2>1
  <2> QED BY <2>2, DriverAssumption, NoneOwner DEF LiveEvent
<1>6. SleepOK(q, Services)
  BY Zenon, <1>1 DEF SleepOK
<1>7. CallOK(q, Services, x) /\ KeptOK(q, {}) /\ BoundOK(q)
  BY Zenon, <1>2 DEF CallOK, KeptOK, BoundOK
<1>8. PromptOK(q, x, I)
  BY Zenon, <1>1 DEF PromptOK
<1> QED BY Zenon, <1>1, <1>3, <1>4, <1>5, <1>6, <1>7, <1>8 DEF Good, Sound

(* Nobody sleeps on the set of a wait that has not registered yet.          *)
LEMMA OthersSleep ==
  ASSUME NEW r \in Registries, NEW R \in SUBSET Services, NEW x \in Calls, NEW I, NEW W,
         Good(r, R, x, I, W), x.pc \in {"scan", "consume", "register"},
         NEW o \in Services, r.asleep[o] # None
  PROVE  r.asleep[o] \in SetHandles /\ r.asleep[o][1] \in 1 .. MaxSets /\ r.asleep[o][1] # x.set[1] /\ o # x.owner
<1>1. r.asleep[o] \in SetHandles /\ r.asleep[o][1] \in 1 .. MaxSets
  BY Zenon, SlotFields, Pairs
<1>2. r.sets[r.asleep[o][1]].owner = o
  BY Zenon DEF Good, Sound, SleepOK
<1>3. r.sets[x.set[1]].owner = x.owner /\ r.asleep[x.owner] = None
  BY Zenon DEF Good, CallOK
<1> QED BY Zenon, <1>1, <1>2, <1>3

(* The set of a wait and the member it stands at.                           *)
LEMMA Standing ==
  ASSUME NEW r \in Registries, NEW R \in SUBSET Services, NEW x \in Calls, NEW I, NEW W,
         Good(r, R, x, I, W), x.pc # "free"
  PROVE  /\ x.set \in SetHandles /\ x.set[1] \in 1 .. MaxSets /\ x.set = <<x.set[1], x.set[2]>>
         /\ x.owner \in R /\ x.owner \in Services /\ x.i \in Nat \ {0}
         /\ DOMAIN r.sets[x.set[1]].members \subseteq Nat \ {0}
         /\ \A k \in DOMAIN r.sets[x.set[1]].members :
                LET e == r.sets[x.set[1]].members[k] IN
                e \in Handles /\ InSet(r, x.set[1], e) /\ LiveEvent(r, e)
<1>1. x.set # None /\ x.owner \in R /\ x.i >= 1 /\ r.sets[x.set[1]].owner = x.owner
  BY Zenon DEF Good, CallOK
<1>2. x.set \in SetHandles /\ x.i \in Nat /\ x.owner \in Services
  BY Zenon, <1>1 DEF Calls
<1>3. x.set[1] \in 1 .. MaxSets /\ x.set = <<x.set[1], x.set[2]>>
  BY Zenon, <1>2, Pairs
<1>4. r.sets[x.set[1]].members \in Seq(Handles)
  BY Zenon, <1>3, SlotFields
<1>5. DOMAIN r.sets[x.set[1]].members \subseteq Nat \ {0}
  <2>1. \A m \in Seq(Handles) : DOMAIN m \subseteq Nat \ {0}
    OBVIOUS
  <2> QED BY Zenon, <2>1, <1>4
<1>6. ASSUME NEW k \in DOMAIN r.sets[x.set[1]].members
      PROVE  /\ r.sets[x.set[1]].members[k] \in Handles
             /\ InSet(r, x.set[1], r.sets[x.set[1]].members[k])
             /\ LiveEvent(r, r.sets[x.set[1]].members[k])
  <2>1. r.sets[x.set[1]].members[k] \in Handles
    BY <1>4
  <2>2. InSet(r, x.set[1], r.sets[x.set[1]].members[k])
    BY Zenon DEF InSet
  <2> QED BY Zenon, <2>1, <2>2, <1>1, <1>2, <1>3, NoneOwner DEF Good, Sound, MembersOK, LiveEvent
<1>7. x.i \in Nat \ {0}
  BY <1>1, <1>2
<1> QED BY Zenon, <1>1, <1>2, <1>3, <1>5, <1>6, <1>7

(* The event is reported: its flags go down and it is owed no longer, and   *)
(* every other event stays ready.                                           *)
LEMMA ConsumedGood ==
  ASSUME NEW r \in Registries, NEW R \in SUBSET Services, NEW x, NEW y, NEW I, NEW W \in SUBSET Handles,
         Good(r, R, x, I, W), x.pc # "recheck", y.pc = "free",
         NEW s \in SetHandles, \A o \in Services : r.asleep[o] # None => r.asleep[o][1] # s[1],
         NEW e \in Handles, LiveEvent(r, e),
         NEW q, q = Consumed(r, s, e)
  PROVE  q \in Registries /\ Good(q, R, y, I, W \ {e})
<1>3. /\ q \in Registries
      /\ q.asleep = r.asleep
      /\ \A i \in 1 .. MaxEvents :
              /\ q.events[i].gen = r.events[i].gen /\ q.events[i].owner = r.events[i].owner
              /\ q.events[i].signaled = IF i = e[1] THEN FALSE ELSE r.events[i].signaled
      /\ \A i \in 1 .. MaxSets :
              /\ q.sets[i].gen = r.sets[i].gen /\ q.sets[i].owner = r.sets[i].owner
              /\ q.sets[i].members = r.sets[i].members /\ q.sets[i].invalidated = r.sets[i].invalidated
              /\ q.sets[i].waiting = IF i = s[1] THEN FALSE ELSE r.sets[i].waiting
      /\ \A h \in Sources :
              /\ q.hw[h].event = r.hw[h].event /\ q.hw[h].set = r.hw[h].set
              /\ q.hw[h].pending = IF r.hw[h].event = e THEN FALSE ELSE r.hw[h].pending
  <2>1. IsConsumed(r, s, e, q)
    BY Zenon, ConsumedFields
  <2> QED BY <2>1, Zenon DEF IsConsumed
<1>30. /\ \A i \in 1 .. MaxEvents : q.events[i].gen = r.events[i].gen /\ q.events[i].owner = r.events[i].owner
       /\ \A i \in 1 .. MaxSets : /\ q.sets[i].gen = r.sets[i].gen /\ q.sets[i].owner = r.sets[i].owner
                                  /\ q.sets[i].members = r.sets[i].members
                                  /\ q.sets[i].invalidated = r.sets[i].invalidated
                                  /\ i # s[1] => q.sets[i].waiting = r.sets[i].waiting
       /\ \A h \in Sources : q.hw[h].event = r.hw[h].event /\ q.hw[h].set = r.hw[h].set
       /\ q \in Registries /\ q.asleep = r.asleep
  BY Zenon, <1>3
<1>4. \A i \in 1 .. MaxSets : \A c : InSet(q, i, c) <=> InSet(r, i, c)
  BY Zenon, <1>30, SameMembers
<1>5. \A c \in Handles : LiveEvent(q, c) <=> LiveEvent(r, c)
  BY Zenon, <1>30, Pairs DEF LiveEvent
<1>6. \A t \in SetHandles : LiveSet(q, t) <=> LiveSet(r, t)
  BY Zenon, <1>30, Pairs DEF LiveSet
<1>7. ASSUME NEW c \in Handles, Ready(q, c) PROVE Ready(r, c)
  <2>1. c[1] \in 1 .. MaxEvents
    BY Zenon, Pairs
  <2>2. ASSUME LiveEvent(q, c), q.events[c[1]].signaled PROVE Ready(r, c)
    BY Zenon, <2>1, <2>2, <1>3, <1>5 DEF Ready
  <2>3. ASSUME NEW h \in Sources, q.hw[h].event = c, q.hw[h].pending PROVE Ready(r, c)
    BY Zenon, <2>3, <1>3 DEF Ready
  <2> QED BY Zenon, <1>7, <2>2, <2>3 DEF Ready
<1>8. ASSUME NEW c \in Handles, c # e, LiveEvent(r, c), Ready(r, c) PROVE Ready(q, c)
  <2>1. c[1] \in 1 .. MaxEvents /\ c = <<c[1], c[2]>> /\ e = <<e[1], e[2]>>
    BY Zenon, Pairs
  <2>2. c[1] # e[1]
    BY Zenon, <1>8, <2>1 DEF LiveEvent
  <2>3. ASSUME r.events[c[1]].signaled PROVE Ready(q, c)
    BY Zenon, <2>1, <2>2, <2>3, <1>3, <1>5, <1>8 DEF Ready
  <2>4. ASSUME NEW h \in Sources, r.hw[h].event = c, r.hw[h].pending PROVE Ready(q, c)
    BY Zenon, <2>4, <1>3, <1>8 DEF Ready
  <2> QED BY Zenon, <1>8, <2>3, <2>4 DEF Ready
<1>9. MembersOK(q)
  <2> SUFFICES ASSUME NEW i \in 1 .. MaxSets, NEW c \in Handles, InSet(q, i, c)
               PROVE  /\ q.sets[i].owner # None
                      /\ q.events[c[1]].gen = c[2]
                      /\ q.events[c[1]].owner = q.sets[i].owner
    BY Zenon DEF MembersOK
  <2>1. /\ r.sets[i].owner # None
        /\ r.events[c[1]].gen = c[2]
        /\ r.events[c[1]].owner = r.sets[i].owner
    BY Zenon, <1>4 DEF Good, Sound, MembersOK
  <2>2. c[1] \in 1 .. MaxEvents
    BY Zenon, Pairs
  <2> QED BY Zenon, <2>1, <2>2, <1>30
<1>10. OwnersOK(q, R)
  BY Zenon, <1>30 DEF Good, Sound, OwnersOK
<1>11. RoutesOK(q)
  <2> SUFFICES ASSUME NEW h \in Sources
               PROVE  /\ q.hw[h].event # None => LiveEvent(q, q.hw[h].event)
                      /\ q.hw[h].set # None => /\ LiveSet(q, q.hw[h].set)
                                               /\ q.hw[h].event # None
                                               /\ InSet(q, q.hw[h].set[1], q.hw[h].event)
    BY Zenon DEF RoutesOK
  <2>1. /\ r.hw[h].set # None => r.hw[h].set \in SetHandles /\ r.hw[h].set[1] \in 1 .. MaxSets
        /\ r.hw[h].event # None => r.hw[h].event \in Handles
    BY Zenon, SlotFields, Pairs
  <2>2. q.hw[h].event = r.hw[h].event /\ q.hw[h].set = r.hw[h].set
    BY Zenon, <1>3
  <2> QED BY Zenon, <1>4, <1>5, <1>6, <2>1, <2>2 DEF Good, Sound, RoutesOK
<1>12. SleepOK(q, R)
  <2> SUFFICES ASSUME NEW o \in Services, q.asleep[o] # None
               PROVE  /\ o \in R /\ LiveSet(q, q.asleep[o]) /\ q.sets[q.asleep[o][1]].owner = o
                      /\ q.sets[q.asleep[o][1]].waiting /\ ~q.sets[q.asleep[o][1]].invalidated
    BY Zenon DEF SleepOK
  <2>1. r.asleep[o] # None /\ q.asleep[o] = r.asleep[o]
    BY Zenon, <1>3
  <2>2. r.asleep[o] \in SetHandles /\ r.asleep[o][1] \in 1 .. MaxSets /\ r.asleep[o][1] # s[1]
    BY Zenon, <2>1, SlotFields, Pairs
  <2>3. /\ o \in R /\ LiveSet(r, r.asleep[o]) /\ r.sets[r.asleep[o][1]].owner = o
        /\ r.sets[r.asleep[o][1]].waiting /\ ~r.sets[r.asleep[o][1]].invalidated
    BY Zenon, <2>1 DEF Good, Sound, SleepOK
  <2>4. /\ q.sets[r.asleep[o][1]].owner = r.sets[r.asleep[o][1]].owner
        /\ q.sets[r.asleep[o][1]].waiting = r.sets[r.asleep[o][1]].waiting
        /\ q.sets[r.asleep[o][1]].invalidated = r.sets[r.asleep[o][1]].invalidated
    BY Zenon, <2>2, <1>30
  <2>5. LiveSet(q, r.asleep[o])
    BY Zenon, <2>2, <2>3, <1>6
  <2> QED BY Zenon, <2>1, <2>3, <2>4, <2>5
<1>13. CallOK(q, R, y)
  BY Zenon DEF CallOK
<1>14. KeptOK(q, W \ {e})
  BY Zenon, <1>5, <1>8 DEF Good, KeptOK
<1>15. ~SharedHardware => BoundOK(q)
  BY <1>30, <1>4 DEF Good, BoundOK
<1>16. ASSUME ~SharedHardware PROVE PromptOK(q, y, I)
  <2> SUFFICES ASSUME NEW o \in Services, NEW d \in Handles,
                      q.asleep[o] # None, InSet(q, q.asleep[o][1], d), Ready(q, d)
               PROVE  Coming(q, I, q.asleep[o])
    BY Zenon DEF PromptOK
  <2>1. r.asleep[o] # None /\ q.asleep[o] = r.asleep[o]
    BY Zenon, <1>3
  <2>2. InSet(r, r.asleep[o][1], d) /\ Ready(r, d)
    BY Zenon, <1>4, <1>7, <2>1, SlotFields, Pairs
  <2>3. Coming(r, I, r.asleep[o])
    BY Zenon, <1>16, <2>1, <2>2 DEF Good, PromptOK, Ahead
  <2> QED BY Zenon, <2>1, <2>3, <1>30 DEF Coming
<1> QED BY Zenon, <1>3, <1>9, <1>10, <1>11, <1>12, <1>13, <1>14, <1>15, <1>16 DEF Good, Sound

(* The scan ends without a ready member: the waiter is unpublished at a     *)
(* deadline that is due, or published before the registration.              *)
LEMMA PublishGood ==
  ASSUME NEW r \in Registries, NEW R \in SUBSET Services, NEW x, NEW y, NEW I, NEW W \in SUBSET Handles,
         Good(r, R, x, I, W), x.pc # "recheck", NEW b \in BOOLEAN,
         NEW s \in SetHandles, \A o \in Services : r.asleep[o] # None => r.asleep[o][1] # s[1],
         NEW q, IsPublished(r, s, b, q), CallOK(q, R, y)
  PROVE  q \in Registries /\ Good(q, R, y, I, W)
<1>2. /\ q \in Registries
      /\ q.events = r.events /\ q.hw = r.hw /\ q.asleep = r.asleep
      /\ \A i \in 1 .. MaxSets :
              /\ q.sets[i].gen = r.sets[i].gen /\ q.sets[i].owner = r.sets[i].owner
              /\ q.sets[i].members = r.sets[i].members /\ q.sets[i].invalidated = r.sets[i].invalidated
              /\ q.sets[i].waiting = IF i = s[1] THEN b ELSE r.sets[i].waiting
  BY Zenon DEF IsPublished
<1>3. \A i \in 1 .. MaxSets : \A c : InSet(q, i, c) <=> InSet(r, i, c)
  BY Zenon, <1>2, SameMembers
<1>4. \A c : (LiveEvent(q, c) <=> LiveEvent(r, c)) /\ (Ready(q, c) <=> Ready(r, c))
  BY Zenon, <1>2 DEF LiveEvent, Ready
<1>5. \A t \in SetHandles : LiveSet(q, t) <=> LiveSet(r, t)
  BY Zenon, <1>2, Pairs DEF LiveSet
<1>6. MembersOK(q)
  BY <1>2, <1>3 DEF Good, Sound, MembersOK
<1>7. OwnersOK(q, R)
  BY Zenon, <1>2 DEF Good, Sound, OwnersOK
<1>8. RoutesOK(q)
  <2> SUFFICES ASSUME NEW h \in Sources
               PROVE  /\ q.hw[h].event # None => LiveEvent(q, q.hw[h].event)
                      /\ q.hw[h].set # None => /\ LiveSet(q, q.hw[h].set)
                                               /\ q.hw[h].event # None
                                               /\ InSet(q, q.hw[h].set[1], q.hw[h].event)
    BY Zenon DEF RoutesOK
  <2>1. r.hw[h].set # None => r.hw[h].set \in SetHandles /\ r.hw[h].set[1] \in 1 .. MaxSets
    BY Zenon, SlotFields, Pairs
  <2> QED BY <1>2, <1>3, <1>4, <1>5, <2>1 DEF Good, Sound, RoutesOK
<1>9. SleepOK(q, R)
  <2> SUFFICES ASSUME NEW o \in Services, q.asleep[o] # None
               PROVE  /\ o \in R /\ LiveSet(q, q.asleep[o]) /\ q.sets[q.asleep[o][1]].owner = o
                      /\ q.sets[q.asleep[o][1]].waiting /\ ~q.sets[q.asleep[o][1]].invalidated
    BY Zenon DEF SleepOK
  <2>1. r.asleep[o] # None /\ q.asleep[o] = r.asleep[o]
    BY Zenon, <1>2
  <2>2. r.asleep[o] \in SetHandles /\ r.asleep[o][1] \in 1 .. MaxSets /\ r.asleep[o][1] # s[1]
    BY Zenon, <2>1, SlotFields, Pairs
  <2>3. /\ o \in R /\ LiveSet(r, r.asleep[o]) /\ r.sets[r.asleep[o][1]].owner = o
        /\ r.sets[r.asleep[o][1]].waiting /\ ~r.sets[r.asleep[o][1]].invalidated
    BY Zenon, <2>1 DEF Good, Sound, SleepOK
  <2> QED BY <2>1, <2>2, <2>3, <1>2, <1>5
<1>11. KeptOK(q, W)
  BY Zenon, <1>4 DEF Good, KeptOK
<1>12. ~SharedHardware => BoundOK(q)
  BY <1>2, <1>3 DEF Good, BoundOK
<1>13. ASSUME ~SharedHardware PROVE PromptOK(q, y, I)
  <2> SUFFICES ASSUME NEW o \in Services, NEW d \in Handles,
                      q.asleep[o] # None, InSet(q, q.asleep[o][1], d), Ready(q, d)
               PROVE  Coming(q, I, q.asleep[o])
    BY Zenon DEF PromptOK
  <2>1. r.asleep[o] # None /\ q.asleep[o] = r.asleep[o]
    BY Zenon, <1>2
  <2>2. InSet(r, r.asleep[o][1], d) /\ Ready(r, d)
    BY Zenon, <1>3, <1>4, <2>1, SlotFields, Pairs
  <2>3. Coming(r, I, r.asleep[o])
    BY Zenon, <1>13, <2>1, <2>2 DEF Good, PromptOK, Ahead
  <2> QED BY Zenon, <2>1, <2>3, <1>2 DEF Coming
<1> QED BY Zenon, <1>2, <1>6, <1>7, <1>8, <1>9, <1>11, <1>12, <1>13 DEF Good, Sound

(* The first vacant slot is one of the vacant slots.                        *)
LEMMA FirstIn ==
  ASSUME NEW S \in SUBSET Nat, S # {}
  PROVE  First(S) \in S
<1>1. \E i \in S : \A j \in S : i <= j
  BY Zenon, Least
<1> QED BY Zenon, <1>1 DEF First

(* What the invariant says of the state a call starts from.                 *)
LEMMA CallerFacts ==
  ASSUME EInv, NEW o \in Services, Caller(o)
  PROVE  /\ reg \in Registries /\ running \in SUBSET Services /\ op \in Calls /\ owed \in SUBSET Handles
         /\ Good(reg, running, op, isr, owed) /\ op.pc = "free" /\ o \in running /\ reg.asleep[o] = None
BY Zenon DEF EInv, TypeOK, Caller

(* Creating an event keeps the invariant.                                   *)
LEMMA CreateEventKeeps ==
  ASSUME EInv, NEW o \in Services, CreateEvent(o)
  PROVE  EInv'
<1> DEFINE i == First(Vacant(reg.events))
<1>1. Caller(o) /\ Vacant(reg.events) # {} /\ reg' = NewEvent(reg, i, o)
      /\ UNCHANGED <<running, epoch, op, isr, owed, dead>>
  BY Zenon DEF CreateEvent
<1>2. /\ reg \in Registries /\ running \in SUBSET Services /\ op \in Calls /\ owed \in SUBSET Handles
      /\ Good(reg, running, op, isr, owed) /\ op.pc = "free" /\ o \in running
  BY Zenon, <1>1, CallerFacts
<1>3. i \in Vacant(reg.events)
  <2>1. DOMAIN reg.events \subseteq Nat
    <3>1. DOMAIN reg.events = 1 .. MaxEvents
      BY Zenon, <1>2, RegistryDomains
    <3> QED BY <3>1
  <2>2. Vacant(reg.events) \in SUBSET Nat
    BY Zenon, <2>1 DEF Vacant
  <2> QED BY Zenon, <1>1, <2>2, FirstIn
<1> HIDE DEF i
<1>4. i \in 1 .. MaxEvents /\ reg.events[i].owner = None
  BY Zenon, <1>2, <1>3, RegistryFields DEF Vacant
<1>5. reg' \in Registries
  BY Zenon, <1>1, <1>2, <1>4, NewEventFields
<1>6. Good(reg', running, op, isr, owed)
  BY Zenon, <1>1, <1>2, <1>4, NewEventGood
<1> QED BY Zenon, <1>1, <1>5, <1>6 DEF EInv, TypeOK

(* Creating a set keeps the invariant.                                      *)
LEMMA CreateSetKeeps ==
  ASSUME EInv, NEW o \in Services, CreateSet(o)
  PROVE  EInv'
<1> DEFINE i == First(Vacant(reg.sets))
<1>1. Caller(o) /\ Vacant(reg.sets) # {} /\ reg' = NewSet(reg, i, o)
      /\ UNCHANGED <<running, epoch, op, isr, owed, dead>>
  BY Zenon DEF CreateSet
<1>2. /\ reg \in Registries /\ running \in SUBSET Services /\ op \in Calls /\ owed \in SUBSET Handles
      /\ Good(reg, running, op, isr, owed) /\ op.pc = "free" /\ o \in running
  BY Zenon, <1>1, CallerFacts
<1>3. i \in Vacant(reg.sets)
  <2>1. DOMAIN reg.sets \subseteq Nat
    <3>1. DOMAIN reg.sets = 1 .. MaxSets
      BY Zenon, <1>2, RegistryDomains
    <3> QED BY <3>1
  <2>2. Vacant(reg.sets) \in SUBSET Nat
    BY Zenon, <2>1 DEF Vacant
  <2> QED BY Zenon, <1>1, <2>2, FirstIn
<1> HIDE DEF i
<1>4. i \in 1 .. MaxSets /\ reg.sets[i].owner = None
  BY Zenon, <1>2, <1>3, RegistryFields DEF Vacant
<1>5. reg' \in Registries
  BY Zenon, <1>1, <1>2, <1>4, NewSetFields
<1>6. Good(reg', running, op, isr, owed)
  BY Zenon, <1>1, <1>2, <1>4, NewSetGood
<1> QED BY Zenon, <1>1, <1>5, <1>6 DEF EInv, TypeOK

(* Adding a member keeps the invariant.                                     *)
LEMMA AddKeeps ==
  ASSUME EInv, NEW o \in Services, NEW s, NEW e, Add(o, s, e)
  PROVE  EInv'
<1>1. /\ Caller(o) /\ e \in EventsOf(reg, o) /\ s \in SetsOf(reg, o) /\ ~reg.sets[s[1]].waiting
      /\ SharedHardware \/ ~IsHardware(reg, e) \/ \A t \in LiveSets(reg) : e \notin Members(reg, t)
      /\ reg' = AddMember(reg, s, e)
      /\ UNCHANGED <<running, epoch, op, isr, owed, dead>>
  BY Zenon DEF Add, Changeable
<1>2. /\ reg \in Registries /\ running \in SUBSET Services /\ op \in Calls /\ owed \in SUBSET Handles
      /\ Good(reg, running, op, isr, owed) /\ op.pc = "free" /\ o \in running
  BY Zenon, <1>1, CallerFacts
<1>3. /\ s \in SetHandles /\ e \in Handles /\ LiveSet(reg, s) /\ LiveEvent(reg, e)
      /\ reg.events[e[1]].owner = reg.sets[s[1]].owner
  BY <1>1, <1>2, OwnedIn
<1>4. ASSUME ~SharedHardware, IsHardware(reg, e), NEW j \in 1 .. MaxSets, InSet(reg, j, e) PROVE FALSE
  <2> DEFINE t == <<j, reg.sets[j].gen>>
  <2>1. t \in SetHandles /\ t[1] = j /\ t[2] = reg.sets[j].gen
    BY Zenon, <1>2, Slots
  <2>2. reg.sets[j].owner # None
    BY Zenon, <1>2, <1>3, <1>4 DEF Good, Sound, MembersOK
  <2> HIDE DEF t
  <2>3. t \in LiveSets(reg)
    BY Zenon, <1>2, <2>1, <2>2, LiveIn DEF LiveSet
  <2> QED BY Zenon, <1>1, <1>4, <2>1, <2>3, MembersIn
<1>5. reg' \in Registries
  BY Zenon, <1>1, <1>2, <1>3, AddMemberFields
<1>6. Good(reg', running, op, isr, owed)
  BY Zenon, <1>1, <1>2, <1>3, <1>4, AddMemberGood
<1> QED BY Zenon, <1>1, <1>5, <1>6 DEF EInv, TypeOK

(* Removing a member keeps the invariant.                                   *)
LEMMA RemoveKeeps ==
  ASSUME EInv, NEW o \in Services, NEW s, NEW e, Remove(o, s, e)
  PROVE  EInv'
<1>1. /\ Caller(o) /\ s \in SetsOf(reg, o) /\ ~reg.sets[s[1]].waiting /\ e \in Members(reg, s)
      /\ reg' = RemoveMember(reg, s, e)
      /\ UNCHANGED <<running, epoch, op, isr, owed, dead>>
  BY Zenon DEF Remove, Changeable
<1>2. /\ reg \in Registries /\ running \in SUBSET Services /\ op \in Calls /\ owed \in SUBSET Handles
      /\ Good(reg, running, op, isr, owed) /\ op.pc = "free" /\ o \in running
  BY Zenon, <1>1, CallerFacts
<1>3. s \in SetHandles /\ LiveSet(reg, s)
  BY Zenon, <1>1, <1>2, OwnedIn
<1>4. e \in Handles
  BY Zenon, <1>1, <1>2, <1>3, Pairs, MembersIn, InSetHandle
<1>5. reg' \in Registries
  BY Zenon, <1>1, <1>2, <1>3, <1>4, RemoveMemberFields DEF IsRemoved
<1>6. Good(reg', running, op, isr, owed)
  BY Zenon, <1>1, <1>2, <1>3, <1>4, RemoveMemberGood
<1> QED BY Zenon, <1>1, <1>5, <1>6 DEF EInv, TypeOK

(* A signal keeps the invariant.                                            *)
LEMMA SignalKeeps ==
  ASSUME EInv, op.pc = "free", NEW e, e \in LiveEvents(reg), reg' = SignalEvent(reg, e), owed' = owed \cup {e},
         UNCHANGED <<running, epoch, op, isr, dead>>
  PROVE  EInv'
<1>2. /\ reg \in Registries /\ running \in SUBSET Services /\ op \in Calls /\ owed \in SUBSET Handles
      /\ Good(reg, running, op, isr, owed)
  BY Zenon DEF EInv, TypeOK
<1>3. e \in Handles /\ LiveEvent(reg, e)
  BY Zenon, <1>2, LiveIn
<1>5. reg' \in Registries
  BY Zenon, <1>2, <1>3, SignalEventFields DEF IsSignaled
<1>6. Good(reg', running, op, isr, owed')
  BY Zenon, <1>2, <1>3, SignalEventGood
<1> QED BY Zenon, <1>3, <1>5, <1>6 DEF EInv, TypeOK

(* Destroying an event keeps the invariant.                                 *)
LEMMA DestroyKeeps ==
  ASSUME EInv, op.pc = "free", NEW E, E \subseteq LiveEvents(reg),
         reg' = DestroyEvents(reg, E), owed' = owed \ E, dead' = dead \cup E,
         UNCHANGED <<running, epoch, op, isr>>
  PROVE  EInv'
<1>2. /\ reg \in Registries /\ running \in SUBSET Services /\ op \in Calls /\ owed \in SUBSET Handles
      /\ Good(reg, running, op, isr, owed)
  BY Zenon DEF EInv, TypeOK
<1>3. E \in SUBSET Handles
  BY Zenon, <1>2, LiveIn
<1>5. reg' \in Registries
  BY <1>2, <1>3, DestroyEventsFields DEF EventsDestroyed
<1>6. Good(reg', running, op, isr, owed')
  BY Zenon, <1>2, <1>3, DestroyEventsGood
<1> QED BY Zenon, <1>3, <1>5, <1>6 DEF EInv, TypeOK

(* Destroying a set keeps the invariant.                                    *)
LEMMA DestroySetKeeps ==
  ASSUME EInv, NEW o \in Services, NEW s, DestroySet(o, s)
  PROVE  EInv'
<1>1. /\ Caller(o) /\ s \in SetsOf(reg, o) /\ reg' = DestroySets(reg, {s})
      /\ UNCHANGED <<running, epoch, op, isr, owed, dead>>
  BY Zenon DEF DestroySet
<1>2. /\ reg \in Registries /\ running \in SUBSET Services /\ op \in Calls /\ owed \in SUBSET Handles
      /\ Good(reg, running, op, isr, owed) /\ op.pc = "free" /\ o \in running
  BY Zenon, <1>1, CallerFacts
<1>3. {s} \in SUBSET SetHandles
  BY <1>1, <1>2, OwnedIn
<1>5. reg' \in Registries
  BY Zenon, <1>1, <1>2, <1>3, DestroySetsFields DEF SetsDestroyed
<1>6. Good(reg', running, op, isr, owed)
  BY Zenon, <1>1, <1>2, <1>3, DestroySetsGood
<1> QED BY Zenon, <1>1, <1>5, <1>6 DEF EInv, TypeOK

(* Cancelling a wait keeps the invariant.                                   *)
LEMMA CancelKeeps ==
  ASSUME EInv, NEW o \in Services, NEW s, Cancel(o, s)
  PROVE  EInv'
<1>1. /\ Caller(o) /\ s \in SetsOf(reg, o)
      /\ reg' = Wake([reg EXCEPT !.sets[s[1]].waiting = FALSE], {s})
      /\ UNCHANGED <<running, epoch, op, isr, owed, dead>>
  BY Zenon DEF Cancel
<1>2. /\ reg \in Registries /\ running \in SUBSET Services /\ op \in Calls /\ owed \in SUBSET Handles
      /\ Good(reg, running, op, isr, owed) /\ op.pc = "free" /\ o \in running
  BY Zenon, <1>1, CallerFacts
<1>3. s \in SetHandles /\ LiveSet(reg, s)
  BY Zenon, <1>1, <1>2, OwnedIn
<1>6. reg' \in Registries /\ Good(reg', running, op, isr, owed)
  BY <1>1, <1>2, <1>3, CancelGood, Zenon
<1> QED BY Zenon, <1>1, <1>6 DEF EInv, TypeOK

(* The state of the invariant, by its parts.                                *)
LEMMA Parts ==
  ASSUME EInv
  PROVE  /\ reg \in Registries /\ running \in SUBSET Services /\ epoch \in Nat /\ op \in Calls
         /\ isr \in [Sources -> Interrupts] /\ owed \in SUBSET Handles /\ dead \in SUBSET Handles
         /\ Good(reg, running, op, isr, owed)
BY Zenon DEF EInv, TypeOK

(* The call that the service leaves, and the one it moves on to.            *)
LEMMA CallFields ==
  ASSUME NEW x \in Calls
  PROVE  /\ x.pc \in {"free", "scan", "consume", "register", "recheck"} /\ x.owner \in Services
         /\ x.set \in SetHandles \cup {None} /\ x.due \in BOOLEAN /\ x.i \in Nat
         /\ [x EXCEPT !.pc = "free", !.set = None, !.i = 1] \in Calls
         /\ [x EXCEPT !.pc = "free", !.set = None, !.i = 1].pc = "free"
BY Zenon DEF Calls

(* Entering a wait keeps the invariant.                                     *)
LEMMA WaitKeeps ==
  ASSUME EInv, NEW o \in Services, NEW s, NEW due \in BOOLEAN, Wait(o, s, due)
  PROVE  EInv'
<1>1. /\ Caller(o) /\ s \in SetsOf(reg, o) /\ ~reg.sets[s[1]].invalidated
      /\ op' = [pc |-> "scan", owner |-> o, set |-> s, due |-> due, i |-> 1]
      /\ UNCHANGED <<reg, running, epoch, isr, owed, dead>>
  BY Zenon DEF Wait
<1>2. /\ reg \in Registries /\ running \in SUBSET Services /\ op \in Calls /\ owed \in SUBSET Handles
      /\ Good(reg, running, op, isr, owed) /\ op.pc = "free" /\ o \in running /\ reg.asleep[o] = None
  BY Zenon, <1>1, CallerFacts
<1>3. s \in SetHandles /\ s # None /\ LiveSet(reg, s) /\ reg.sets[s[1]].owner = o
  BY <1>1, <1>2, OwnedIn, Pairs
<1>4. op' \in Calls /\ op'.pc = "scan" /\ op'.owner = o /\ op'.set = s /\ op'.i = 1
  BY Zenon, <1>1, <1>3 DEF Calls
<1>5. CallOK(reg, running, op')
  BY <1>1, <1>2, <1>3, <1>4 DEF CallOK
<1>6. Good(reg, running, op', isr, owed)
  BY Zenon, <1>2, <1>5, CallGood DEF Ahead
<1> QED BY Zenon, <1>1, <1>4, <1>6 DEF EInv, TypeOK

(* A step of the first scan keeps the invariant.                            *)
LEMMA WaitScanKeeps ==
  ASSUME EInv, WaitScan
  PROVE  EInv'
<1>1. /\ op.pc = "scan" /\ op.i \in DOMAIN reg.sets[op.set[1]].members
      /\ op' = [op EXCEPT !.pc = "consume"] \/ op' = [op EXCEPT !.i = op.i + 1]
      /\ UNCHANGED <<reg, running, epoch, isr, owed, dead>>
  BY Zenon DEF WaitScan, Awaited
<1>2. /\ op' \in Calls /\ op'.owner = op.owner /\ op'.set = op.set
      /\ \/ op'.pc = "consume" /\ op'.i = op.i
         \/ op'.pc = "scan" /\ op'.i = op.i + 1 /\ op.i \in Nat
  BY <1>1, Parts DEF Calls
<1>3. CallOK(reg, running, op')
  BY <1>1, <1>2, Parts DEF Good, CallOK
<1>4. Good(reg, running, op', isr, owed)
  BY Zenon, <1>1, <1>3, Parts, CallGood DEF Ahead
<1> QED BY Zenon, <1>1, <1>2, <1>4 DEF EInv, TypeOK

(* Consuming a ready event keeps the invariant.                             *)
LEMMA WaitConsumeKeeps ==
  ASSUME EInv, WaitConsume
  PROVE  EInv'
<1> DEFINE e == reg.sets[op.set[1]].members[op.i]
           s == op.set
<1>1. /\ op.pc = "consume" /\ reg' = Consumed(reg, s, e) /\ owed' = owed \ {e}
      /\ op' = [op EXCEPT !.pc = "free", !.set = None, !.i = 1]
      /\ UNCHANGED <<running, epoch, isr, dead>>
  BY Zenon DEF WaitConsume, Awaited, Free
<1>2. op' \in Calls /\ op'.pc = "free"
  BY Zenon, <1>1, Parts, CallFields
<1>3. op.i \in DOMAIN reg.sets[op.set[1]].members
  BY Zenon, <1>1, Parts DEF Good, CallOK
<1>4. s \in SetHandles /\ e \in Handles /\ LiveEvent(reg, e)
  BY Zenon, <1>1, <1>3, Parts, Standing
<1>5. \A o \in Services : reg.asleep[o] # None => reg.asleep[o][1] # s[1]
  BY Zenon, <1>1, Parts, OthersSleep
<1> HIDE DEF e, s
<1>6. reg' \in Registries /\ Good(reg', running, op', isr, owed \ {e})
  <2>1. op.pc # "recheck" /\ reg' = Consumed(reg, s, e)
    BY Zenon, <1>1
  <2> QED BY Zenon, <2>1, <1>2, <1>4, <1>5, Parts, ConsumedGood
<1> QED BY Zenon, <1>1, <1>2, <1>6 DEF EInv, TypeOK

(* A wait whose deadline has passed keeps the invariant.                    *)
LEMMA WaitTimeoutKeeps ==
  ASSUME EInv, WaitTimeout
  PROVE  EInv'
<1> DEFINE s == op.set
<1>0. PICK b \in BOOLEAN : b = FALSE
  BY Zenon
<1>1. /\ op.pc = "scan" /\ reg' = [reg EXCEPT !.sets[s[1]].waiting = b]
      /\ op' = [op EXCEPT !.pc = "free", !.set = None, !.i = 1]
      /\ UNCHANGED <<running, epoch, isr, owed, dead>>
  BY Zenon, <1>0 DEF WaitTimeout, Free
<1>2. op' \in Calls /\ op'.pc = "free"
  BY Zenon, <1>1, Parts, CallFields
<1>4. s \in SetHandles
  BY Zenon, <1>1, Parts, Standing
<1>5. \A o \in Services : reg.asleep[o] # None => reg.asleep[o][1] # s[1]
  BY Zenon, <1>1, Parts, OthersSleep
<1> HIDE DEF s
<1>6. CallOK(reg', running, op')
  BY Zenon, <1>2 DEF CallOK
<1>7. IsPublished(reg, s, b, reg')
  BY Zenon, <1>1, <1>4, Parts, WaitingFields
<1>8. op.pc # "recheck"
  BY Zenon, <1>1
<1>9. reg' \in Registries /\ Good(reg', running, op', isr, owed)
  BY Zenon, <1>4, <1>5, <1>6, <1>7, <1>8, Parts, PublishGood
<1> QED BY Zenon, <1>1, <1>2, <1>9 DEF EInv, TypeOK

(* Publishing the waiter keeps the invariant.                               *)
LEMMA WaitPublishKeeps ==
  ASSUME EInv, WaitPublish
  PROVE  EInv'
<1> DEFINE s == op.set
<1>0. PICK b \in BOOLEAN : b = TRUE
  BY Zenon
<1>1. /\ op.pc = "scan" /\ reg' = [reg EXCEPT !.sets[s[1]].waiting = b]
      /\ op' = [op EXCEPT !.pc = "register", !.i = 1]
      /\ UNCHANGED <<running, epoch, isr, owed, dead>>
  BY Zenon, <1>0 DEF WaitPublish
<1>2. op' \in Calls /\ op'.pc = "register" /\ op'.owner = op.owner /\ op'.set = s /\ op'.i = 1
  BY Zenon, <1>1, Parts DEF Calls
<1>4. s \in SetHandles /\ s[1] \in 1 .. MaxSets
  BY Zenon, <1>1, Parts, Standing
<1>5. \A o \in Services : reg.asleep[o] # None => reg.asleep[o][1] # s[1]
  BY Zenon, <1>1, Parts, OthersSleep
<1>6. /\ op.owner \in running /\ s # None /\ LiveSet(reg, s) /\ reg.sets[s[1]].owner = op.owner
      /\ ~reg.sets[s[1]].invalidated /\ reg.asleep[op.owner] = None
  BY Zenon, <1>1, Parts DEF Good, CallOK
<1> HIDE DEF s
<1>7. IsPublished(reg, s, b, reg')
  BY Zenon, <1>1, <1>4, Parts, WaitingFields
<1>8. /\ reg'.asleep = reg.asleep /\ reg'.sets[s[1]].gen = reg.sets[s[1]].gen
      /\ reg'.sets[s[1]].owner = reg.sets[s[1]].owner /\ reg'.sets[s[1]].waiting
      /\ reg'.sets[s[1]].invalidated = reg.sets[s[1]].invalidated
  BY Zenon, <1>0, <1>4, <1>7 DEF IsPublished
<1>9. CallOK(reg', running, op')
  BY <1>2, <1>6, <1>8 DEF CallOK, LiveSet
<1>10. reg' \in Registries /\ Good(reg', running, op', isr, owed)
  <2>1. op.pc # "recheck"
    BY Zenon, <1>1
  <2> QED BY Zenon, <1>4, <1>5, <1>7, <1>9, <2>1, Parts, PublishGood
<1> QED BY Zenon, <1>1, <1>2, <1>10 DEF EInv, TypeOK

(* The registration: the caller sleeps on its set, and every member is      *)
(* still ahead of the recheck.                                              *)
LEMMA RegisterGood ==
  ASSUME NEW r \in Registries, NEW R \in SUBSET Services, NEW x \in Calls, NEW y, NEW I, NEW W \in SUBSET Handles,
         Good(r, R, x, I, W), x.pc = "register",
         y.pc = "recheck", y.owner = x.owner, y.set = x.set, y.i = x.i,
         NEW q, Sleeps(r, x.owner, x.set, q)
  PROVE  q \in Registries /\ Good(q, R, y, I, W)
<1>1. /\ x.set \in SetHandles /\ x.set[1] \in 1 .. MaxSets /\ x.owner \in R /\ x.owner \in Services
      /\ DOMAIN r.sets[x.set[1]].members \subseteq Nat \ {0}
  BY Zenon, Standing
<1>2. /\ q \in Registries /\ q.events = r.events /\ q.sets = r.sets /\ q.hw = r.hw
      /\ \A c \in Services : q.asleep[c] = IF c = x.owner THEN x.set ELSE r.asleep[c]
  <2>1. IsAsleep(r, x.owner, x.set, q)
    BY Zenon, <1>1, AsleepTables
  <2> QED BY Zenon, <2>1 DEF IsAsleep
<1>3. /\ x.set # None /\ LiveSet(r, x.set) /\ r.sets[x.set[1]].owner = x.owner
      /\ ~r.sets[x.set[1]].invalidated /\ r.sets[x.set[1]].waiting /\ x.i = 1
  BY Zenon DEF Good, CallOK
<1>4. \A i, e : InSet(q, i, e) <=> InSet(r, i, e)
  BY Zenon, <1>2 DEF InSet
<1>5. \A e : (LiveEvent(q, e) <=> LiveEvent(r, e)) /\ (LiveSet(q, e) <=> LiveSet(r, e))
             /\ (Ready(q, e) <=> Ready(r, e))
  BY Zenon, <1>2 DEF LiveEvent, LiveSet, Ready
<1>6. MembersOK(q)
  <2>1. MembersOK(r)
    BY Zenon DEF Good, Sound
  <2>2. q.sets = r.sets /\ q.events = r.events
    BY Zenon, <1>2
  <2> QED BY Zenon, <2>1, <2>2, <1>4 DEF MembersOK
<1>7. OwnersOK(q, R)
  BY Zenon, <1>2 DEF Good, Sound, OwnersOK
<1>8. RoutesOK(q)
  BY Zenon, <1>2, <1>4, <1>5 DEF Good, Sound, RoutesOK
<1>9. SleepOK(q, R)
  <2> SUFFICES ASSUME NEW o \in Services, q.asleep[o] # None
               PROVE  /\ o \in R /\ LiveSet(q, q.asleep[o]) /\ q.sets[q.asleep[o][1]].owner = o
                      /\ q.sets[q.asleep[o][1]].waiting /\ ~q.sets[q.asleep[o][1]].invalidated
    BY Zenon DEF SleepOK
  <2>1. CASE o = x.owner
    <3>1. q.asleep[o] = x.set
      BY Zenon, <1>2, <2>1
    <3> QED BY Zenon, <3>1, <2>1, <1>1, <1>2, <1>3, <1>5
  <2>2. CASE o # x.owner
    <3>1. q.asleep[o] = r.asleep[o]
      BY Zenon, <1>2, <2>2
    <3>2. SleepOK(r, R)
      BY Zenon DEF Good, Sound
    <3> QED BY Zenon, <3>1, <3>2, <1>2, <1>5 DEF SleepOK
  <2> QED BY Zenon, <2>1, <2>2
<1>10. CallOK(q, R, y)
  BY <1>1, <1>2, <1>3, <1>5 DEF CallOK
<1>11. KeptOK(q, W)
  BY Zenon, <1>5 DEF Good, KeptOK
<1>12. ~SharedHardware => BoundOK(q)
  BY <1>2, <1>4 DEF Good, BoundOK
<1>13. ASSUME ~SharedHardware PROVE PromptOK(q, y, I)
  <2> SUFFICES ASSUME NEW o \in Services, NEW d \in Handles,
                      q.asleep[o] # None, InSet(q, q.asleep[o][1], d), Ready(q, d)
               PROVE  Coming(q, I, q.asleep[o]) \/ Ahead(q, y, o, d)
    BY Zenon DEF PromptOK
  <2>1. CASE o = x.owner
    <3>1. InSet(r, x.set[1], d)
      BY Zenon, <1>2, <1>4, <2>1
    <3>2. \A k \in DOMAIN r.sets[x.set[1]].members : k >= 1
      BY <1>1
    <3>3. PICK k \in DOMAIN r.sets[x.set[1]].members : r.sets[x.set[1]].members[k] = d
      BY Zenon, <3>1 DEF InSet
    <3>4. k >= y.i
      BY Zenon, <3>2, <1>3
    <3>5. k \in DOMAIN q.sets[y.set[1]].members /\ q.sets[y.set[1]].members[k] = d
      BY Zenon, <3>3, <1>2
    <3> QED BY Zenon, <2>1, <3>4, <3>5 DEF Ahead
  <2>2. CASE o # x.owner
    <3>1. q.asleep[o] = r.asleep[o]
      BY Zenon, <1>2, <2>2
    <3>2. Coming(r, I, r.asleep[o])
      BY Zenon, <1>4, <1>5, <1>13, <3>1 DEF Good, PromptOK, Ahead
    <3> QED BY Zenon, <1>2, <3>1, <3>2 DEF Coming
  <2> QED BY Zenon, <2>1, <2>2
<1> QED BY Zenon, <1>2, <1>6, <1>7, <1>8, <1>9, <1>10, <1>11, <1>12, <1>13 DEF Good, Sound

(* Registering the task keeps the invariant.                                *)
LEMMA WaitRegisterKeeps ==
  ASSUME EInv, WaitRegister
  PROVE  EInv'
<1>1. /\ op.pc = "register" /\ reg' = [reg EXCEPT !.asleep[op.owner] = op.set]
      /\ op' = [op EXCEPT !.pc = "recheck"]
      /\ UNCHANGED <<running, epoch, isr, owed, dead>>
  BY Zenon DEF WaitRegister
<1>2. op' \in Calls /\ op'.pc = "recheck" /\ op'.owner = op.owner /\ op'.set = op.set /\ op'.i = op.i
  BY Zenon, <1>1, Parts DEF Calls
<1>3. reg' \in Registries /\ Good(reg', running, op', isr, owed)
  <2>1. Sleeps(reg, op.owner, op.set, reg')
    BY Zenon, <1>1 DEF Sleeps
  <2> QED BY Zenon, <2>1, <1>1, <1>2, Parts, RegisterGood
<1> QED BY Zenon, <1>1, <1>2, <1>3 DEF EInv, TypeOK

(* A step of the recheck keeps the invariant: what it passes by is not      *)
(* ready, or a wake is on its way.                                          *)
LEMMA WaitRecheckKeeps ==
  ASSUME EInv, WaitRecheck
  PROVE  EInv'
<1> DEFINE m == reg.sets[op.set[1]].members
<1>1. /\ op.pc = "recheck" /\ UNCHANGED <<running, epoch, isr, owed, dead>>
      /\ \/ /\ op.i \in DOMAIN m /\ reg' = Wake(reg, {op.set})
            /\ op' = [op EXCEPT !.pc = "free", !.set = None, !.i = 1]
         \/ op.i \in DOMAIN m /\ ~Ready(reg, m[op.i]) /\ reg' = reg /\ op' = [op EXCEPT !.i = op.i + 1]
         \/ op.i \notin DOMAIN m /\ reg' = reg /\ op' = [op EXCEPT !.pc = "free", !.set = None, !.i = 1]
  BY Zenon DEF WaitRecheck, Recheck, Awaited, Free
<1>2. /\ reg \in Registries /\ running \in SUBSET Services /\ op \in Calls /\ owed \in SUBSET Handles
      /\ Good(reg, running, op, isr, owed)
  BY Zenon, Parts
<1>3. op.i \in Nat \ {0} /\ op.set \in SetHandles /\ op.owner \in Services /\ op.set[1] \in 1 .. MaxSets
      /\ DOMAIN m \subseteq Nat \ {0}
  BY Zenon, <1>1, <1>2, Standing
<1>4. CASE /\ reg' = Wake(reg, {op.set})
           /\ op' = [op EXCEPT !.pc = "free", !.set = None, !.i = 1]
  <2>1. op' \in Calls /\ op'.pc = "free"
    BY Zenon, <1>4, <1>2, CallFields
  <2>2. Good(reg', running, op, isr, owed)
    BY Zenon, <1>2, <1>4, WakeGood
  <2>3. /\ reg' \in Registries
        /\ \A o \in Services : reg'.asleep[o] = IF reg.asleep[o] \in {op.set} THEN None ELSE reg.asleep[o]
    BY <1>2, <1>4, WakeFields
  <2>4. reg'.asleep[op.owner] = None
    <3>1. reg.asleep[op.owner] \in {None, op.set}
      BY Zenon, <1>1, <1>2 DEF Good, CallOK
    <3> QED BY Zenon, <1>3, <2>3, <3>1
  <2>5. CallOK(reg', running, op')
    BY Zenon, <2>1 DEF CallOK
  <2>6. Good(reg', running, op', isr, owed)
    BY Zenon, <1>2, <2>2, <2>3, <2>4, <2>5, CallGood DEF Ahead
  <2> QED BY Zenon, <1>1, <2>1, <2>3, <2>6 DEF EInv, TypeOK
<1>5. CASE op.i \in DOMAIN m /\ ~Ready(reg, m[op.i]) /\ reg' = reg /\ op' = [op EXCEPT !.i = op.i + 1]
  <2>1. op' \in Calls /\ op'.pc = "recheck" /\ op'.owner = op.owner /\ op'.set = op.set /\ op'.i = op.i + 1
    BY <1>1, <1>2, <1>3, <1>5 DEF Calls
  <2>2. CallOK(reg, running, op')
    BY <1>1, <1>2, <1>3, <2>1 DEF Good, CallOK
  <2>3. ASSUME NEW o \in Services, NEW e \in Handles, Ready(reg, e), Ahead(reg, op, o, e)
        PROVE  Ahead(reg, op', o, e)
    <3>1. PICK k \in DOMAIN m : k >= op.i /\ m[k] = e
      BY Zenon, <2>3 DEF Ahead
    <3>2. k # op.i
      BY Zenon, <1>5, <2>3, <3>1
    <3>3. k >= op.i + 1
      BY <1>3, <3>1, <3>2
    <3> QED BY Zenon, <2>1, <2>3, <3>1, <3>3 DEF Ahead
  <2>4. Good(reg, running, op', isr, owed)
    BY Zenon, <1>2, <2>2, <2>3, CallGood
  <2> QED BY Zenon, <1>1, <1>5, <2>1, <2>4 DEF EInv, TypeOK
<1>6. CASE op.i \notin DOMAIN m /\ reg' = reg /\ op' = [op EXCEPT !.pc = "free", !.set = None, !.i = 1]
  <2>1. op' \in Calls /\ op'.pc = "free"
    BY Zenon, <1>6, <1>2, CallFields
  <2>2. CallOK(reg, running, op')
    BY Zenon, <2>1 DEF CallOK
  <2>4. Good(reg, running, op', isr, owed)
    (* The recheck has passed every member.                               *)
    <3>1. ASSUME NEW o \in Services, NEW e \in Handles, Ahead(reg, op, o, e) PROVE FALSE
      <4>1. PICK k \in DOMAIN m : k >= op.i /\ m[k] = e
        BY Zenon, <3>1 DEF Ahead
      <4>2. \E n \in Nat : DOMAIN m = 1 .. n
        <5>1. m \in Seq(Handles)
          BY Zenon, <1>2, <1>3, SlotFields
        <5> HIDE DEF m
        <5> QED BY <5>1
      <4> QED BY <1>3, <1>6, <4>1, <4>2
    <3> QED BY Zenon, <1>2, <2>2, <3>1, CallGood
  <2> QED BY Zenon, <1>1, <1>6, <2>1, <2>4 DEF EInv, TypeOK
<1> QED BY Zenon, <1>1, <1>4, <1>5, <1>6

(* A deadline that wakes a sleeper keeps the invariant.                     *)
LEMMA TimerWakeKeeps ==
  ASSUME EInv, NEW o \in Services, TimerWake(o)
  PROVE  EInv'
<1>1. reg' = [reg EXCEPT !.asleep[o] = None] /\ UNCHANGED <<running, epoch, op, isr, owed, dead>>
  BY Zenon DEF TimerWake
<1>2. reg' \in Registries /\ Good(reg', running, op, isr, owed)
  <2>1. Sleeps(reg, o, None, reg')
    BY Zenon, <1>1 DEF Sleeps
  <2> QED BY Zenon, <2>1, Parts, TimerGood
<1> QED BY Zenon, <1>1, <1>2 DEF EInv, TypeOK

(* Entering an interrupt handler keeps the invariant.                       *)
LEMMA IsrEnterKeeps ==
  ASSUME EInv, NEW h \in Sources, IsrEnter(h)
  PROVE  EInv'
<1>1. isr[h].pc = "off" /\ isr' = [isr EXCEPT ![h].pc = "pend"] /\ UNCHANGED <<reg, running, epoch, op, owed, dead>>
  BY Zenon DEF IsrEnter
<1>2. isr' \in [Sources -> Interrupts] /\ \A g \in Sources : g # h => isr'[g] = isr[g]
  BY Zenon, <1>1, Parts DEF Interrupts
<1>3. \A s : Coming(reg, isr, s) => Coming(reg, isr', s)
  BY Zenon, <1>1, <1>2 DEF Coming
<1>4. Good(reg, running, op, isr', owed)
  BY Zenon, <1>3, Parts, HandlerGood
<1> QED BY Zenon, <1>1, <1>2, <1>4 DEF EInv, TypeOK

(* Latching the hardware event keeps the invariant.                         *)
LEMMA IsrPendKeeps ==
  ASSUME EInv, NEW h \in Sources, IsrPend(h)
  PROVE  EInv'
<1>1. /\ isr[h].pc = "pend" /\ reg' = [reg EXCEPT !.hw[h].pending = TRUE]
      /\ isr' = [isr EXCEPT ![h].pc = "load"] /\ owed' = owed \cup ({reg.hw[h].event} \ {None})
      /\ UNCHANGED <<running, epoch, op, dead>>
  BY Zenon DEF IsrPend
<1>2. isr' \in [Sources -> Interrupts]
  BY Zenon, <1>1, Parts DEF Interrupts
<1>3. reg.hw[h].event \in Handles \cup {None}
  BY Zenon, Parts, SlotFields
<1>4. reg' \in Registries /\ Good(reg', running, op, isr', owed')
  <2>1. Pends(reg, h, reg')
    BY Zenon, <1>1 DEF Pends
  <2> QED BY Zenon, <2>1, <1>1, Parts, PendGood
<1> QED BY Zenon, <1>1, <1>2, <1>3, <1>4 DEF EInv, TypeOK

(* Loading the bound set keeps the invariant.                               *)
LEMMA IsrLoadKeeps ==
  ASSUME EInv, NEW h \in Sources, IsrLoad(h)
  PROVE  EInv'
<1> DEFINE y == IF reg.hw[h].set = None THEN [pc |-> "off", set |-> None] ELSE [pc |-> "wake", set |-> reg.hw[h].set]
<1>1. isr[h].pc = "load" /\ isr' = [isr EXCEPT ![h] = y] /\ UNCHANGED <<reg, running, epoch, op, owed, dead>>
  BY Zenon DEF IsrLoad
<1>2. reg.hw[h].set \in SetHandles \cup {None}
  BY Zenon, Parts, SlotFields
<1>3. y \in Interrupts /\ (reg.hw[h].set # None => y.pc = "wake" /\ y.set = reg.hw[h].set)
  BY Zenon, <1>2 DEF Interrupts
<1> HIDE DEF y
<1>4. isr' \in [Sources -> Interrupts] /\ isr'[h] = y /\ \A g \in Sources : g # h => isr'[g] = isr[g]
  BY Zenon, <1>1, <1>3, Parts
<1>5. ASSUME NEW s, s # None, Coming(reg, isr, s) PROVE Coming(reg, isr', s)
  BY Zenon, <1>1, <1>3, <1>4, <1>5 DEF Coming
<1>6. Good(reg, running, op, isr', owed)
  BY Zenon, <1>5, Parts, HandlerGood
<1> QED BY Zenon, <1>1, <1>4, <1>6 DEF EInv, TypeOK

(* The wake by the handler keeps the invariant.                             *)
LEMMA IsrWakeKeeps ==
  ASSUME EInv, NEW h \in Sources, IsrWake(h)
  PROVE  EInv'
<1> DEFINE y == [pc |-> "off", set |-> None]
<1>1. /\ isr[h].pc = "wake" /\ reg' = Wake(reg, {isr[h].set}) /\ isr' = [isr EXCEPT ![h] = y]
      /\ UNCHANGED <<running, epoch, op, owed, dead>>
  BY Zenon DEF IsrWake
<1>2. y \in Interrupts
  BY Zenon DEF Interrupts
<1> HIDE DEF y
<1>3. isr' \in [Sources -> Interrupts] /\ \A g \in Sources : g # h => isr'[g] = isr[g]
  BY Zenon, <1>1, <1>2, Parts
<1>4. /\ reg' \in Registries
      /\ \A o \in Services : reg'.asleep[o] = IF reg.asleep[o] \in {isr[h].set} THEN None ELSE reg.asleep[o]
  BY <1>1, Parts, WakeFields
<1>5. Good(reg', running, op, isr, owed)
  BY Zenon, <1>1, Parts, WakeGood
<1>6. ASSUME NEW o \in Services, reg'.asleep[o] # None, Coming(reg', isr, reg'.asleep[o])
      PROVE  Coming(reg', isr', reg'.asleep[o])
  <2>1. reg'.asleep[o] # isr[h].set
    BY Zenon, <1>4, <1>6
  <2> QED BY Zenon, <1>1, <1>3, <1>6, <2>1 DEF Coming
<1>7. Good(reg', running, op, isr', owed)
  BY Zenon, <1>4, <1>5, <1>6, HandlerGood
<1> QED BY Zenon, <1>1, <1>3, <1>4, <1>7 DEF EInv, TypeOK

(* The task of a service is removed, then E and what it owns is destroyed.  *)
LEMMA StopKeeps ==
  ASSUME EInv, NEW o \in Services, NEW E \in SUBSET Handles, op.pc = "free",
         reg' = DestroyService(DestroyEvents([reg EXCEPT !.asleep[o] = None], E), o),
         running' = running \ {o}, owed' = owed \ (E \cup EventsOf(reg, o)), dead' = dead \cup (E \cup EventsOf(reg, o)),
         UNCHANGED <<epoch, op, isr>>
  PROVE  EInv'
<1> DEFINE p == [reg EXCEPT !.asleep[o] = None]
           t == DestroyEvents(p, E)
<1>1. p \in Registries /\ p.events = reg.events /\ Good(p, running, op, isr, owed)
  <2>1. Sleeps(reg, o, None, p)
    BY Zenon DEF Sleeps
  <2> HIDE DEF p
  <2> QED BY Zenon, <2>1, Parts, TimerGood
<1>2. reg' = DestroyService(t, o)
  BY Zenon
<1> HIDE DEF p
<1>3. EventsDestroyed(p, E, t)
  BY Zenon, <1>1, DestroyEventsFields
<1>4. Good(t, running, op, isr, owed \ E)
  BY Zenon, <1>1, Parts, DestroyEventsGood
<1> HIDE DEF t
<1>5. t \in Registries
  BY Zenon, <1>3 DEF EventsDestroyed
<1>6. /\ reg' \in Registries
      /\ Good(reg', running \ {o}, op, isr, (owed \ E) \ EventsOf(t, o))
  <2>1. owed \ E \in SUBSET Handles
    BY Zenon, Parts
  <2> QED BY <1>2, <1>4, <1>5, <2>1, Parts, DestroyServiceGood
<1>7. EventsOf(reg, o) \subseteq Handles
  BY Zenon, Parts, OwnedIn
<1>8. owed' \subseteq (owed \ E) \ EventsOf(t, o)
  <2> SUFFICES ASSUME NEW e \in owed, e \notin E, e \in EventsOf(t, o) PROVE e \in EventsOf(reg, o)
    BY Zenon
  <2>1. e \in Handles /\ e[1] \in 1 .. MaxEvents /\ e = <<e[1], e[2]>> /\ o # None
    BY Zenon, Parts, Pairs, NoneOwner
  <2>2. t.events[e[1]].gen = e[2] /\ t.events[e[1]].owner = o
    BY <1>5, <2>1, OwnedIn DEF LiveEvent
  <2>3. t.events[e[1]] = p.events[e[1]]
    BY Zenon, <1>3, <2>1, <2>2 DEF EventsDestroyed
  <2>4. LiveEvent(reg, e) /\ reg.events[e[1]].owner = o
    BY Zenon, <1>1, <2>1, <2>2, <2>3 DEF LiveEvent
  <2> QED BY Zenon, <2>1, <2>4, Parts, OwnedIn
<1>9. Good(reg', running', op', isr', owed')
  BY Zenon, <1>6, <1>8 DEF Good, KeptOK
<1> QED BY Zenon, <1>6, <1>7, <1>9, Parts DEF EInv, TypeOK

(* Destroying no event changes nothing.                                     *)
LEMMA NothingDestroyed ==
  ASSUME NEW r \in Registries
  PROVE  DestroyEvents(r, {}) = r
<1> DEFINE q == DestroyEvents(r, {})
<1>1. EventsDestroyed(r, {}, q)
  BY Zenon, DestroyEventsFields
<1> HIDE DEF q
<1>2. \A i \in 1 .. MaxSets : ~Struck(r, i, {})
  BY Zenon DEF Struck
<1>3. Woken(r, {}) = {}
  BY Zenon DEF Woken
<1>4. q \in Registries
  BY Zenon, <1>1 DEF EventsDestroyed
<1>5. q.events = r.events
  <2>1. \A i \in 1 .. MaxEvents : q.events[i] = r.events[i]
    BY Zenon, <1>1 DEF EventsDestroyed
  <2>2. q.events \in EventTables /\ r.events \in EventTables
    BY Zenon, <1>4, RegistryFields DEF EventTables
  <2> QED BY Zenon, <2>1, <2>2, SameEvents
<1>6. q.hw = r.hw
  <2>1. \A i \in Sources : q.hw[i] = r.hw[i]
    BY Zenon, <1>1 DEF EventsDestroyed
  <2> QED BY SMT, <2>1, <1>4, RegistryFields
<1>7. q.asleep = r.asleep
  <2>1. \A i \in Services : q.asleep[i] = r.asleep[i]
    BY Zenon, <1>1, <1>3 DEF EventsDestroyed
  <2> QED BY SMT, <2>1, <1>4, RegistryFields
<1>8. q.sets = r.sets
  <2>1. \A i \in 1 .. MaxSets : q.sets[i] = r.sets[i]
    <3> TAKE i \in 1 .. MaxSets
    <3>1. /\ q.sets[i].gen = r.sets[i].gen /\ q.sets[i].owner = r.sets[i].owner
          /\ q.sets[i].waiting = r.sets[i].waiting /\ q.sets[i].invalidated = r.sets[i].invalidated
          /\ q.sets[i].members = r.sets[i].members
      BY Zenon, <1>1, <1>2 DEF EventsDestroyed
    <3>2. q.sets[i] \in SetSlots /\ r.sets[i] \in SetSlots
      BY Zenon, <1>4, RegistryFields
    <3> QED BY <3>1, <3>2 DEF SetSlots
  <2>2. q.sets \in SetTables /\ r.sets \in SetTables
    BY Zenon, <1>4, RegistryFields DEF SetTables
  <2> QED BY Zenon, <2>1, <2>2, SameSets
<1>9. q = r
  BY Zenon, <1>4, <1>5, <1>6, <1>7, <1>8, RegistryFields
<1> QED BY Zenon, <1>9 DEF q

(* Stopping a service keeps the invariant.                                  *)
LEMMA StopServiceKeeps ==
  ASSUME EInv, NEW o \in Services, StopService(o)
  PROVE  EInv'
<1> DEFINE p == [reg EXCEPT !.asleep[o] = None]
<1>1. /\ op.pc = "free" /\ running' = running \ {o} /\ reg' = DestroyService(p, o)
      /\ owed' = owed \ EventsOf(reg, o) /\ dead' = dead \cup EventsOf(reg, o)
      /\ UNCHANGED <<epoch, op, isr>>
  BY Zenon DEF StopService
<1>2. p \in Registries /\ p.events = reg.events /\ Good(p, running, op, isr, owed)
  <2>1. Sleeps(reg, o, None, p)
    BY Zenon DEF Sleeps
  <2> HIDE DEF p
  <2> QED BY Zenon, <2>1, Parts, TimerGood
<1>3. DestroyEvents(p, {}) = p
  BY Zenon, <1>2, NothingDestroyed
<1>4. reg' = DestroyService(DestroyEvents([reg EXCEPT !.asleep[o] = None], {}), o)
  BY <1>1, <1>3, Zenon DEF p
<1> HIDE DEF p
<1>5. /\ owed' = owed \ ({} \cup EventsOf(reg, o)) /\ dead' = dead \cup ({} \cup EventsOf(reg, o))
      /\ {} \in SUBSET Handles
  BY Zenon, <1>1
<1> QED BY Zenon, <1>1, <1>4, <1>5, StopKeeps

(* Starting a service keeps the invariant.                                  *)
LEMMA StartServiceKeeps ==
  ASSUME EInv, NEW o \in Services, StartService(o)
  PROVE  EInv'
<1>1. op.pc = "free" /\ running' = running \cup {o} /\ UNCHANGED <<reg, epoch, op, isr, owed, dead>>
  BY Zenon DEF StartService
<1>2. Good(reg, running', op, isr, owed)
  BY Zenon, <1>1, Parts DEF Good, Sound, OwnersOK, SleepOK, CallOK
<1> QED BY Zenon, <1>1, <1>2 DEF EInv, TypeOK

(* Restarting the graph keeps the invariant.                                *)
LEMMA RestartKeeps ==
  ASSUME EInv, Restart
  PROVE  EInv'
<1>1. /\ op.pc = "free" /\ epoch' = epoch + 1 /\ reg' = NewRegistry(epoch + 1) /\ running' = Services
      /\ owed' = {} /\ dead' = dead \cup LiveEvents(reg) /\ UNCHANGED <<op, isr>>
  BY Zenon DEF Restart
<1>2. epoch + 1 \in Nat /\ LiveEvents(reg) \subseteq Handles
  BY Parts, LiveIn
<1>3. reg' \in Registries /\ Good(reg', Services, op, isr, {})
  BY Zenon, <1>1, <1>2, Parts, NewRegistryGood
<1> QED BY Zenon, <1>1, <1>2, <1>3 DEF EInv, TypeOK

(* The invariant holds initially.                                           *)
LEMMA InitGood == Init => EInv
<1> SUFFICES ASSUME Init PROVE EInv
  BY Zenon
<1>1. op \in Calls /\ op.pc = "free"
  BY Zenon, DriverAssumption DEF Init, Calls
<1>2. isr \in [Sources -> Interrupts]
  BY Zenon DEF Init, Interrupts
<1>3. reg \in Registries /\ Good(reg, Services, op, isr, {})
  BY Zenon, <1>1, NewRegistryGood DEF Init
<1> QED BY Zenon, <1>1, <1>2, <1>3 DEF Init, EInv, TypeOK

(* A handler in an interrupt.                                               *)
LEMMA InterruptKeeps ==
  ASSUME EInv, NEW h \in Sources, Interrupt(h)
  PROVE  EInv'
BY Zenon, IsrEnterKeeps, IsrPendKeeps, IsrLoadKeeps, IsrWakeKeeps DEF Interrupt

(* Any call of a service.                                                   *)
LEMMA EventCallKeeps ==
  ASSUME EInv, NEW o \in Services, EventCall(o)
  PROVE  EInv'
<1>1. ASSUME NEW e \in LiveEvents(reg), Destroy(o, e) PROVE EInv'
  <2>1. /\ op.pc = "free" /\ {e} \subseteq LiveEvents(reg) /\ reg' = DestroyEvents(reg, {e})
        /\ owed' = owed \ {e} /\ dead' = dead \cup {e} /\ UNCHANGED <<running, epoch, op, isr>>
    BY Zenon, <1>1 DEF Destroy, Caller
  <2> QED BY Zenon, <2>1, DestroyKeeps
<1>2. ASSUME NEW e \in LiveEvents(reg), Signal(o, e) \/ SignalIrq(o, e) PROVE EInv'
  <2>1. /\ op.pc = "free" /\ reg' = SignalEvent(reg, e) /\ owed' = owed \cup {e}
        /\ UNCHANGED <<running, epoch, op, isr, dead>>
    BY Zenon, <1>2 DEF Signal, SignalIrq, Caller
  <2> QED BY Zenon, <2>1, <1>2, SignalKeeps
<1> QED BY Zenon, <1>1, <1>2, CreateEventKeeps, CreateSetKeeps, DestroySetKeeps, CancelKeeps, WaitKeeps, AddKeeps,
           RemoveKeeps DEF EventCall

(* A step of the registry preserves the inductive invariant.                *)
LEMMA StepKeeps == EInv /\ [Next]_vars => EInv'
<1> SUFFICES ASSUME EInv, [Next]_vars PROVE EInv'
  BY Zenon
<1>1. CASE UNCHANGED vars
  BY Zenon, <1>1 DEF vars, EInv, TypeOK
<1>2. ASSUME NEW o \in Services, EventCall(o) \/ TimerWake(o) \/ StopService(o) \/ StartService(o) PROVE EInv'
  BY Zenon, <1>2, EventCallKeeps, TimerWakeKeeps, StopServiceKeeps, StartServiceKeeps
<1>3. CASE WaitStep
  BY Zenon, <1>3, WaitScanKeeps, WaitConsumeKeeps, WaitTimeoutKeeps, WaitPublishKeeps, WaitRegisterKeeps,
     WaitRecheckKeeps DEF WaitStep
<1>4. ASSUME NEW h \in Sources, Interrupt(h) PROVE EInv'
  BY Zenon, <1>4, InterruptKeeps
<1>5. CASE Restart
  BY Zenon, <1>5, RestartKeeps
<1> QED BY Zenon, <1>1, <1>2, <1>3, <1>4, <1>5 DEF Next

(* The invariant says that registry, router and sleepers agree.             *)
LEMMA SoundAgrees == EInv => RegistrySound
<1> SUFFICES ASSUME EInv PROVE RegistrySound
  BY Zenon
<1>0. reg \in Registries /\ running \in SUBSET Services
  BY Zenon, Parts
<1>1. MembersOK(reg) /\ OwnersOK(reg, running) /\ RoutesOK(reg) /\ SleepOK(reg, running)
  BY Zenon, Parts DEF Good, Sound
<1>2. ASSUME NEW s \in LiveSets(reg), NEW e \in Members(reg, s)
      PROVE  e \in EventsOf(reg, reg.sets[s[1]].owner)
  <2>1. s \in SetHandles /\ s[1] \in 1 .. MaxSets /\ LiveSet(reg, s)
    BY Zenon, <1>0, LiveIn, Pairs
  <2>2. InSet(reg, s[1], e)
    BY Zenon, MembersIn
  <2>3. e \in Handles
    BY Zenon, <1>0, <2>1, <2>2, InSetHandle
  <2>4. LiveEvent(reg, e) /\ reg.events[e[1]].owner = reg.sets[s[1]].owner
    BY Zenon, <1>1, <2>1, <2>2, <2>3 DEF MembersOK, LiveEvent
  <2> QED BY Zenon, <1>0, <2>3, <2>4, OwnedIn
<1>3. ASSUME NEW o \in Services \ running PROVE EventsOf(reg, o) = {} /\ SetsOf(reg, o) = {}
  <2>1. o # None /\ o \notin running
    BY Zenon, NoneOwner
  <2>2. ASSUME NEW e \in EventsOf(reg, o) PROVE FALSE
    <3>1. e \in Handles /\ e[1] \in 1 .. MaxEvents /\ reg.events[e[1]].owner = o
      BY <1>0, OwnedIn, Pairs
    <3> QED BY Zenon, <1>1, <2>1, <3>1 DEF OwnersOK
  <2>3. ASSUME NEW s \in SetsOf(reg, o) PROVE FALSE
    <3>1. s \in SetHandles /\ s[1] \in 1 .. MaxSets /\ reg.sets[s[1]].owner = o
      BY <1>0, OwnedIn, Pairs
    <3> QED BY Zenon, <1>1, <2>1, <3>1 DEF OwnersOK
  <2> QED BY Zenon, <2>2, <2>3
<1>4. RoutesAreMembers
  <2> SUFFICES ASSUME NEW h \in Sources
               PROVE  /\ reg.hw[h].event # None => LiveEvent(reg, reg.hw[h].event)
                      /\ reg.hw[h].set # None => /\ reg.hw[h].set \in LiveSets(reg)
                                                 /\ reg.hw[h].event \in Members(reg, reg.hw[h].set)
    BY Zenon DEF RoutesAreMembers
  <2>1. reg.hw[h].set # None => reg.hw[h].set \in SetHandles
    BY Zenon, <1>0, SlotFields
  <2> QED BY Zenon, <1>0, <1>1, <2>1, LiveIn, MembersIn DEF RoutesOK
<1>5. SleepersPublished
  <2> SUFFICES ASSUME NEW o \in Services, reg.asleep[o] # None
               PROVE  /\ o \in running /\ reg.asleep[o] \in SetsOf(reg, o)
                      /\ reg.sets[reg.asleep[o][1]].waiting /\ ~reg.sets[reg.asleep[o][1]].invalidated
    BY Zenon DEF SleepersPublished
  <2>1. reg.asleep[o] \in SetHandles
    BY Zenon, <1>0, SlotFields
  <2> QED BY Zenon, <1>0, <1>1, <2>1, OwnedIn DEF SleepOK
<1> QED BY Zenon, <1>2, <1>3, <1>4, <1>5 DEF RegistrySound, MembersLive

(* The invariant says that nobody sleeps through a ready event.             *)
LEMMA SoundWakes == ~SharedHardware /\ EInv => NoMissedWake
<1> SUFFICES ASSUME ~SharedHardware, EInv, NEW o \in Services, NEW s \in LiveSets(reg), reg.asleep[o] = s,
                    NEW e \in Members(reg, s), Ready(reg, e)
             PROVE  WakeComing(s) \/ (op.pc = "recheck" /\ op.owner = o)
  BY Zenon DEF NoMissedWake
<1>1. s \in SetHandles /\ s[1] \in 1 .. MaxSets /\ s # None
  BY Zenon, Parts, LiveIn, Pairs
<1>2. InSet(reg, s[1], e)
  BY Zenon, MembersIn
<1>3. e \in Handles
  BY Zenon, <1>1, <1>2, Parts, InSetHandle
<1>4. Coming(reg, isr, s) \/ Ahead(reg, op, o, e)
  BY Zenon, <1>1, <1>2, <1>3, Parts DEF Good, PromptOK
<1> QED BY Zenon, <1>4 DEF Coming, WakeComing, Ahead

(* The inductive invariant holds in every state of the registry.            *)
THEOREM EventInvariance == Spec => []EInv
BY InitGood, StepKeeps, PTL DEF Spec

(* The registry, its router, its calls and its handlers are well typed.     *)
THEOREM EventsTyped == Spec => []TypeOK
<1>1. EInv => TypeOK
  BY Zenon DEF EInv
<1> QED BY <1>1, EventInvariance, PTL

(* Sets, router and sleepers name only what is live.                        *)
THEOREM EventsAgree == Spec => []RegistrySound
BY SoundAgrees, EventInvariance, PTL

(* A signal stays readable until a wait reports it.                         *)
THEOREM SignalsKept == Spec => []NoSignalLost
<1>1. EInv => NoSignalLost
  BY Zenon DEF EInv, Good, KeptOK, NoSignalLost
<1> QED BY <1>1, EventInvariance, PTL

(* A hardware event in one set at a time: nobody sleeps through an event.   *)
THEOREM WakesNotMissed == ASSUME SharedHardware = FALSE PROVE Spec => []NoMissedWake
<1>1. EInv => NoMissedWake
  BY Zenon, SoundWakes
<1> QED BY <1>1, EventInvariance, PTL

=============================================================================
