-------------------------- MODULE SelectionProofs --------------------------
(***************************************************************************)
(* The session-key strategy's table (its size and what it remembers), the  *)
(* decision of every strategy and the order of the static estimates, for   *)
(* any keys, backends, limits, members, penalties and profile.             *)
(***************************************************************************)
EXTENDS Selection, FiniteSetTheorems, TLAPS

LiveIn(E) == {k \in Keys : E[k] # Absent}

\* The table; a request between its two accesses finds its key as it left it, or
\* dropped by a reconciliation.
Table ==
  /\ now \in Nat /\ DOMAIN entries = Keys /\ \A k \in Keys : entries[k].expires \in Nat
  /\ Cardinality(LiveIn(entries)) <= MaxEntries
Request ==
  /\ key \in Keys \cup {NoKey} /\ (pc \in {"remember", "bounds"} => key \in Keys)
  /\ pc = "remember" => entries[key] = Absent
  /\ pc = "bounds" => entries[key] = Absent \/ entries[key].b = preferred

IInv == Table /\ Request
-----------------------------------------------------------------------------
LEMMA Constants ==
  IsFiniteSet(Keys) /\ MaxEntries \in Nat /\ MaxEntries > 0 /\ TTL \in Nat /\ Absent.expires = 0
  BY SelectionConstants DEF Absent

LEMMA LiveType == ASSUME NEW E PROVE IsFiniteSet(LiveIn(E)) /\ Cardinality(LiveIn(E)) \in Nat
<1>1. LiveIn(E) \in SUBSET Keys
  BY Zenon DEF LiveIn
<1>2. IsFiniteSet(LiveIn(E))
  BY Zenon, <1>1, Constants, FS_Subset
<1>3. QED
  BY Zenon, <1>2, FS_CardinalityType

\* A table from which entries are dropped.
LEMMA Fewer ==
  ASSUME NEW E, NEW F, LiveIn(F) \subseteq LiveIn(E)
  PROVE  Cardinality(LiveIn(F)) <= Cardinality(LiveIn(E))
  BY Zenon, LiveType, FS_Subset

\* Every set of natural numbers with an element has a least one: below it lies an
\* interval of as many numbers as it has elements.
LEMMA LeastNat ==
  ASSUME NEW T \in SUBSET Nat, NEW n \in T
  PROVE  \E l \in T : \A m \in T : l <= m
<1> DEFINE A == {m \in 0..n : \A k \in 0..m : k \notin T}
<1>1. IsFiniteSet(A) /\ Cardinality(A) \in Nat
  <2>1. IsFiniteSet(0..n)
    BY FS_Interval
  <2>2. QED
    BY Zenon, <2>1, FS_Subset, FS_CardinalityType
<1>2. PICK c \in Nat : c = Cardinality(A)
  BY Zenon, <1>1
<1>3. /\ \A m \in A : m \in 0..n /\ m \notin T /\ 0..m \subseteq A
      /\ \A m \in 0..n : m \notin A => \E k \in 0..m : k \in T
  OBVIOUS
<1> HIDE DEF A
<1>4. c \notin A
  <2> SUFFICES ASSUME c \in A PROVE FALSE
    BY Zenon
  <2>1. Cardinality(0..c) = c + 1
    BY FS_Interval
  <2>2. 0..c \in SUBSET A
    BY Zenon, <1>3
  <2>3. Cardinality(0..c) <= c
    BY Zenon, <1>1, <1>2, <2>2, FS_Subset
  <2>4. QED
    BY <2>1, <2>3
<1>5. A \subseteq 0..(c - 1)
  <2> SUFFICES ASSUME NEW a \in A PROVE a \in 0..(c - 1)
    BY Zenon
  <2>1. a \in Nat /\ 0..a \subseteq A
    BY <1>3
  <2>2. ~(c <= a)
    BY <1>4, <2>1
  <2>3. QED
    BY <2>1, <2>2
<1>6. A = 0..(c - 1)
  <2>1. c - 1 \in Int /\ 0 \in Int
    OBVIOUS
  <2>2. IsFiniteSet(0..(c - 1)) /\ Cardinality(0..(c - 1)) = IF 0 > c - 1 THEN 0 ELSE (c - 1) - 0 + 1
    BY Zenon, <2>1, FS_Interval
  <2>3. Cardinality(0..(c - 1)) = c
    BY <2>2
  <2>4. A \in SUBSET (0..(c - 1))
    BY Zenon, <1>5
  <2>5. QED
    BY Zenon, <1>2, <2>2, <2>3, <2>4, FS_Subset
<1>7. \A m \in T : c <= m
  <2> SUFFICES ASSUME NEW m \in T, ~(c <= m) PROVE FALSE
    BY Zenon
  <2>1. m \in 0..(c - 1)
    OBVIOUS
  <2>2. QED
    BY Zenon, <1>3, <1>6, <2>1
<1>8. c \in T
  <2>1. c <= n
    BY Zenon, <1>7
  <2>2. PICK k \in 0..c : k \in T
    BY <1>3, <1>4, <2>1
  <2>3. k = c
    BY <1>7, <2>2
  <2>4. QED
    BY Zenon, <2>2, <2>3
<1>9. QED
  BY Zenon, <1>7, <1>8

-----------------------------------------------------------------------------
(* remember.                                                               *)

\* When the table is not empty there is an oldest entry, which is one of its own.
LEMMA OldestIsLive ==
  ASSUME NEW E, \A k \in Keys : E[k].expires \in Nat, NEW x \in LiveIn(E)
  PROVE  Oldest(E) \in LiveIn(E)
<1> DEFINE T == {E[k].expires : k \in LiveIn(E)}
<1>1. T \in SUBSET Nat /\ E[x].expires \in T
  BY Zenon DEF LiveIn
<1>2. PICK l \in T : \A m \in T : l <= m
  BY Zenon, <1>1, LeastNat
<1>3. PICK k \in LiveIn(E) : l = E[k].expires
  BY Zenon
<1>4. k \in Keys /\ E[k] # Absent /\ \A j \in Keys : E[j] # Absent => E[k].expires <= E[j].expires
  BY Zenon, <1>2, <1>3 DEF LiveIn
<1>5. QED
  BY Zenon, <1>4 DEF Oldest, LiveIn

\* collectOrEvictOldest makes room for one entry in a full table.
LEMMA Room ==
  ASSUME Table
  PROVE  /\ DOMAIN collectOrEvictOldest = Keys
         /\ \A j \in Keys : collectOrEvictOldest[j] \in {entries[j], Absent}
         /\ Cardinality(LiveIn(collectOrEvictOldest)) < MaxEntries
<1> DEFINE fresh == [k \in Keys |-> IF now >= entries[k].expires THEN Absent ELSE entries[k]]
<1>1. DOMAIN fresh = Keys /\ \A j \in Keys : fresh[j] \in {entries[j], Absent}
  BY Zenon
<1>2. \A j \in Keys : fresh[j].expires \in Nat
  BY <1>1, Constants DEF Table
<1>3. collectOrEvictOldest = IF Cardinality(LiveIn(fresh)) >= MaxEntries
                             THEN [fresh EXCEPT ![Oldest(fresh)] = Absent] ELSE fresh
  BY Zenon DEF collectOrEvictOldest, Count, LiveIn
<1> HIDE DEF fresh
<1>4. CASE ~(Cardinality(LiveIn(fresh)) >= MaxEntries)
  BY <1>1, <1>3, <1>4, LiveType, Constants
<1>5. CASE Cardinality(LiveIn(fresh)) >= MaxEntries
  <2>1. collectOrEvictOldest = [fresh EXCEPT ![Oldest(fresh)] = Absent]
    BY Zenon, <1>3, <1>5
  <2>2. LiveIn(fresh) # {}
    BY <1>5, FS_EmptySet, Constants
  <2>3. Oldest(fresh) \in LiveIn(fresh)
    BY Zenon, <1>2, <2>2, OldestIsLive
  <2> DEFINE o == Oldest(fresh)
             room == [fresh EXCEPT ![o] = Absent]
  <2>4. LiveIn(room) = LiveIn(fresh) \ {o}
    BY Zenon, <1>1 DEF LiveIn
  <2>5. Cardinality(LiveIn(room)) = Cardinality(LiveIn(fresh)) - 1
    BY Zenon, <2>3, <2>4, LiveType, FS_RemoveElement
  <2>6. Cardinality(LiveIn(fresh)) <= MaxEntries
    <3>1. LiveIn(fresh) \subseteq LiveIn(entries)
      BY Zenon, <1>1 DEF LiveIn
    <3>2. Cardinality(LiveIn(fresh)) <= Cardinality(LiveIn(entries))
      BY Zenon, <3>1, Fewer
    <3>3. QED
      BY <3>2, LiveType, Constants DEF Table
  <2>7. Cardinality(LiveIn(room)) < MaxEntries
    BY <2>5, <2>6, LiveType, Constants
  <2>8. DOMAIN room = Keys /\ \A j \in Keys : room[j] \in {entries[j], Absent}
    BY Zenon, <1>1
  <2>9. QED
    BY Zenon, <2>1, <2>7, <2>8
<1>6. QED
  BY Zenon, <1>4, <1>5

\* remember: the key gets the entry, the others keep theirs or lose it, and the
\* table stays within its limit.
LEMMA RememberedTable ==
  ASSUME Table, NEW k \in Keys, NEW b, NEW F, F = Remembered(k, b)
  PROVE  /\ DOMAIN F = Keys /\ F[k] = [b |-> b, expires |-> now + TTL]
         /\ \A j \in Keys : j # k => F[j] \in {entries[j], Absent}
         /\ \A j \in Keys : F[j].expires \in Nat
         /\ Cardinality(LiveIn(F)) <= MaxEntries
<1> DEFINE e == [b |-> b, expires |-> now + TTL]
<1>1. PICK room : /\ F = [room EXCEPT ![k] = e]
                  /\ DOMAIN room = Keys /\ \A j \in Keys : room[j] \in {entries[j], Absent}
                  /\ \/ entries[k] # Absent /\ room = entries
                     \/ Cardinality(LiveIn(room)) < MaxEntries
  <2>1. CASE entries[k] = Absent /\ Count(entries) >= MaxEntries
    BY Zenon, <2>1, Room DEF Remembered
  <2>2. CASE ~(entries[k] = Absent /\ Count(entries) >= MaxEntries)
    <3>1. F = [entries EXCEPT ![k] = e] /\ DOMAIN entries = Keys
      BY Zenon, <2>2 DEF Remembered, Table
    <3>2. entries[k] # Absent \/ Cardinality(LiveIn(entries)) < MaxEntries
      BY <2>2, LiveType, Constants DEF Count, LiveIn
    <3>3. QED
      BY Zenon, <3>1, <3>2
  <2>3. QED
    BY Zenon, <2>1, <2>2
<1>2. e.expires = now + TTL /\ e.expires \in Nat
  BY Constants DEF Table
<1> HIDE DEF e
<1>3. DOMAIN F = Keys /\ F[k] = e /\ \A j \in Keys : j # k => F[j] = room[j]
  BY Zenon, <1>1
<1>4. \A j \in Keys : F[j].expires \in Nat
  BY <1>1, <1>2, <1>3, Constants DEF Table
<1>5. LiveIn(F) \subseteq LiveIn(room) \cup {k}
  BY Zenon, <1>3 DEF LiveIn
<1>6. Cardinality(LiveIn(F)) <= MaxEntries
  <2>1. CASE entries[k] # Absent /\ room = entries
    <3>1. LiveIn(F) \subseteq LiveIn(entries)
      BY Zenon, <1>5, <2>1 DEF LiveIn
    <3>2. QED
      BY <3>1, Fewer, LiveType, Constants DEF Table
  <2>2. CASE Cardinality(LiveIn(room)) < MaxEntries
    <3>1. /\ IsFiniteSet(LiveIn(room) \cup {k})
          /\ \/ Cardinality(LiveIn(room) \cup {k}) = Cardinality(LiveIn(room))
             \/ Cardinality(LiveIn(room) \cup {k}) = Cardinality(LiveIn(room)) + 1
      BY Zenon, LiveType, FS_AddElement
    <3>2. Cardinality(LiveIn(F)) <= Cardinality(LiveIn(room) \cup {k})
      BY Zenon, <1>5, <3>1, FS_Subset
    <3>3. QED
      BY <2>2, <3>1, <3>2, LiveType, Constants
  <2>3. QED
    BY Zenon, <1>1, <2>1, <2>2
<1>7. QED
  BY Zenon, <1>1, <1>3, <1>4, <1>6 DEF e

-----------------------------------------------------------------------------
(* What a step may do to the entries.                                      *)

Drops == DOMAIN entries' = Keys /\ \A k \in Keys : entries'[k] \in {entries[k], Absent}

LEMMA DropsTable == ASSUME Table, Drops, now' \in Nat PROVE Table'
<1>1. \A k \in Keys : entries'[k].expires \in Nat
  BY Constants DEF Table, Drops
<1>2. LiveIn(entries') \subseteq LiveIn(entries)
  BY Zenon DEF LiveIn, Drops
<1>3. Cardinality(LiveIn(entries')) <= Cardinality(LiveIn(entries))
  BY Zenon, <1>2, Fewer
<1>4. Cardinality(LiveIn(entries')) <= MaxEntries
  BY <1>3, LiveType, Constants DEF Table
<1>5. QED
  BY Zenon, <1>1, <1>4 DEF Table, Drops, LiveIn

LEMMA DroppedDrops ==
  ASSUME Table, NEW members, entries' \in {entries, Dropped(members)}
  PROVE  Drops
  BY Zenon DEF Drops, Dropped, Table

\* The request is not between its two accesses, before or after.
LEMMA OutsideRequest ==
  ASSUME pc' \notin {"remember", "bounds"}, key' \in Keys \cup {NoKey}
  PROVE  Request'
  BY Zenon DEF Request

\* Another step drops entries while the request is where it was.
LEMMA DropsRequest == ASSUME Request, Drops, UNCHANGED <<pc, key, preferred>> PROVE Request'
  BY Zenon DEF Request, Drops

LEMMA BuildKVStep ==
  ASSUME BuildKVAwareInput
  PROVE  pc' \in {"final", "idle"} /\ UNCHANGED <<entries, now, key>>
<1>1. pc' \in {"final", "idle"}
  BY ZenonT(40) DEF BuildKVAwareInput
<1>2. QED
  BY Zenon, <1>1 DEF BuildKVAwareInput

LEMMA SessionBeginStep ==
  ASSUME IInv, SessionBegin
  PROVE  IInv' /\ Drops
<1>1. UNCHANGED <<now, key>>
  BY Zenon DEF SessionBegin
<1>2. \/ pc' = "done" /\ UNCHANGED entries
      \/ /\ key # NoKey /\ preferred' = IF Hit(key) THEN entries[key].b ELSE rendezvousBackend(key)
         /\ entries' = IF Hit(key) THEN entries ELSE [entries EXCEPT ![key] = Absent]
         /\ pc' = IF Hit(key) THEN "bounds" ELSE "remember"
  BY Zenon DEF SessionBegin
<1>3. Drops
  BY Zenon, <1>2 DEF Drops, IInv, Table
<1>4. Table'
  BY Zenon, <1>1, <1>3, DropsTable DEF IInv, Table
<1>5. Request'
  <2>1. CASE pc' = "done"
    BY Zenon, <1>1, <2>1, OutsideRequest DEF IInv, Request
  <2>2. CASE pc' # "done"
    <3>1. key \in Keys
      BY Zenon, <1>2, <2>2 DEF IInv, Request
    <3>2. CASE Hit(key)
      BY Zenon, <1>1, <1>2, <2>2, <3>1, <3>2 DEF Request
    <3>3. CASE ~Hit(key)
      BY Zenon, <1>1, <1>2, <2>2, <3>1, <3>3 DEF Request, IInv, Table
    <3>4. QED
      BY Zenon, <3>2, <3>3
  <2>3. QED
    BY Zenon, <2>1, <2>2
<1>6. QED
  BY Zenon, <1>3, <1>4, <1>5 DEF IInv

\* The entry of the request's key is written, twice: what is there is the same
\* backend, or nothing.
LEMMA RememberStep ==
  ASSUME IInv, Remember \/ SessionDecide
  PROVE  /\ IInv'
         /\ \A k \in Keys : entries[k] # Absent /\ entries'[k] # Absent => entries'[k].b = entries[k].b
<1>1. /\ key \in Keys /\ entries' = Remembered(key, preferred) /\ UNCHANGED <<now, key>>
      /\ \/ pc = "remember" /\ pc' = "bounds" /\ UNCHANGED preferred
         \/ pc = "bounds" /\ pc' = "done"
  BY Zenon DEF IInv, Request, Remember, SessionDecide, Kept
<1>2. /\ DOMAIN entries' = Keys /\ entries'[key] = [b |-> preferred, expires |-> now + TTL]
      /\ \A j \in Keys : j # key => entries'[j] \in {entries[j], Absent}
      /\ \A j \in Keys : entries'[j].expires \in Nat
      /\ Cardinality(LiveIn(entries')) <= MaxEntries
  BY Zenon, <1>1, RememberedTable DEF IInv
<1>3. entries'[key].b = preferred
  BY <1>2
<1>4. Table'
  BY Zenon, <1>1, <1>2 DEF IInv, Table, LiveIn
<1>5. Request'
  BY Zenon, <1>1, <1>3 DEF IInv, Request
<1>6. entries[key] # Absent => entries[key].b = preferred
  BY Zenon, <1>1 DEF IInv, Request
<1>7. QED
  BY Zenon, <1>2, <1>3, <1>4, <1>5, <1>6 DEF IInv

Sticks == \A k \in Live : entries'[k] # Absent => entries'[k].b = entries[k].b

LEMMA DropsSticks == Drops => Sticks
  BY Zenon DEF Drops, Sticks, Live

LEMMA NextStep == IInv /\ [Next]_vars => IInv' /\ (Next => Sticks)
<1> SUFFICES ASSUME IInv, [Next]_vars PROVE IInv' /\ (Next => Sticks)
  BY Zenon
<1>1. Table /\ Request /\ now \in Nat /\ key \in Keys \cup {NoKey}
  BY Zenon DEF IInv, Table, Request
<1>2. CASE Begin
  <2>1. \E members : entries' \in {entries, Dropped(members)}
    BY Zenon, <1>2 DEF Begin
  <2>2. Drops
    BY <1>1, <2>1, DroppedDrops
  <2>3. pc' \notin {"remember", "bounds"} /\ key' \in Keys \cup {NoKey} /\ UNCHANGED now
    BY Zenon, <1>2 DEF Begin
  <2>4. QED
    BY Zenon, <1>1, <2>2, <2>3, DropsTable, OutsideRequest, DropsSticks DEF IInv
<1>3. CASE OtherReconcile
  <2>1. Drops
    BY <1>1, <1>3, DroppedDrops DEF OtherReconcile
  <2>2. UNCHANGED <<pc, key, preferred, now>>
    BY Zenon, <1>3 DEF OtherReconcile
  <2>3. QED
    BY Zenon, <1>1, <2>1, <2>2, DropsTable, DropsRequest, DropsSticks DEF IInv
<1>4. CASE BuildKVAwareInput \/ Decide \/ Finish
  <2>1. pc' \notin {"remember", "bounds"} /\ key' \in Keys \cup {NoKey} /\ UNCHANGED <<entries, now>>
    BY Zenon, <1>1, <1>4, BuildKVStep DEF Decide, Finish
  <2>2. Drops
    BY Zenon, <1>1, <2>1 DEF Drops, Table
  <2>3. QED
    BY Zenon, <1>1, <2>1, <2>2, DropsTable, OutsideRequest, DropsSticks DEF IInv
<1>5. CASE SessionBegin
  BY Zenon, <1>5, SessionBeginStep, DropsSticks
<1>6. CASE Remember \/ SessionDecide
  BY Zenon, <1>6, RememberStep DEF Sticks, Live
<1>7. CASE Tick \/ UNCHANGED vars
  <2>1. UNCHANGED <<entries, pc, key, preferred>> /\ now' \in Nat
    BY <1>1, <1>7 DEF Tick, vars
  <2>2. Drops
    BY Zenon, <1>1, <2>1 DEF Drops, Table
  <2>3. QED
    BY Zenon, <1>1, <2>1, <2>2, DropsTable, DropsRequest, DropsSticks DEF IInv
<1>8. QED
  BY Zenon, <1>2, <1>3, <1>4, <1>5, <1>6, <1>7 DEF Next

LEMMA InitIInv == Init => IInv
<1> SUFFICES ASSUME Init PROVE IInv
  BY Zenon
<1>1. entries = [k \in Keys |-> Absent] /\ now = 0 /\ pc = "idle" /\ key = NoKey
  BY Zenon DEF Init
<1>2. LiveIn(entries) = {}
  BY Zenon, <1>1 DEF LiveIn
<1>3. Cardinality(LiveIn(entries)) = 0
  BY Zenon, <1>2, FS_EmptySet
<1>4. QED
  BY <1>1, <1>3, Constants DEF IInv, Table, Request

LEMMA Invariance == Spec => []IInv
  BY InitIInv, NextStep, PTL DEF Spec

\* sessionKeyStrategy.remember and collectOrEvictOldest, for any sequence of requests,
\* expirations and reconciliations: the table never holds more than MaxEntries keys.
THEOREM TableStaysBounded == Spec => []TableBounded
<1>1. IInv => TableBounded
  BY Zenon DEF IInv, Table, TableBounded, Live, LiveIn
<1>2. QED
  BY <1>1, Invariance, PTL

\* selectWithinSessionKeyBounds and remember: no step of any request, spillovers
\* included, moves a key that is in the table to another backend.
THEOREM KeysStay == Spec => PreferenceIsSticky
<1>1. IInv /\ [Next]_vars => [\A k \in Live : entries'[k] # Absent => entries'[k].b = entries[k].b]_vars
  BY Zenon, NextStep DEF Sticks
<1>2. QED
  BY <1>1, Invariance, PTL DEF Spec, PreferenceIsSticky

-----------------------------------------------------------------------------
(* Scan: the loop over the candidates.                                     *)

\* The values the variable best of a scan takes.
Steps(list, beats, n, f) ==
  /\ f[1] = list[1]
  /\ \A i \in 2..n : f[i] = IF f[i - 1] \in beats[list[i]] THEN list[i] ELSE f[i - 1]
Trace(list, beats, f) == f \in [1..Len(list) -> Range(list)] /\ Steps(list, beats, Len(list), f)

\* A scan of n elements has a trace, and so has one of n + 1.
LEMMA TraceStep ==
  ASSUME NEW S, NEW list, NEW beats, NEW n \in Nat, n > 0, NEW f \in [1..n -> S],
         list[n + 1] \in S, Steps(list, beats, n, f)
  PROVE  \E g \in [1..(n + 1) -> S] : Steps(list, beats, n + 1, g)
<1> DEFINE x == IF f[n] \in beats[list[n + 1]] THEN list[n + 1] ELSE f[n]
           g == [i \in 1..(n + 1) |-> IF i = n + 1 THEN x ELSE f[i]]
<1>1. x \in S
  OBVIOUS
<1>2. g \in [1..(n + 1) -> S] /\ g[1] = list[1]
  BY <1>1 DEF Steps
<1>3. \A i \in 2..(n + 1) : g[i - 1] = f[i - 1] /\ g[i] = IF i = n + 1 THEN x ELSE f[i]
  OBVIOUS
<1> HIDE DEF g
<1>4. ASSUME NEW i \in 2..(n + 1)
      PROVE  g[i] = IF g[i - 1] \in beats[list[i]] THEN list[i] ELSE g[i - 1]
  <2>1. CASE i = n + 1
    <3>1. i - 1 = n
      BY <2>1
    <3>2. QED
      BY Zenon, <1>3, <2>1, <3>1
  <2>2. CASE i # n + 1
    <3>1. i \in 2..n
      BY <2>2
    <3>2. QED
      BY Zenon, <1>3, <2>2, <3>1 DEF Steps
  <2>3. QED
    BY Zenon, <2>1, <2>2
<1>5. QED
  BY Zenon, <1>2, <1>4 DEF Steps

LEMMA TraceExists ==
  ASSUME NEW S, NEW list \in Seq(S), NEW beats, Len(list) > 0
  PROVE  \E f : Trace(list, beats, f)
<1> DEFINE R == Range(list)
           Goes(n) == \E f \in [1..n -> R] : Steps(list, beats, n, f)
           T == {n \in Nat : n > 0 /\ n <= Len(list) /\ ~Goes(n)}
<1>0. Len(list) \in Nat /\ DOMAIN list = 1..Len(list) /\ \A i \in 1..Len(list) : list[i] \in R
  BY DEF Range
<1> HIDE DEF R
<1>1. Goes(1)
  <2> DEFINE f == [i \in 1..1 |-> list[1]]
  <2>1. list[1] \in R
    BY <1>0
  <2>2. f \in [1..1 -> R] /\ f[1] = list[1]
    BY <2>1
  <2>3. \A i \in 2..1 : FALSE
    OBVIOUS
  <2>4. QED
    BY Zenon, <2>2, <2>3 DEF Steps
<1>2. ASSUME NEW n \in Nat, n > 0, n + 1 <= Len(list), Goes(n)
      PROVE  Goes(n + 1)
  <2>1. PICK f \in [1..n -> R] : Steps(list, beats, n, f)
    BY Zenon, <1>2
  <2>2. list[n + 1] \in R
    <3>1. n + 1 \in 1..Len(list)
      BY <1>0, <1>2
    <3>2. QED
      BY Zenon, <1>0, <3>1
  <2>3. QED
    BY Zenon, <1>2, <2>1, <2>2, TraceStep
<1> HIDE DEF Goes
<1>3. T = {}
  <2> SUFFICES ASSUME NEW x \in T PROVE FALSE
    BY Zenon
  <2>1. T \in SUBSET Nat
    OBVIOUS
  <2>2. PICK l \in T : \A m \in T : l <= m
    BY Zenon, <2>1, LeastNat
  <2>3. l \in Nat /\ l > 0 /\ l <= Len(list) /\ ~Goes(l)
    OBVIOUS
  <2>4. l # 1
    BY Zenon, <1>1, <2>3
  <2>5. l - 1 \in Nat /\ l - 1 > 0 /\ l - 1 <= Len(list) /\ (l - 1) + 1 = l /\ ~(l <= l - 1)
    BY <2>3, <2>4, <1>0
  <2>6. Goes(l - 1)
    BY Zenon, <2>2, <2>5
  <2>7. QED
    BY Zenon, <1>2, <2>3, <2>5, <2>6
<1>4. Goes(Len(list))
  BY <1>0, <1>3
<1>5. QED
  BY Zenon, <1>4 DEF Goes, Trace, R

LEMMA ScanIsTrace ==
  ASSUME NEW S, NEW list \in Seq(S), NEW beats, Len(list) > 0
  PROVE  \E f : Trace(list, beats, f) /\ Scan(list, beats) = f[Len(list)]
<1> DEFINE g == CHOOSE f \in [1..Len(list) -> Range(list)] : Steps(list, beats, Len(list), f)
<1>1. \E f \in [1..Len(list) -> Range(list)] : Steps(list, beats, Len(list), f)
  BY Zenon, TraceExists DEF Trace
<1>2. g \in [1..Len(list) -> Range(list)] /\ Steps(list, beats, Len(list), g)
  BY Zenon, <1>1
<1>3. Scan(list, beats) = g[Len(list)]
  BY Zenon DEF Scan, Steps
<1>4. QED
  BY Zenon, <1>2, <1>3 DEF Trace

\* What a scan returns is one of the elements it looked at.
LEMMA ScanIsIn ==
  ASSUME NEW S, NEW list \in Seq(S), NEW beats, Len(list) > 0
  PROVE  Scan(list, beats) \in Range(list)
<1>1. PICK f : Trace(list, beats, f) /\ Scan(list, beats) = f[Len(list)]
  BY Zenon, ScanIsTrace
<1>2. Len(list) \in 1..Len(list)
  OBVIOUS
<1>3. QED
  BY Zenon, <1>1, <1>2 DEF Trace

\* When b \in beats[a] is a strict total order of the elements, it is the least of them.
LEMMA ScanIsLeast ==
  ASSUME NEW S, NEW list \in Seq(S), NEW beats, Len(list) > 0,
         \A a, b \in Range(list) : a = b \/ b \in beats[a] \/ a \in beats[b],
         \A a, b, c \in Range(list) : b \in beats[a] /\ c \in beats[b] => c \in beats[a]
  PROVE  \A b \in Range(list) : b = Scan(list, beats) \/ b \in beats[Scan(list, beats)]
<1>1. PICK f : Trace(list, beats, f) /\ Scan(list, beats) = f[Len(list)]
  BY Zenon, ScanIsTrace
<1> DEFINE R == Range(list)
           Before(a, b) == b = a \/ b \in beats[a]
           Best(n) == \A i \in 1..n : Before(f[n], list[i])
           T == {n \in Nat : n > 0 /\ n <= Len(list) /\ ~Best(n)}
<1>0. /\ Len(list) \in Nat /\ DOMAIN list = 1..Len(list)
      /\ \A i \in 1..Len(list) : list[i] \in R /\ f[i] \in R
  BY <1>1 DEF Range, Trace
<1>a. \A b \in R : \E i \in 1..Len(list) : b = list[i]
  BY <1>0 DEF Range
<1>b. /\ f[1] = list[1]
      /\ \A i \in 2..Len(list) : f[i] = IF f[i - 1] \in beats[list[i]] THEN list[i] ELSE f[i - 1]
  BY Zenon, <1>1 DEF Trace, Steps
<1>c. /\ \A a, b \in R : Before(a, b) \/ a \in beats[b]
      /\ \A a, b, c \in R : b \in beats[a] /\ Before(b, c) => Before(a, c)
  BY Zenon
<1> HIDE DEF R
<1>2. Best(1)
  <2>1. \A i \in 1..1 : i = 1
    OBVIOUS
  <2>2. QED
    BY Zenon, <1>b, <2>1
<1>3. ASSUME NEW n \in Nat, n > 0, n + 1 <= Len(list), Best(n)
      PROVE  Best(n + 1)
  <2>0. n + 1 \in 2..Len(list) /\ (n + 1) - 1 = n /\ n + 1 \in 1..Len(list) /\ n \in 1..Len(list)
    BY <1>0, <1>3
  <2>1. f[n + 1] = IF f[n] \in beats[list[n + 1]] THEN list[n + 1] ELSE f[n]
    BY Zenon, <1>b, <2>0
  <2>2. list[n + 1] \in R /\ f[n] \in R
    BY Zenon, <1>0, <2>0
  <2>3. ASSUME NEW i \in 1..(n + 1) PROVE Before(f[n + 1], list[i])
    <3>1. CASE i = n + 1
      BY Zenon, <1>c, <2>1, <2>2, <3>1
    <3>2. CASE i # n + 1
      <4>1. i \in 1..n /\ i \in 1..Len(list)
        BY <2>0, <3>2
      <4>2. Before(f[n], list[i]) /\ list[i] \in R
        BY Zenon, <1>0, <1>3, <4>1
      <4>3. QED
        BY Zenon, <1>c, <2>1, <2>2, <4>2
    <3>3. QED
      BY Zenon, <3>1, <3>2
  <2>4. QED
    BY Zenon, <2>3
<1> HIDE DEF Best
<1>4. T = {}
  <2> SUFFICES ASSUME NEW x \in T PROVE FALSE
    BY Zenon
  <2>1. T \in SUBSET Nat
    OBVIOUS
  <2>2. PICK l \in T : \A m \in T : l <= m
    BY Zenon, <2>1, LeastNat
  <2>3. l \in Nat /\ l > 0 /\ l <= Len(list) /\ ~Best(l)
    OBVIOUS
  <2>4. l # 1
    BY Zenon, <1>2, <2>3
  <2>5. l - 1 \in Nat /\ l - 1 > 0 /\ l - 1 <= Len(list) /\ (l - 1) + 1 = l /\ ~(l <= l - 1)
    BY <2>3, <2>4, <1>0
  <2>6. Best(l - 1)
    BY Zenon, <2>2, <2>5
  <2>7. QED
    BY Zenon, <1>3, <2>3, <2>5, <2>6
<1>5. Best(Len(list))
  BY <1>0, <1>4
<1>6. QED
  <2>1. ASSUME NEW b \in R PROVE b = Scan(list, beats) \/ b \in beats[Scan(list, beats)]
    <3>1. PICK i \in 1..Len(list) : b = list[i]
      BY Zenon, <1>a
    <3>2. QED
      BY Zenon, <1>1, <1>5, <3>1 DEF Best
  <2>2. QED
    BY Zenon, <2>1 DEF R

-----------------------------------------------------------------------------
(* Filtered: the loops that keep some of the candidates.                  *)

\* The first j elements, those of them that are kept, and how many these are.
KeptTo(list, keep, j) == {k \in 1..j : list[k] \in keep}
KeptCount(list, keep, j) == Cardinality(KeptTo(list, keep, j))

LEMMA KeptType ==
  ASSUME NEW list, NEW keep, NEW j \in Nat
  PROVE  IsFiniteSet(KeptTo(list, keep, j)) /\ KeptCount(list, keep, j) \in Nat
<1>1. IsFiniteSet(1..j)
  BY FS_Interval
<1>2. KeptTo(list, keep, j) \in SUBSET (1..j)
  BY Zenon DEF KeptTo
<1>3. QED
  BY Zenon, <1>1, <1>2, FS_Subset, FS_CardinalityType DEF KeptCount

LEMMA KeptGrows ==
  ASSUME NEW list, NEW keep, NEW i \in Nat, NEW j \in Nat, i < j
  PROVE  /\ KeptCount(list, keep, i) <= KeptCount(list, keep, j)
         /\ list[j] \in keep => KeptCount(list, keep, i) < KeptCount(list, keep, j)
<1> DEFINE A == KeptTo(list, keep, i)
           B == KeptTo(list, keep, j)
<1>1. A \in SUBSET B
  BY DEF KeptTo
<1>2. IsFiniteSet(A) /\ Cardinality(A) \in Nat /\ IsFiniteSet(B) /\ Cardinality(B) \in Nat
  BY Zenon, KeptType DEF KeptCount
<1>3. Cardinality(A) <= Cardinality(B)
  BY Zenon, <1>1, <1>2, FS_Subset
<1>4. ASSUME list[j] \in keep PROVE Cardinality(A) # Cardinality(B)
  <2>1. j \in B /\ j \notin A
    BY <1>4 DEF KeptTo
  <2>2. QED
    BY Zenon, <1>1, <1>2, <2>1, FS_Subset
<1> HIDE DEF A, B
<1>5. list[j] \in keep => Cardinality(A) < Cardinality(B)
  BY <1>2, <1>3, <1>4
<1>6. QED
  BY Zenon, <1>3, <1>5 DEF KeptCount, A, B

LEMMA KeptNext ==
  ASSUME NEW list, NEW keep, NEW j \in Nat
  PROVE  /\ KeptCount(list, keep, j + 1) <= KeptCount(list, keep, j) + 1
         /\ list[j + 1] \notin keep => KeptCount(list, keep, j + 1) = KeptCount(list, keep, j)
<1> DEFINE A == KeptTo(list, keep, j)
<1>1. IsFiniteSet(A) /\ Cardinality(A) \in Nat
  BY Zenon, KeptType DEF KeptCount
<1>2. 1..(j + 1) = (1..j) \cup {j + 1} /\ j + 1 \notin 1..j
  OBVIOUS
<1>3. CASE list[j + 1] \notin keep
  <2>1. KeptTo(list, keep, j + 1) = A
    BY Zenon, <1>2, <1>3 DEF KeptTo
  <2>2. Cardinality(A) <= Cardinality(A) + 1
    BY <1>1
  <2>3. QED
    BY Zenon, <2>1, <2>2 DEF KeptCount
<1>4. CASE list[j + 1] \in keep
  <2>1. KeptTo(list, keep, j + 1) = A \cup {j + 1}
    BY Zenon, <1>2, <1>4 DEF KeptTo
  <2>2. j + 1 \notin A
    BY Zenon, <1>2 DEF KeptTo
  <2>3. Cardinality(A \cup {j + 1}) = Cardinality(A) + 1
    BY Zenon, <1>1, <2>2, FS_AddElement
  <2>a. Cardinality(A) + 1 <= Cardinality(A) + 1
    BY <1>1
  <2>4. QED
    BY Zenon, <1>4, <2>1, <2>3, <2>a DEF KeptCount
<1>5. QED
  BY Zenon, <1>3, <1>4

LEMMA KeptNone == ASSUME NEW list, NEW keep PROVE KeptCount(list, keep, 0) = 0
<1>1. KeptTo(list, keep, 0) = {}
  BY DEF KeptTo
<1>2. QED
  BY Zenon, <1>1, FS_EmptySet DEF KeptCount

\* For every i there is an element with which i have been kept.
LEMMA KeptReaches ==
  ASSUME NEW list, NEW keep, NEW n \in Nat, NEW i \in 1..KeptCount(list, keep, n)
  PROVE  \E j \in 1..n : list[j] \in keep /\ KeptCount(list, keep, j) = i
<1> DEFINE C(j) == KeptCount(list, keep, j)
           T == {j \in Nat : i <= C(j)}
<1>0. /\ \A j \in Nat : C(j) \in Nat /\ C(j + 1) <= C(j) + 1 /\ (list[j + 1] \notin keep => C(j + 1) = C(j))
      /\ C(0) = 0 /\ i \in 1..C(n)
  BY Zenon, KeptType, KeptNext, KeptNone
<1> HIDE DEF C
<1>1. i \in Nat /\ i > 0 /\ i <= C(n)
  BY <1>0
<1>2. n \in T /\ T \in SUBSET Nat
  BY <1>1
<1>3. PICK l \in T : \A m \in T : l <= m
  BY Zenon, <1>2, LeastNat
<1>4. l \in Nat /\ i <= C(l) /\ l <= n
  BY <1>2, <1>3
<1>5. l # 0
  BY <1>0, <1>1, <1>4
<1>6. l - 1 \in Nat /\ l = (l - 1) + 1 /\ ~(l <= l - 1) /\ l \in 1..n
  BY <1>4, <1>5
<1>7. ~(i <= C(l - 1))
  BY Zenon, <1>3, <1>6
<1>8. C(l - 1) \in Nat /\ C(l) \in Nat /\ C(l) <= C(l - 1) + 1 /\ (list[l] \notin keep => C(l) = C(l - 1))
  BY Zenon, <1>0, <1>6
<1>9. C(l) = i /\ list[l] \in keep
  BY <1>1, <1>4, <1>7, <1>8
<1>10. QED
  BY Zenon, <1>6, <1>9 DEF C

\* Filtered keeps exactly the elements of keep.
LEMMA FilteredFacts ==
  ASSUME NEW S, NEW list \in Seq(S), NEW keep
  PROVE  Filtered(list, keep) \in Seq(S) /\ Range(Filtered(list, keep)) = Range(list) \cap keep
<1> DEFINE n == Len(list)
           C(j) == KeptCount(list, keep, j)
           Good(i, j) == list[j] \in keep /\ C(j) = i
           At(i) == CHOOSE j \in 1..n : Good(i, j)
           g == [i \in 1..C(n) |-> list[At(i)]]
<1>0. n \in Nat /\ DOMAIN list = 1..n /\ C(n) \in Nat /\ \A j \in 1..n : list[j] \in S
  BY KeptType
<1>1. Filtered(list, keep) = g
  BY Zenon DEF Filtered, KeptCount, KeptTo
<1> HIDE DEF n
<1>a. n \in Nat /\ C(n) \in Nat
  BY Zenon, <1>0
<1>2. ASSUME NEW i \in 1..C(n)
      PROVE  At(i) \in 1..n /\ Good(i, At(i))
  <2>1. \E j \in 1..n : Good(i, j)
    BY Zenon, <1>0, KeptReaches
  <2> HIDE DEF Good
  <2>2. QED
    BY Zenon, <2>1
<1>3. ASSUME NEW j \in 1..n, list[j] \in keep
      PROVE  C(j) \in 1..C(n) /\ At(C(j)) = j
  <2>a. j \in Nat /\ 0 \in Nat /\ 0 < j /\ (j < n \/ j = n)
    BY <1>a
  <2>0. C(j) \in Nat /\ C(0) = 0
    BY Zenon, <2>a, KeptType, KeptNone
  <2>1. C(0) < C(j) /\ (j < n => C(j) <= C(n)) /\ (j = n => C(j) = C(n))
    BY Zenon, <1>0, <1>3, <2>a, KeptGrows
  <2> HIDE DEF C
  <2>2. C(j) \in 1..C(n)
    BY <1>a, <2>0, <2>1, <2>a
  <2> USE DEF C
  <2>3. At(C(j)) \in 1..n /\ list[At(C(j))] \in keep /\ C(At(C(j))) = C(j)
    BY Zenon, <1>2, <2>2
  <2> HIDE DEF At
  <2>4. PICK k \in 1..n : k = At(C(j)) /\ list[k] \in keep /\ C(k) = C(j)
    BY Zenon, <2>3
  <2>5. k \in Nat
    BY <1>a
  <2>6. (k < j => C(k) < C(j)) /\ (j < k => C(j) < C(k))
    BY Zenon, <1>3, <2>a, <2>4, <2>5, KeptGrows
  <2>7. k = j
    BY <2>0, <2>a, <2>4, <2>5, <2>6
  <2>8. QED
    BY Zenon, <2>2, <2>4, <2>7
<1> HIDE DEF At, C
<1>4. g \in Seq(S) /\ DOMAIN g = 1..C(n)
  BY <1>0, <1>2
<1>5. ASSUME NEW x \in Range(g) PROVE x \in Range(list) \cap keep
  <2>1. PICK i \in 1..C(n) : x = list[At(i)]
    BY Zenon DEF Range
  <2>2. QED
    BY Zenon, <1>0, <1>2, <2>1 DEF Range
<1>6. ASSUME NEW x \in Range(list), x \in keep PROVE x \in Range(g)
  <2>1. PICK j \in 1..n : x = list[j]
    BY Zenon, <1>0 DEF Range
  <2>2. C(j) \in 1..C(n) /\ At(C(j)) = j
    BY Zenon, <1>3, <1>6, <2>1
  <2>3. QED
    BY Zenon, <2>1, <2>2 DEF Range
<1>7. QED
  BY Zenon, <1>1, <1>4, <1>5, <1>6

-----------------------------------------------------------------------------
(* The saturating cost of kv-aware.                                        *)

Capped(n) == IF n <= Top THEN n ELSE Top

LEMMA Products ==
  ASSUME NEW a \in Nat, NEW b \in Nat, NEW p \in Nat, a <= b
  PROVE  a * p \in Nat /\ b * p \in Nat /\ a * p <= b * p
  OBVIOUS

LEMMA StrictProducts ==
  ASSUME NEW a \in Nat, NEW b \in Nat, NEW p \in Nat, a < b, p > 0
  PROVE  a * p < b * p
<1>1. PICK d \in Nat : b = a + d /\ d > 0
  OBVIOUS
<1>2. (a + d) * p = a * p + d * p /\ a * p \in Nat /\ d * p \in Nat /\ d * p > 0
  BY <1>1
<1>3. QED
  BY <1>1, <1>2

LEMMA Division ==
  ASSUME NEW a \in Nat, NEW b \in Nat, b > 0
  PROVE  a \div b \in Nat /\ (a \div b) * b <= a /\ a < ((a \div b) + 1) * b
  OBVIOUS

LEMMA WrapIsExact == ASSUME NEW n \in 0..Top PROVE Wrap(n) = n
<1>1. Top \in Nat
  BY CostConstants
<1>2. ASSUME NEW x \in Nat, NEW m \in Nat, x < m PROVE x % m = x
  BY <1>2
<1>3. n + Top + 1 \in Nat /\ 2 * (Top + 1) \in Nat /\ n + Top + 1 < 2 * (Top + 1)
  BY <1>1
<1>4. (n + Top + 1) % (2 * (Top + 1)) = n + Top + 1
  BY Zenon, <1>2, <1>3
<1>5. QED
  BY <1>1, <1>4 DEF Wrap

LEMMA MultiplyIsExact ==
  ASSUME NEW c \in Nat, NEW p \in 0..Top
  PROVE  c * p \in Nat /\ saturatingMultiply(c, p) = Capped(c * p)
<1>1. Top \in Nat /\ p \in Nat
  BY CostConstants
<1>2. c * p \in Nat
  BY <1>1
<1>3. CASE c <= 0 \/ p <= 0
  <2>1. c * p = 0
    BY <1>1, <1>3
  <2>2. QED
    BY <1>1, <1>3, <2>1 DEF saturatingMultiply, Capped
<1>4. CASE ~(c <= 0 \/ p <= 0)
  <2> DEFINE d == Top \div p
  <2>1. p > 0
    BY <1>1, <1>4
  <2>2. d \in Nat /\ d * p <= Top /\ Top < (d + 1) * p
    BY Zenon, <1>1, <2>1, Division
  <2>3. saturatingMultiply(c, p) = IF c > d THEN Top ELSE Wrap(c * p)
    BY Zenon, <1>4 DEF saturatingMultiply
  <2> HIDE DEF d
  <2>4. CASE c > d
    <3>1. d + 1 \in Nat /\ d + 1 <= c
      BY <2>2, <2>4
    <3>2. (d + 1) * p \in Nat /\ (d + 1) * p <= c * p
      BY Zenon, <1>1, <3>1, Products
    <3>3. ~(c * p <= Top)
      BY <1>1, <1>2, <2>2, <3>2
    <3>4. QED
      BY Zenon, <1>2, <2>3, <2>4, <3>3 DEF Capped
  <2>5. CASE ~(c > d)
    <3>1. c <= d
      BY <2>2, <2>5
    <3>2. d * p \in Nat /\ c * p <= d * p
      BY Zenon, <1>1, <2>2, <3>1, Products
    <3>3. c * p <= Top /\ c * p \in 0..Top
      BY <1>1, <1>2, <2>2, <3>2
    <3>4. QED
      BY Zenon, <1>2, <2>3, <2>5, <3>3, WrapIsExact DEF Capped
  <2>6. QED
    BY Zenon, <2>4, <2>5
<1>5. QED
  BY Zenon, <1>3, <1>4

LEMMA AddIsExact ==
  ASSUME NEW x \in Nat, NEW y \in Nat
  PROVE  Capped(x) \in 0..Top /\ saturatingAdd(Capped(x), Capped(y)) = Capped(x + y)
<1> DEFINE l == Capped(x)
           r == Capped(y)
<1>1. Top \in Nat
  BY CostConstants
<1>2. l \in 0..Top /\ r \in 0..Top /\ l = IF x <= Top THEN x ELSE Top
  BY <1>1 DEF Capped
<1>3. r = IF y <= Top THEN y ELSE Top
  BY Zenon DEF Capped
<1> HIDE DEF l, r
<1>4. Top - r \in 0..Top
  BY <1>1, <1>2
<1>5. saturatingAdd(l, r) = IF l >= Top - r THEN Top ELSE Wrap(l + r)
  BY Zenon, <1>4, WrapIsExact DEF saturatingAdd
<1>6. CASE l >= Top - r
  <2>1. x + y <= Top => x + y = Top
    BY <1>1, <1>2, <1>3, <1>6
  <2>2. QED
    BY Zenon, <1>2, <1>5, <1>6, <2>1 DEF Capped, l, r
<1>7. CASE ~(l >= Top - r)
  <2>1. l + r \in 0..Top /\ x = l /\ y = r /\ x + y <= Top
    BY <1>1, <1>2, <1>3, <1>7
  <2>2. QED
    BY Zenon, <1>2, <1>5, <1>7, <2>1, WrapIsExact DEF Capped, l, r
<1>8. QED
  BY Zenon, <1>6, <1>7

LEMMA CostIsExact ==
  ASSUME NEW s, NEW b, s.kv.prompt \in 0..Top, s.kv.matches[b].tokens \in 0..s.kv.prompt,
         s.loads[b].queue \in Nat, s.loads[b].running \in Nat, s.loads[b].delta \in Nat,
         s.inflight[b] \in Nat
  PROVE  ExactCost(b, s) \in Nat /\ kvAwareCost(b, s) = Capped(ExactCost(b, s))
<1>0. Top \in Nat /\ QueuePenalty \in 0..Top /\ RunningPenalty \in 0..Top /\ InflightPenalty \in 0..Top
  BY CostConstants
<1>1. PICK base \in 0..Top : base = s.kv.prompt - s.kv.matches[b].tokens
  BY <1>0
<1>2. base \in Nat /\ base = Capped(base)
  BY <1>0 DEF Capped
<1>3. CASE s.loads[b].valid
  <2>1. PICK q \in Nat : q = s.loads[b].queue * QueuePenalty /\ saturatingMultiply(s.loads[b].queue, QueuePenalty) = Capped(q)
    BY Zenon, <1>0, MultiplyIsExact
  <2>2. PICK r \in Nat : r = s.loads[b].running * RunningPenalty /\ saturatingMultiply(s.loads[b].running, RunningPenalty) = Capped(r)
    BY Zenon, <1>0, MultiplyIsExact
  <2>3. PICK d \in Nat : d = s.loads[b].delta * InflightPenalty /\ saturatingMultiply(s.loads[b].delta, InflightPenalty) = Capped(d)
    BY Zenon, <1>0, MultiplyIsExact
  <2>4. kvAwareCost(b, s) = saturatingAdd(saturatingAdd(saturatingAdd(Capped(base), Capped(q)), Capped(r)), Capped(d))
    BY Zenon, <1>1, <1>2, <1>3, <2>1, <2>2, <2>3 DEF kvAwareCost
  <2>5. base + q \in Nat /\ (base + q) + r \in Nat
    BY <1>2
  <2>6. saturatingAdd(Capped(base), Capped(q)) = Capped(base + q)
    BY Zenon, <1>2, AddIsExact
  <2>a. saturatingAdd(Capped(base + q), Capped(r)) = Capped((base + q) + r)
    BY Zenon, <2>5, AddIsExact
  <2>b. saturatingAdd(Capped((base + q) + r), Capped(d)) = Capped(((base + q) + r) + d)
    BY Zenon, <2>5, AddIsExact
  <2>7. ExactCost(b, s) = base + (q + r + d)
    BY Zenon, <1>1, <1>3, <2>1, <2>2, <2>3 DEF ExactCost
  <2>8. base + (q + r + d) = ((base + q) + r) + d /\ base + (q + r + d) \in Nat
    BY <1>2
  <2>9. QED
    BY Zenon, <2>4, <2>6, <2>7, <2>8, <2>a, <2>b
<1>4. CASE ~s.loads[b].valid
  <2>1. PICK d \in Nat : d = s.inflight[b] * InflightPenalty /\ saturatingMultiply(s.inflight[b], InflightPenalty) = Capped(d)
    BY Zenon, <1>0, MultiplyIsExact
  <2>2. kvAwareCost(b, s) = saturatingAdd(Capped(base), Capped(d))
    BY Zenon, <1>1, <1>2, <1>4, <2>1 DEF kvAwareCost
  <2>3. ExactCost(b, s) = base + d
    BY Zenon, <1>1, <1>4, <2>1 DEF ExactCost
  <2>4. base + d \in Nat
    BY <1>2
  <2>5. QED
    BY Zenon, <1>2, <2>2, <2>3, <2>4, AddIsExact
<1>5. QED
  BY Zenon, <1>3, <1>4

-----------------------------------------------------------------------------
(* The strategies.                                                         *)

LEMMA ListFacts ==
  ASSUME NEW S, NEW list \in Seq(S)
  PROVE  Len(list) \in Nat /\ Range(list) \subseteq S /\ (Len(list) > 0 <=> Range(list) # {})
         /\ \A i \in 1..Len(list) : list[i] \in Range(list)
<1>1. Len(list) \in Nat /\ DOMAIN list = 1..Len(list) /\ \A i \in 1..Len(list) : list[i] \in S
  OBVIOUS
<1>2. \A x \in Range(list) : \E i \in 1..Len(list) : x = list[i]
  BY Zenon, <1>1 DEF Range
<1>3. \A i \in 1..Len(list) : list[i] \in Range(list)
  BY Zenon, <1>1 DEF Range
<1>4. Range(list) \subseteq S
  BY Zenon, <1>1, <1>2
<1>5. Len(list) > 0 => 1 \in 1..Len(list)
  BY <1>1
<1>6. ASSUME NEW i \in 1..Len(list) PROVE Len(list) > 0
  BY <1>1
<1>7. QED
  BY Zenon, <1>1, <1>2, <1>3, <1>4, <1>5, <1>6

\* The members of a snapshot that are eligible, and those not hard-overloaded.
Candidates(s) == Range(EligibleBackends(s))
LEMMA EligibleFacts ==
  ASSUME NEW s, s.order \in Seq(Backends)
  PROVE  /\ EligibleBackends(s) \in Seq(Backends) /\ Candidates(s) = Range(s.order) \ s.open
         /\ Candidates(s) \subseteq Backends
<1>1. /\ EligibleBackends(s) \in Seq(Backends)
      /\ Candidates(s) = Range(s.order) \cap (Range(s.order) \ s.open)
  BY Zenon, FilteredFacts DEF EligibleBackends, Candidates
<1>2. QED
  BY Zenon, <1>1, ListFacts DEF Candidates

LEMMA NotHardFacts ==
  ASSUME NEW list \in Seq(Backends), NEW loads
  PROVE  /\ withoutHardOverload(list, loads) \in Seq(Backends)
         /\ Range(withoutHardOverload(list, loads)) = {b \in Range(list) : ~loads[b].hard}
<1>1. /\ withoutHardOverload(list, loads) \in Seq(Backends)
      /\ Range(withoutHardOverload(list, loads)) = Range(list) \cap {b \in Range(list) : ~loads[b].hard}
  BY Zenon, FilteredFacts DEF withoutHardOverload
<1>2. QED
  BY Zenon, <1>1

\* A backend of s is chosen although hard-overloaded only when every eligible one is.
Spared(b, s) == b \in Candidates(s) /\ (s.loads[b].hard => \A c \in Candidates(s) : s.loads[c].hard)

LEMMA BalancedFacts ==
  ASSUME NEW s, s.order \in Seq(Backends), Candidates(s) # {}
  PROVE  /\ loadBalancedBackends(s) \in Seq(Backends) /\ Len(loadBalancedBackends(s)) > 0
         /\ \A b \in Range(loadBalancedBackends(s)) : Spared(b, s)
<1> DEFINE a == withoutHardOverload(EligibleBackends(s), s.loads)
<1>1. EligibleBackends(s) \in Seq(Backends)
  BY Zenon, EligibleFacts
<1>2. a \in Seq(Backends) /\ Range(a) = {b \in Candidates(s) : ~s.loads[b].hard}
  BY Zenon, <1>1, NotHardFacts DEF Candidates
<1>3. loadBalancedBackends(s) = IF Len(a) > 0 THEN a ELSE EligibleBackends(s)
  BY Zenon DEF loadBalancedBackends
<1> HIDE DEF a
<1>4. CASE Len(a) > 0
  BY Zenon, <1>2, <1>3, <1>4 DEF Spared
<1>5. CASE ~(Len(a) > 0)
  <2>1. Range(a) = {}
    BY Zenon, <1>2, <1>5, ListFacts
  <2>2. Len(EligibleBackends(s)) > 0
    BY Zenon, <1>1, ListFacts DEF Candidates
  <2>3. \A b \in Candidates(s) : s.loads[b].hard
    BY Zenon, <1>2, <2>1
  <2>4. QED
    BY Zenon, <1>1, <1>3, <1>5, <2>2, <2>3 DEF Spared, Candidates
<1>6. QED
  BY Zenon, <1>4, <1>5

LEMMA RotatedFacts ==
  ASSUME NEW list \in Seq(Backends), Len(list) > 0, NEW hash \in Nat
  PROVE  /\ Rotated(list, hash) \in Seq(Backends) /\ Len(Rotated(list, hash)) > 0
         /\ Range(Rotated(list, hash)) \subseteq Range(list)
<1> DEFINE n == Len(list)
           At(i) == ((hash + i - 1) % n) + 1
           r == [i \in 1..n |-> list[At(i)]]
<1>1. n \in Nat /\ n > 0 /\ \A i \in 1..n : list[i] \in Range(list) /\ list[i] \in Backends
  BY Zenon, ListFacts
<1>2. Rotated(list, hash) = r
  BY Zenon DEF Rotated
<1> HIDE DEF n
<1>3. ASSUME NEW i \in 1..n PROVE At(i) \in 1..n
  <2>1. hash + i - 1 \in Nat /\ n \in Nat /\ n > 0
    BY <1>1
  <2>2. PICK x \in Nat : x = hash + i - 1
    BY Zenon, <2>1
  <2>3. x % n \in 0..(n - 1)
    BY <1>1
  <2>4. (x % n) + 1 \in 1..n
    BY <1>1, <2>3
  <2>5. QED
    BY Zenon, <2>2, <2>4
<1> HIDE DEF At
<1>4. r \in [1..n -> Backends] /\ \A i \in 1..n : r[i] \in Range(list)
  BY Zenon, <1>1, <1>3
<1>5. DOMAIN r = 1..n
  BY Zenon
<1> HIDE DEF r
<1>6. r \in Seq(Backends) /\ Len(r) = n
  BY <1>1, <1>4
<1>7. Range(r) \subseteq Range(list)
  BY Zenon, <1>4, <1>5 DEF Range
<1>8. QED
  BY Zenon, <1>1, <1>2, <1>6, <1>7

LEMMA LoadBalancedFacts ==
  ASSUME NEW s, s.order \in Seq(Backends), Candidates(s) # {}, NEW hash \in Nat
  PROVE  /\ Spared(LoadBalancedSelect(hash, s).backend, s)
         /\ LoadBalancedSelect(hash, s).policy = "load-balanced"
         /\ LoadBalancedSelect(hash, s).reason = "load_balanced"
<1> DEFINE list == Rotated(loadBalancedBackends(s), hash)
           beats == [b \in Range(list) |-> {best \in Range(list) : localInflightLess(b, best, s)}]
<1>1. LoadBalancedSelect(hash, s) = Decision(Scan(list, beats), "load_balanced", "load-balanced")
  BY Zenon DEF LoadBalancedSelect
<1>2. list \in Seq(Backends) /\ Len(list) > 0 /\ \A b \in Range(list) : Spared(b, s)
  BY Zenon, BalancedFacts, RotatedFacts
<1> HIDE DEF list, beats
<1>3. Spared(Scan(list, beats), s)
  BY Zenon, <1>2, ScanIsIn
<1>4. PICK d : d = LoadBalancedSelect(hash, s)
  BY Zenon
<1>5. d.backend = Scan(list, beats) /\ d.reason = "load_balanced" /\ d.policy = "load-balanced"
  BY <1>1, <1>4 DEF Decision
<1>6. QED
  BY Zenon, <1>3, <1>4, <1>5

LEMMA LoadAwareFacts ==
  ASSUME NEW s, s.order \in Seq(Backends), Candidates(s) # {}, NEW hash \in Nat
  PROVE  /\ Spared(LoadAwareSelect(hash, s).backend, s)
         /\ LoadAwareSelect(hash, s).policy \in {"load-aware", "load-balanced"}
         /\ LoadAwareSelect(hash, s).reason \in {"load_aware", "load_balanced"}
<1> DEFINE list == loadBalancedBackends(s)
           beats == [b \in Range(list) |-> {best \in Range(list) : observedLoadLess(b, best, s)}]
<1>1. LoadAwareSelect(hash, s) = IF completeObservedLoad(list, s.loads)
                                 THEN Decision(Scan(list, beats), "load_aware", "load-aware")
                                 ELSE LoadBalancedSelect(hash, s)
  BY Zenon DEF LoadAwareSelect
<1>2. list \in Seq(Backends) /\ Len(list) > 0 /\ \A b \in Range(list) : Spared(b, s)
  BY Zenon, BalancedFacts
<1> HIDE DEF list, beats
<1>3. Spared(Scan(list, beats), s)
  BY Zenon, <1>2, ScanIsIn
<1>4. PICK d : d = LoadAwareSelect(hash, s)
  BY Zenon
<1>5. CASE completeObservedLoad(list, s.loads)
  <2>1. d.backend = Scan(list, beats) /\ d.reason = "load_aware" /\ d.policy = "load-aware"
    BY <1>1, <1>4, <1>5 DEF Decision
  <2>2. QED
    BY Zenon, <1>3, <1>4, <2>1
<1>6. CASE ~completeObservedLoad(list, s.loads)
  BY Zenon, <1>1, <1>6, LoadBalancedFacts
<1>7. QED
  BY Zenon, <1>5, <1>6

LEMMA RoundRobinFacts ==
  ASSUME NEW s, s.order \in Seq(Backends), Candidates(s) # {}, NEW n \in Nat
  PROVE  /\ RoundRobinSelect(n, s).backend \in Candidates(s)
         /\ RoundRobinSelect(n, s).policy = "round-robin"
         /\ RoundRobinSelect(n, s).reason = "round_robin"
<1>1. EligibleBackends(s) \in Seq(Backends)
  BY Zenon, EligibleFacts
<1>2. PICK m \in Nat : m = Len(EligibleBackends(s)) /\ m > 0
  BY Zenon, <1>1, ListFacts DEF Candidates
<1>3. (n % m) + 1 \in 1..m
  BY <1>2
<1>4. EligibleBackends(s)[(n % m) + 1] \in Candidates(s)
  BY Zenon, <1>1, <1>2, <1>3, ListFacts DEF Candidates
<1>5. QED
  <2>1. PICK d : d = RoundRobinSelect(n, s)
    BY Zenon
  <2>2. d = Decision(EligibleBackends(s)[(n % m) + 1], "round_robin", "round-robin")
    BY Zenon, <1>2, <2>1 DEF RoundRobinSelect
  <2>3. d.backend = EligibleBackends(s)[(n % m) + 1] /\ d.reason = "round_robin" /\ d.policy = "round-robin"
    BY <2>2 DEF Decision
  <2>4. QED
    BY Zenon, <1>4, <2>1, <2>3

LEMMA LeastLoadedIsEligible ==
  ASSUME NEW s, s.order \in Seq(Backends), Candidates(s) # {}, NEW tie
  PROVE  leastLoaded(s, tie) \in Candidates(s)
<1>1. EligibleBackends(s) \in Seq(Backends)
  BY Zenon, EligibleFacts
<1>2. Len(EligibleBackends(s)) > 0
  BY Zenon, <1>1, ListFacts DEF Candidates
<1>3. QED
  BY Zenon, <1>1, <1>2, ScanIsIn DEF leastLoaded, Candidates

LEMMA WithinBoundsIsEligible ==
  ASSUME NEW s, s.order \in Seq(Backends), Candidates(s) # {}, NEW p \in Range(s.order)
  PROVE  WithinBounds(p, s) \in Candidates(s)
<1>1. leastLoaded(s, p) \in Candidates(s) /\ (p \notin s.open => p \in Candidates(s))
  BY Zenon, LeastLoadedIsEligible, EligibleFacts
<1>2. QED
  BY Zenon, <1>1 DEF WithinBounds

-----------------------------------------------------------------------------
(* kv-aware.                                                               *)

\* The snapshot's numbers.
Numbers(s) ==
  /\ s.order \in Seq(Backends) /\ s.kv.prompt \in 0..Top
  /\ \A b \in Range(s.order) : /\ s.loads[b].queue \in Nat /\ s.loads[b].running \in Nat
                               /\ s.loads[b].delta \in Nat /\ s.inflight[b] \in Nat
\* What CheapestIsChosen, LocalityNeedsEveryMatch and DecisionIsEligible say of a
\* decision d made from the snapshot s.
Cheapest(b, s) ==
  \A c \in Candidates(s) : ~s.loads[c].hard =>
    LET mine == ExactCost(b, s)
        his  == ExactCost(c, s)
    IN  mine < his \/ his >= Top \/ (mine = his /\ b <= c)
Matched(s) ==
  \A b \in Candidates(s) : /\ b \in DOMAIN s.kv.matches /\ s.kv.matches[b].valid
                  /\ s.kv.matches[b].tokens <= s.kv.prompt
Sound(d, s) ==
  /\ IF s.fresh /\ Candidates(s) # {} THEN d.backend \in Candidates(s) ELSE d.backend = Service
  /\ d.backend # Service /\ mode[1] \in {"kv-aware", "load-aware", "load-balanced"}
     /\ s.loads[d.backend].hard => \A b \in Candidates(s) : s.loads[b].hard
  /\ d.policy \in KVPolicies => Matched(s)
  /\ d.reason \in {"kv_aware", "kv_static_fallback"} => Cheapest(d.backend, s)

LEMMA BackendsAreNumbers == \A b \in Backends : b \in Nat /\ b # Service
<1>1. Backends \subseteq Nat \ {0}
  BY Zenon, InputConstants
<1>2. QED
  BY Zenon, <1>1 DEF Service

LEMMA EligibleNumbers ==
  ASSUME NEW s, Numbers(s)
  PROVE  Candidates(s) \subseteq Range(s.order) /\ \A b \in Candidates(s) : b \in Nat
<1>1. Candidates(s) \subseteq Range(s.order) /\ Candidates(s) \subseteq Backends
  BY Zenon, EligibleFacts DEF Numbers
<1>2. QED
  BY Zenon, <1>1, BackendsAreNumbers

\* A usable KV signal: every eligible backend has a match within the prompt.
LEMMA UsableFacts ==
  ASSUME NEW s, Numbers(s), UsableFor(s.kv, Candidates(s))
  PROVE  /\ Matched(s) /\ Candidates(s) # {}
         /\ \A b \in Candidates(s) : s.kv.matches[b].tokens \in 0..s.kv.prompt
<1>1. \A b \in Candidates(s) : /\ b \in DOMAIN s.kv.matches /\ s.kv.matches[b].valid
                      /\ s.kv.matches[b].tokens \in 0..s.kv.prompt
  BY Zenon DEF UsableFor
<1>2. ASSUME NEW b \in Candidates(s) PROVE s.kv.matches[b].tokens <= s.kv.prompt
  <2>1. Top \in Nat /\ s.kv.prompt \in 0..Top /\ s.kv.matches[b].tokens \in 0..s.kv.prompt
    BY Zenon, <1>1, CostConstants DEF Numbers
  <2>2. QED
    BY <2>1
<1>3. QED
  BY Zenon, <1>1, <1>2 DEF Matched, UsableFor

\* The order of kv-aware on the costs, and what being first in it means exactly.
LEMMA CostOrder ==
  ASSUME NEW s, Numbers(s), UsableFor(s.kv, Candidates(s))
  PROVE  /\ \A a, b \in Candidates(s) : a = b \/ kvAwareLess(a, b, s) \/ kvAwareLess(b, a, s)
         /\ \A a, b, c \in Candidates(s) : kvAwareLess(a, b, s) /\ kvAwareLess(b, c, s) => kvAwareLess(a, c, s)
         /\ \A a, b \in Candidates(s) : a = b \/ kvAwareLess(a, b, s) =>
              LET mine == ExactCost(a, s)
                  his  == ExactCost(b, s)
              IN  mine < his \/ his >= Top \/ (mine = his /\ a <= b)
<1> DEFINE K(b) == kvAwareCost(b, s)
           X(b) == ExactCost(b, s)
<1>1. Top \in Nat
  BY CostConstants
<1>2. ASSUME NEW b \in Candidates(s) PROVE b \in Nat /\ X(b) \in Nat /\ K(b) = Capped(X(b))
  <2>1. b \in Nat /\ b \in Range(s.order)
    BY Zenon, EligibleNumbers
  <2>2. QED
    BY Zenon, <2>1, UsableFacts, CostIsExact DEF Numbers
<1>3. \A a, b : kvAwareLess(a, b, s) <=> K(a) < K(b) \/ (K(a) = K(b) /\ a < b)
  BY Zenon DEF kvAwareLess
<1> HIDE DEF K, X
<1>4. \A b \in Candidates(s) : b \in Nat /\ X(b) \in Nat /\ K(b) \in Nat /\ K(b) = IF X(b) <= Top THEN X(b) ELSE Top
  <2> SUFFICES ASSUME NEW b \in Candidates(s)
               PROVE  b \in Nat /\ X(b) \in Nat /\ K(b) \in Nat /\ K(b) = IF X(b) <= Top THEN X(b) ELSE Top
    BY Zenon
  <2>1. QED
    BY <1>1, <1>2 DEF Capped
<1>5. ASSUME NEW a \in Candidates(s), NEW b \in Candidates(s) PROVE a = b \/ kvAwareLess(a, b, s) \/ kvAwareLess(b, a, s)
  BY <1>3, <1>4
<1>6. ASSUME NEW a \in Candidates(s), NEW b \in Candidates(s), NEW c \in Candidates(s), kvAwareLess(a, b, s), kvAwareLess(b, c, s)
      PROVE  kvAwareLess(a, c, s)
  BY <1>3, <1>4, <1>6
<1>7. ASSUME NEW a \in Candidates(s), NEW b \in Candidates(s), a = b \/ kvAwareLess(a, b, s)
      PROVE  X(a) < X(b) \/ X(b) >= Top \/ (X(a) = X(b) /\ a <= b)
  BY <1>1, <1>3, <1>4, <1>7
<1>8. QED
  BY Zenon, <1>5, <1>6, <1>7 DEF X

LEMMA KVAwareFacts ==
  ASSUME NEW s, Numbers(s), UsableFor(s.kv, Candidates(s)), NEW estimator
  PROVE  /\ Spared(KVAwareSelect(s, estimator).backend, s)
         /\ KVAwareSelect(s, estimator).reason \in {"kv_aware", "kv_static_fallback"}
              => Cheapest(KVAwareSelect(s, estimator).backend, s)
<1> DEFINE list == EligibleBackends(s)
           cs   == withoutHardOverload(list, s.loads)
           byEstimate == [b \in Range(cs) |-> {best \in Range(cs) : staticEstimateLess(b, best, s.estimates)}]
           byCost == [b \in Range(cs) |-> {best \in Range(cs) : kvAwareLess(b, best, s)}]
<1>1. list \in Seq(Backends) /\ Candidates(s) # {} /\ s.order \in Seq(Backends)
  BY Zenon, EligibleFacts, UsableFacts DEF Numbers
<1>2. cs \in Seq(Backends) /\ Range(cs) = {b \in Candidates(s) : ~s.loads[b].hard}
  BY Zenon, <1>1, NotHardFacts DEF Candidates
<1>3. PICK d : d = KVAwareSelect(s, estimator)
  BY Zenon
<1>4. d = IF Len(cs) = 0 THEN Decision(leastLoaded(s, Service), "kv_hard_overload", "kv-aware")
          ELSE IF estimator = "static" /\ staticEstimatesUsable(cs, s.estimates)
          THEN Decision(Scan(cs, byEstimate), "kv_static", "kv-aware-static")
          ELSE Decision(Scan(cs, byCost), IF estimator = "static" THEN "kv_static_fallback" ELSE "kv_aware", "kv-aware")
  BY Zenon, <1>3 DEF KVAwareSelect
<1>5. \A a \in Range(cs) : byCost[a] = {best \in Range(cs) : kvAwareLess(a, best, s)}
  BY Zenon
<1> HIDE DEF list, cs, byEstimate, byCost
<1>6. \A b \in Range(cs) : Spared(b, s)
  BY Zenon, <1>2 DEF Spared
<1>7. CASE Len(cs) = 0
  <2>1. d.backend = leastLoaded(s, Service) /\ d.reason = "kv_hard_overload"
    BY <1>4, <1>7 DEF Decision
  <2>2. ~(Len(cs) > 0)
    BY <1>7
  <2>3. \A b \in Candidates(s) : s.loads[b].hard
    BY Zenon, <1>2, <2>2, ListFacts
  <2>4. leastLoaded(s, Service) \in Candidates(s)
    BY Zenon, <1>1, LeastLoadedIsEligible
  <2>5. QED
    BY Zenon, <1>3, <2>1, <2>3, <2>4 DEF Spared
<1>8. ASSUME Len(cs) # 0 PROVE Len(cs) > 0
  <2>1. Len(cs) \in Nat
    BY Zenon, <1>2, ListFacts
  <2>2. QED
    BY <1>8, <2>1
<1>9. CASE Len(cs) # 0 /\ estimator = "static" /\ staticEstimatesUsable(cs, s.estimates)
  <2>1. d.backend = Scan(cs, byEstimate) /\ d.reason = "kv_static"
    BY <1>4, <1>9 DEF Decision
  <2>2. Scan(cs, byEstimate) \in Range(cs)
    BY Zenon, <1>2, <1>8, <1>9, ScanIsIn
  <2>3. QED
    BY Zenon, <1>3, <1>6, <2>1, <2>2
<1>10. CASE Len(cs) # 0 /\ ~(estimator = "static" /\ staticEstimatesUsable(cs, s.estimates))
  <2>1. d.backend = Scan(cs, byCost)
    BY <1>4, <1>10 DEF Decision
  <2>2. PICK m \in Range(cs) : m = Scan(cs, byCost)
    BY Zenon, <1>2, <1>8, <1>10, ScanIsIn
  <2>3. Range(cs) \subseteq Candidates(s)
    BY Zenon, <1>2
  <2>4. \A a, b \in Range(cs) : b \in byCost[a] <=> kvAwareLess(a, b, s)
    BY Zenon, <1>5
  <2>5. \A a, b \in Range(cs) : a = b \/ b \in byCost[a] \/ a \in byCost[b]
    BY Zenon, <2>3, <2>4, CostOrder
  <2>6. \A a, b, c \in Range(cs) : b \in byCost[a] /\ c \in byCost[b] => c \in byCost[a]
    BY Zenon, <2>3, <2>4, CostOrder
  <2>7. \A b \in Range(cs) : b = m \/ b \in byCost[m]
    BY Zenon, <1>2, <1>8, <1>10, <2>2, <2>5, <2>6, ScanIsLeast
  <2>8. ASSUME NEW c \in Candidates(s), ~s.loads[c].hard
        PROVE  LET mine == ExactCost(m, s)
                   his  == ExactCost(c, s)
               IN  mine < his \/ his >= Top \/ (mine = his /\ m <= c)
    <3>1. c \in Range(cs)
      BY Zenon, <1>2, <2>8
    <3>2. m = c \/ kvAwareLess(m, c, s)
      BY Zenon, <2>4, <2>7, <3>1
    <3>3. m \in Candidates(s)
      BY Zenon, <2>3
    <3>4. QED
      BY Zenon, <3>2, <3>3, CostOrder
  <2>9. Cheapest(m, s)
    BY Zenon, <2>8 DEF Cheapest
  <2>10. QED
    BY Zenon, <1>3, <1>6, <2>1, <2>2, <2>9
<1>11. QED
  BY Zenon, <1>7, <1>9, <1>10

-----------------------------------------------------------------------------
(* selectDecision.                                                         *)

LEMMA LoadAwareIsDecision ==
  ASSUME NEW s, NEW hash
  PROVE  \E b, r, p : LoadAwareSelect(hash, s) = Decision(b, r, p)
  BY Zenon DEF LoadAwareSelect, LoadBalancedSelect

LEMMA KVFallbackFacts ==
  ASSUME NEW s, s.order \in Seq(Backends), Candidates(s) # {}, NEW hash \in Nat, NEW reason
  PROVE  /\ Spared(KVFallback(s, reason, hash).backend, s)
         /\ KVFallback(s, reason, hash).policy \notin KVPolicies
         /\ KVFallback(s, reason, hash).reason = reason
<1>1. PICK b, r, p : LoadAwareSelect(hash, s) = Decision(b, r, p)
  BY Zenon, LoadAwareIsDecision
<1>2. PICK k : k = KVFallback(s, reason, hash)
  BY Zenon
<1>3. k = [Decision(b, r, p) EXCEPT !.reason = reason,
             !.policy = IF Decision(b, r, p).policy = "load-aware" THEN "kv-load-aware-fallback"
                                                                   ELSE "kv-load-balanced-fallback"]
  BY Zenon, <1>1, <1>2 DEF KVFallback
<1>4. /\ k.backend = b /\ k.reason = reason
      /\ k.policy = "kv-load-aware-fallback" \/ k.policy = "kv-load-balanced-fallback"
  BY <1>3 DEF Decision
<1>5. Decision(b, r, p).backend = b
  BY DEF Decision
<1>6. Spared(b, s)
  BY Zenon, <1>1, <1>5, LoadAwareFacts
<1>7. k.policy \notin KVPolicies
  BY <1>4 DEF KVPolicies
<1>8. QED
  BY Zenon, <1>2, <1>4, <1>6, <1>7

LEMMA DirectFacts ==
  ASSUME NEW s, s.order \in Seq(Backends)
  PROVE  /\ (s.fresh /\ Candidates(s) # {}) => DirectFallback(s) = NoDecision
         /\ ~(s.fresh /\ Candidates(s) # {}) =>
              /\ DirectFallback(s) # NoDecision /\ DirectFallback(s).backend = Service
              /\ DirectFallback(s).policy = "service-fallback"
              /\ DirectFallback(s).reason \in {"discovery", "circuit"}
<1>1. EligibleBackends(s) \in Seq(Backends)
  BY Zenon, EligibleFacts
<1>2. PICK n \in Nat : n = Len(EligibleBackends(s)) /\ (n > 0 <=> Candidates(s) # {})
  BY Zenon, <1>1, ListFacts DEF Candidates
<1>3. n = 0 <=> Candidates(s) = {}
  BY <1>2
<1>4. PICK d : d = DirectFallback(s)
  BY Zenon
<1>5. d = IF ~s.fresh THEN Fallback("discovery") ELSE IF Candidates(s) = {} THEN Fallback("circuit") ELSE NoDecision
  BY Zenon, <1>2, <1>3, <1>4 DEF DirectFallback
<1>6. CASE s.fresh /\ Candidates(s) # {}
  BY Zenon, <1>4, <1>5, <1>6
<1>7. CASE ~(s.fresh /\ Candidates(s) # {})
  <2>1. PICK r \in {"discovery", "circuit"} : d = Fallback(r)
    BY Zenon, <1>5, <1>7
  <2>2. d.backend = Service /\ d.policy = "service-fallback" /\ d.reason = r /\ d # NoDecision
    BY <2>1 DEF Fallback, Decision, NoDecision
  <2>3. QED
    BY Zenon, <1>4, <1>7, <2>1, <2>2
<1>8. QED
  BY Zenon, <1>6, <1>7

\* How a sound decision comes about.
LEMMA SoundFallback ==
  ASSUME NEW s, s.order \in Seq(Backends), ~(s.fresh /\ Candidates(s) # {}), NEW d, d = DirectFallback(s)
  PROVE  Sound(d, s)
<1>1. d.backend = Service /\ d.policy = "service-fallback" /\ d.reason \in {"discovery", "circuit"}
  BY Zenon, DirectFacts
<1>2. d.policy \notin KVPolicies /\ d.reason \notin {"kv_aware", "kv_static_fallback"}
  BY <1>1 DEF KVPolicies
<1>3. QED
  BY Zenon, <1>1, <1>2 DEF Sound

LEMMA SoundSpared ==
  ASSUME NEW s, s.fresh, NEW d, Spared(d.backend, s),
         d.policy \in KVPolicies => Matched(s),
         d.reason \in {"kv_aware", "kv_static_fallback"} => Cheapest(d.backend, s)
  PROVE  Sound(d, s)
  BY Zenon DEF Sound, Spared

LEMMA SoundUnbounded ==
  ASSUME NEW s, s.fresh, NEW d, d.backend \in Candidates(s), mode[1] \in {"round-robin", "session-key"},
         d.policy \in {"round-robin", "session-key"},
         d.reason \in {"round_robin", "session", "no_session_key"}
  PROVE  Sound(d, s)
<1>1. /\ d.policy \notin KVPolicies /\ d.reason \notin {"kv_aware", "kv_static_fallback"}
      /\ mode[1] \notin {"kv-aware", "load-aware", "load-balanced"}
  BY DEF KVPolicies
<1>2. QED
  BY Zenon, <1>1 DEF Sound

LEMMA SelectIsSound ==
  ASSUME NEW s, Numbers(s), mode[1] # "session-key", mode \in Modes, next \in Nat, NEW hash \in Nat
  PROVE  Sound(selectDecision(s, hash), s)
<1>0. s.order \in Seq(Backends)
  BY Zenon DEF Numbers
<1>1. PICK d : d = selectDecision(s, hash)
  BY Zenon
<1>2. CASE ~(s.fresh /\ Candidates(s) # {})
  <2>1. DirectFallback(s) # NoDecision
    BY Zenon, <1>0, <1>2, DirectFacts
  <2>2. d = DirectFallback(s)
    BY Zenon, <1>1, <2>1 DEF selectDecision
  <2>3. QED
    BY Zenon, <1>0, <1>1, <1>2, <2>2, SoundFallback
<1>3. CASE s.fresh /\ Candidates(s) # {}
  <2>1. DirectFallback(s) = NoDecision
    BY Zenon, <1>0, <1>3, DirectFacts
  <2>2. d = CASE mode[1] = "kv-aware" /\ kvStatus = "short_context" -> KVFallback(s, "short_context", hash)
              [] mode[1] = "kv-aware" /\ kvStatus # "short_context" ->
                   IF UsableFor(s.kv, Range(EligibleBackends(s))) THEN KVAwareSelect(s, mode[2])
                   ELSE KVFallback(s, "kv_unavailable", hash)
              [] mode[1] = "load-aware" -> LoadAwareSelect(hash, s)
              [] mode[1] = "load-balanced" -> LoadBalancedSelect(hash, s)
              [] mode[1] = "round-robin" -> RoundRobinSelect(next, s)
    BY Zenon, <1>1, <2>1 DEF selectDecision
  <2>3. CASE mode[1] = "kv-aware"
    <3>1. CASE kvStatus # "short_context" /\ UsableFor(s.kv, Candidates(s))
      <4>1. d = KVAwareSelect(s, mode[2])
        BY <2>2, <2>3, <3>1 DEF Candidates
      <4>2. QED
        BY Zenon, <1>1, <1>3, <3>1, <4>1, KVAwareFacts, UsableFacts, SoundSpared
    <3>2. CASE ~(kvStatus # "short_context" /\ UsableFor(s.kv, Candidates(s)))
      <4>1. PICK r \in {"short_context", "kv_unavailable"} : d = KVFallback(s, r, hash)
        BY <2>2, <2>3, <3>2 DEF Candidates
      <4>a. \A x : /\ Spared(KVFallback(s, x, hash).backend, s)
                   /\ KVFallback(s, x, hash).policy \notin KVPolicies /\ KVFallback(s, x, hash).reason = x
        BY Zenon, <1>0, <1>3, KVFallbackFacts
      <4>2. Spared(d.backend, s) /\ d.policy \notin KVPolicies /\ d.reason = r
        BY Zenon, <4>1, <4>a
      <4>3. r \notin {"kv_aware", "kv_static_fallback"}
        OBVIOUS
      <4>4. QED
        BY Zenon, <1>1, <1>3, <4>2, <4>3, SoundSpared
    <3>3. QED
      BY Zenon, <3>1, <3>2
  <2>4. CASE mode[1] \in {"load-aware", "load-balanced"}
    <3>1. d = LoadAwareSelect(hash, s) \/ d = LoadBalancedSelect(hash, s)
      BY <2>2, <2>4
    <3>2. /\ Spared(d.backend, s) /\ d.policy \in {"load-aware", "load-balanced"}
          /\ d.reason \in {"load_aware", "load_balanced"}
      BY Zenon, <1>0, <1>3, <3>1, LoadAwareFacts, LoadBalancedFacts
    <3>3. d.policy \notin KVPolicies /\ d.reason \notin {"kv_aware", "kv_static_fallback"}
      BY <3>2 DEF KVPolicies
    <3>4. QED
      BY Zenon, <1>1, <1>3, <3>2, <3>3, SoundSpared
  <2>5. CASE mode[1] = "round-robin"
    <3>1. d = RoundRobinSelect(next, s)
      BY <2>2, <2>5
    <3>2. QED
      BY Zenon, <1>0, <1>1, <1>3, <2>5, <3>1, RoundRobinFacts, SoundUnbounded
  <2>6. QED
    BY Zenon, <2>3, <2>4, <2>5, InputConstants
<1>4. QED
  BY Zenon, <1>2, <1>3

-----------------------------------------------------------------------------
(* The final snapshot.                                                     *)

LEMMA OrderFacts == ASSUME NEW o \in Orders PROVE o \in Seq(Backends) /\ Range(o) \subseteq Backends
<1>1. Cardinality(Backends) \in Nat
  BY Zenon, InputConstants, FS_CardinalityType
<1>2. PICK n \in 0..Cardinality(Backends) : o \in [1..n -> Backends]
  BY Zenon DEF Orders
<1>3. n \in Nat
  BY <1>1
<1>4. o \in Seq(Backends)
  BY <1>2, <1>3
<1>5. QED
  BY Zenon, <1>4, ListFacts

LEMMA CountIsNat == ASSUME NEW sample, sample.half \in Int PROVE nonNegativeCount(sample).n \in Nat
<1>1. PICK h \in Int : h = sample.half
  BY Zenon
<1>2. h >= 0 => (h + 1) \div 2 \in Nat
  OBVIOUS
<1>3. CASE sample.valid /\ h >= 0 /\ h <= 2 * Top
  <2>1. nonNegativeCount(sample) = [ok |-> TRUE, n |-> (h + 1) \div 2]
    BY Zenon, <1>1, <1>3 DEF nonNegativeCount
  <2>2. QED
    BY <1>2, <1>3, <2>1
<1>4. CASE ~(sample.valid /\ h >= 0 /\ h <= 2 * Top)
  <2>1. nonNegativeCount(sample) = [ok |-> FALSE, n |-> 0]
    BY Zenon, <1>1, <1>4 DEF nonNegativeCount
  <2>2. QED
    BY <2>1
<1>5. QED
  BY Zenon, <1>3, <1>4

LEMMA LoadIsNat ==
  ASSUME NEW o, o.queue.half \in Int, o.running.half \in Int, NEW i \in Nat
  PROVE  /\ routingLoad(o, i).queue \in Nat /\ routingLoad(o, i).running \in Nat
         /\ routingLoad(o, i).delta \in Nat
<1> DEFINE q == nonNegativeCount(o.queue)
           r == nonNegativeCount(o.running)
           valid == q.ok /\ r.ok
           load  == [valid   |-> valid,
                     queue   |-> IF valid THEN q.n ELSE 0,
                     running |-> IF valid THEN r.n ELSE 0,
                     delta   |-> IF valid /\ i > r.n THEN i - r.n ELSE 0,
                     hot     |-> runtimeHardOverloaded(o), hard |-> FALSE]
           hard == hardOverloaded(load, i)
<1>1. q.n \in Nat /\ r.n \in Nat
  BY Zenon, CountIsNat
<1>2. routingLoad(o, i) = [load EXCEPT !.hard = hard]
  BY Zenon DEF routingLoad
<1> HIDE DEF q, r, valid, hard
<1>3. [load EXCEPT !.hard = hard].queue \in Nat /\ [load EXCEPT !.hard = hard].running \in Nat
      /\ [load EXCEPT !.hard = hard].delta \in Nat
  BY <1>1
<1>4. QED
  BY Zenon, <1>2, <1>3

\* What the final snapshot of a request holds.
LEMMA SnapFacts ==
  ASSUME order \in Orders, kv.prompt \in 0..Top, NEW s \in Snapshots
  PROVE  Numbers(Completed(s)) /\ Completed(s).order = order /\ Completed(s).kv = kv
<1> DEFINE Seen(cases) == [b \in {c \in Range(order) : cases[c].seen} |-> cases[b]]
<1>1. PICK open \in SUBSET Range(order), fresh \in BOOLEAN, inflight \in [Range(order) -> Inflights],
           cases \in [Range(order) -> ObsCases] : s = Snapshot(open, fresh, inflight, cases)
  BY DEF Snapshots
<1>2. s = [order |-> order, open |-> open, fresh |-> fresh, inflight |-> inflight,
           obs |-> Seen(cases), loads |-> <<>>, kv |-> kv, estimates |-> <<>>]
  BY Zenon, <1>1 DEF Snapshot
<1> DEFINE obs == Seen(cases)
           loads == routingLoads(order, obs, inflight)
<1>3. obs = [b \in {c \in Range(order) : cases[c].seen} |-> cases[b]]
  BY Zenon
<1> HIDE DEF Seen, obs
<1>4. s.order = order /\ s.obs = obs /\ s.inflight = inflight
  BY <1>2 DEF obs
<1>5. /\ Completed(s).order = order /\ Completed(s).kv = kv /\ Completed(s).inflight = inflight
      /\ Completed(s).loads = loads
  <2> DEFINE loaded == [s EXCEPT !.loads = loads]
             estimated == [loaded EXCEPT !.estimates = staticLatencyEstimates(loaded)]
  <2>1. Completed(s) = IF kvStatus = "available" /\ mode[2] = "static" THEN estimated ELSE loaded
    BY Zenon, <1>4 DEF Completed
  <2> HIDE DEF loads
  <2>2. loaded = [order |-> order, open |-> open, fresh |-> fresh, inflight |-> inflight,
                  obs |-> Seen(cases), loads |-> loads, kv |-> kv, estimates |-> <<>>]
    BY <1>2
  <2> HIDE DEF loaded
  <2>3. /\ loaded.order = order /\ loaded.kv = kv /\ loaded.inflight = inflight /\ loaded.loads = loads
        /\ estimated.order = order /\ estimated.kv = kv /\ estimated.inflight = inflight
        /\ estimated.loads = loads
    BY <2>2
  <2>4. QED
    BY Zenon, <2>1, <2>3
<1>6. ASSUME NEW b \in Range(order)
      PROVE  /\ loads[b].queue \in Nat /\ loads[b].running \in Nat /\ loads[b].delta \in Nat
             /\ inflight[b] \in Nat
  <2>1. inflight[b] \in Nat
    BY Zenon, InputConstants
  <2>2. PICK o : o = Observed(obs, b)
    BY Zenon
  <2>3. o.queue.half \in Int /\ o.running.half \in Int
    <3>1. CASE b \in DOMAIN obs
      <4>1. o = cases[b]
        BY Zenon, <1>3, <2>2, <3>1 DEF Observed
      <4>2. cases[b] \in ObsCases
        BY Zenon
      <4>3. QED
        BY Zenon, <4>1, <4>2, InputConstants
    <3>2. CASE b \notin DOMAIN obs
      <4>1. o = [queue |-> Unknown, running |-> Unknown, runtime |-> Unknown]
        BY Zenon, <2>2, <3>2 DEF Observed
      <4>2. QED
        BY <4>1 DEF Unknown
    <3>3. QED
      BY Zenon, <3>1, <3>2
  <2>4. loads[b] = routingLoad(o, inflight[b])
    BY Zenon, <2>2 DEF routingLoads
  <2>5. QED
    BY Zenon, <2>1, <2>3, <2>4, LoadIsNat
<1> HIDE DEF loads
<1>7. order \in Seq(Backends)
  BY Zenon, OrderFacts
<1>8. QED
  BY Zenon, <1>5, <1>6, <1>7 DEF Numbers

-----------------------------------------------------------------------------
(* The decisions of every request.                                         *)

\* Types, the prompt the KV signal is about, and the request's decision: made from
\* the snapshot it was made from, with a member as the preferred backend on the way.
Typed ==
  /\ TypeOK /\ mode \in Modes /\ kv.prompt \in 0..Top
Chosen ==
  /\ pc = "done" => Sound(decision, snap)
  /\ pc \in {"remember", "bounds"} =>
       /\ mode[1] = "session-key" /\ snap.order = order /\ snap.fresh /\ Candidates(snap) # {}
       /\ preferred \in Range(order)
DInv == Typed /\ Chosen

EntryOK(e, t) == e = Absent \/ (e.b \in Backends /\ e.expires <= t + TTL)

LEMMA DropsEntries ==
  ASSUME \A k \in Keys : EntryOK(entries[k], now), Drops, now \in Nat, now' \in Nat, now <= now', Table
  PROVE  \A k \in Keys : EntryOK(entries'[k], now')
<1> SUFFICES ASSUME NEW k \in Keys PROVE EntryOK(entries'[k], now')
  BY Zenon
<1>1. CASE entries'[k] = Absent
  BY Zenon, <1>1 DEF EntryOK
<1>2. CASE entries'[k] # Absent
  <2>1. entries'[k] = entries[k] /\ entries[k].b \in Backends /\ entries[k].expires <= now + TTL
        /\ entries[k].expires \in Nat
    BY Zenon, <1>2 DEF Drops, EntryOK, Table
  <2>2. entries[k].expires <= now' + TTL
    BY <2>1, Constants
  <2>3. QED
    BY Zenon, <2>1, <2>2 DEF EntryOK
<1>3. QED
  BY Zenon, <1>1, <1>2

LEMMA EmptyOrder == <<>> \in Orders
<1>1. Cardinality(Backends) \in Nat
  BY Zenon, InputConstants, FS_CardinalityType
<1>2. 0 \in 0..Cardinality(Backends)
  BY <1>1
<1>3. << >> \in [1..0 -> Backends]
  OBVIOUS
<1>4. IsInjective(<< >>)
  BY DEF IsInjective
<1>5. QED
  BY <1>2, <1>3, <1>4 DEF Orders

LEMMA NoKVPrompt == NoKV.prompt = 0 /\ 0 \in 0..Top /\ NoDecision.backend = Service
  BY CostConstants DEF NoKV, NoDecision, Decision

LEMMA InitDInv == Init => DInv
<1> SUFFICES ASSUME Init PROVE DInv
  BY Zenon
<1>1. /\ mode \in Modes /\ pc = "idle" /\ order = <<>> /\ kv = NoKV /\ decision = NoDecision
      /\ next = 0 /\ now = 0 /\ preferred = Service /\ \A k \in Keys : entries[k] = Absent
  BY Zenon DEF Init
<1>2. next \in 0..5 /\ now \in 0..MaxTime
  BY <1>1, SelectionConstants
<1>3. Chosen
  BY <1>1 DEF Chosen
<1>4. TypeOK
  BY Zenon, <1>1, <1>2, NoKVPrompt, EmptyOrder DEF TypeOK
<1>5. QED
  BY Zenon, <1>1, <1>3, <1>4, NoKVPrompt DEF DInv, Typed

\* A sound decision names a backend or the Service.
LEMMA SoundBackend ==
  ASSUME NEW d, NEW s, s.order \in Seq(Backends), Sound(d, s)
  PROVE  d.backend \in Backends \cup {Service}
  BY Zenon, EligibleFacts DEF Sound

\* What BuildKVAwareInput leaves of the KV signal.
LEMMA BuildKVPrompt ==
  ASSUME BuildKVAwareInput, kv.prompt \in 0..Top
  PROVE  kv'.prompt \in 0..Top
<1> DEFINE Signal(n, m) == [prompt |-> n, matches |-> m]
<1>1. kv' = kv \/ kv' = NoKV \/ \E n \in Prompts : \E m : kv' = Signal(n, m)
  BY ZenonT(120) DEF BuildKVAwareInput
<1>2. CASE \E n \in Prompts : \E m : kv' = Signal(n, m)
  <2>1. PICK n \in Prompts : \E m : kv' = Signal(n, m)
    BY Zenon, <1>2
  <2>2. kv'.prompt = n
    BY <2>1
  <2>3. QED
    BY Zenon, <2>2, InputConstants
<1>3. QED
  BY Zenon, <1>1, <1>2, NoKVPrompt

\* The parts of the invariant that a step may disturb.
TypeParts ==
  /\ pc \in {"idle", "kv", "final", "remember", "bounds", "done"} /\ order \in Orders
  /\ next \in 0..5 /\ now \in 0..MaxTime /\ preferred \in Backends \cup {Service}
  /\ decision.backend \in Backends \cup {Service} /\ mode \in Modes /\ kv.prompt \in 0..Top

LEMMA TypedParts == Typed <=> TypeParts /\ \A k \in Keys : EntryOK(entries[k], now)
  BY Zenon DEF Typed, TypeOK, TypeParts, EntryOK

LEMMA TypedPartsNext == Typed' <=> TypeParts' /\ \A k \in Keys : EntryOK(entries'[k], now')
  BY Zenon DEF Typed, TypeOK, TypeParts, EntryOK

LEMMA NowFacts == ASSUME Typed PROVE now \in Nat /\ now <= now
<1>1. now \in 0..MaxTime
  BY Zenon DEF Typed, TypeOK
<1>2. QED
  BY <1>1, SelectionConstants

\* A step that leaves the request, its snapshot and its decision alone.
LEMMA SameChosen ==
  ASSUME Chosen, UNCHANGED <<mode, pc, order, snap, decision, preferred>>
  PROVE  Chosen'
  BY Zenon DEF Chosen, Sound

LEMMA BeginDInv == ASSUME IInv, DInv, Begin PROVE DInv'
<1>1. Typed /\ TypeParts /\ (\A k \in Keys : EntryOK(entries[k], now)) /\ Table /\ now \in Nat /\ now <= now
  BY Zenon, TypedParts, NowFacts DEF DInv, IInv
<1>2. /\ pc' = "kv" \/ pc' = "final"
      /\ order' \in Orders /\ kv' = NoKV /\ decision' = NoDecision
      /\ UNCHANGED <<mode, next, now, preferred>>
  BY Zenon DEF Begin
<1>3. \E members : entries' \in {entries, Dropped(members)}
  BY Zenon DEF Begin
<1>4. Drops
  BY <1>1, <1>3, DroppedDrops
<1>5. \A k \in Keys : EntryOK(entries'[k], now')
  BY Zenon, <1>1, <1>2, <1>4, DropsEntries
<1>6. TypeParts'
  BY Zenon, <1>1, <1>2, NoKVPrompt DEF TypeParts
<1>7. Chosen'
  BY <1>2 DEF Chosen
<1>8. QED
  BY Zenon, <1>5, <1>6, <1>7, TypedPartsNext DEF DInv

LEMMA OtherDInv == ASSUME IInv, DInv, OtherReconcile \/ Tick \/ UNCHANGED vars PROVE DInv'
<1>1. Typed /\ TypeParts /\ (\A k \in Keys : EntryOK(entries[k], now)) /\ Table /\ now \in Nat /\ now <= now
  BY Zenon, TypedParts, NowFacts DEF DInv, IInv
<1>2. /\ UNCHANGED <<mode, pc, order, kv, snap, decision, next, preferred>>
      /\ UNCHANGED now \/ (now < MaxTime /\ now' = now + 1)
      /\ \E members : entries' \in {entries, Dropped(members)}
  BY Zenon DEF OtherReconcile, Tick, vars
<1>3. Drops
  BY <1>1, <1>2, DroppedDrops
<1>4. now' \in Nat /\ now <= now' /\ now' \in 0..MaxTime
  <2>1. now \in 0..MaxTime
    BY Zenon, <1>1 DEF TypeParts
  <2>2. QED
    BY <1>2, <2>1, SelectionConstants
<1>5. \A k \in Keys : EntryOK(entries'[k], now')
  BY Zenon, <1>1, <1>3, <1>4, DropsEntries
<1>6. TypeParts'
  BY Zenon, <1>1, <1>2, <1>4 DEF TypeParts
<1>7. Chosen'
  BY Zenon, <1>2, SameChosen DEF DInv
<1>8. QED
  BY Zenon, <1>5, <1>6, <1>7, TypedPartsNext DEF DInv

LEMMA QuietDInv == ASSUME IInv, DInv, BuildKVAwareInput \/ Finish PROVE DInv'
<1>1. TypeParts /\ \A k \in Keys : EntryOK(entries[k], now)
  BY Zenon, TypedParts DEF DInv
<1>2. /\ pc' = "idle" \/ pc' = "final"
      /\ UNCHANGED <<mode, next, entries, now, preferred>>
      /\ order' \in {order, <<>>} /\ decision' \in {decision, NoDecision}
  <2>1. CASE BuildKVAwareInput
    <3>1. UNCHANGED <<mode, order, decision, next, entries, now, preferred>>
      BY Zenon, <2>1 DEF BuildKVAwareInput
    <3>2. QED
      BY Zenon, <2>1, <3>1, BuildKVStep
  <2>2. CASE Finish
    BY Zenon, <2>2 DEF Finish
  <2>3. QED
    BY Zenon, <2>1, <2>2
<1>3. kv'.prompt \in 0..Top
  BY Zenon, <1>1, BuildKVPrompt, NoKVPrompt DEF TypeParts, Finish
<1>4. TypeParts'
  BY Zenon, <1>1, <1>2, <1>3, NoKVPrompt, EmptyOrder DEF TypeParts
<1>5. Chosen'
  BY <1>2 DEF Chosen
<1>6. QED
  BY Zenon, <1>1, <1>2, <1>4, <1>5, TypedPartsNext DEF DInv

\* Decide: the strategies without a table.
LEMMA DecideDInv == ASSUME IInv, DInv, Decide PROVE DInv'
<1>1. TypeParts /\ \A k \in Keys : EntryOK(entries[k], now)
  BY Zenon, TypedParts DEF DInv
<1>2. /\ pc' = "done" /\ mode[1] # "session-key"
      /\ next' = next \/ next' = (next + 1) % 6
      /\ UNCHANGED <<mode, order, kv, entries, now, preferred>>
  BY Zenon DEF Decide
<1>3. PICK s \in Snapshots, hash \in Hash :
        snap' = Completed(s) /\ decision' = selectDecision(Completed(s), hash)
  BY Zenon DEF Decide
<1>4. Numbers(Completed(s)) /\ Completed(s).order = order
  BY Zenon, <1>1, SnapFacts DEF TypeParts
<1>5. next \in Nat /\ next' \in 0..5
  <2>1. next \in 0..5
    BY Zenon, <1>1 DEF TypeParts
  <2>2. QED
    BY <1>2, <2>1
<1>6. hash \in Nat
  BY Zenon, InputConstants
<1>7. Sound(decision', snap')
  BY Zenon, <1>1, <1>2, <1>3, <1>4, <1>5, <1>6, SelectIsSound DEF TypeParts
<1>8. snap'.order \in Seq(Backends)
  BY Zenon, <1>3, <1>4 DEF Numbers
<1>9. decision'.backend \in Backends \cup {Service}
  BY Zenon, <1>7, <1>8, SoundBackend
<1>10. TypeParts'
  BY Zenon, <1>1, <1>2, <1>5, <1>9 DEF TypeParts
<1>11. Chosen'
  BY Zenon, <1>2, <1>7 DEF Chosen, Sound
<1>12. QED
  BY Zenon, <1>1, <1>2, <1>10, <1>11, TypedPartsNext DEF DInv

\* The rendezvous over all members, blocked ones included.
LEMMA RendezvousIsMember ==
  ASSUME order \in Orders, Range(order) # {}, NEW k
  PROVE  rendezvousBackend(k) \in Range(order)
<1>1. order \in Seq(Backends) /\ Len(order) > 0
  BY Zenon, OrderFacts, ListFacts
<1>2. QED
  BY Zenon, <1>1, ScanIsIn DEF rendezvousBackend

LEMMA SessionBeginDInv == ASSUME IInv, DInv, SessionBegin PROVE DInv'
<1>1. TypeParts /\ (\A k \in Keys : EntryOK(entries[k], now)) /\ Table /\ now \in Nat /\ now <= now
  BY Zenon, TypedParts, NowFacts DEF DInv, IInv
<1>2. mode[1] = "session-key" /\ UNCHANGED <<mode, order, key, kv, next, now>>
  BY Zenon DEF SessionBegin
<1>3. PICK s \in Snapshots :
        LET full == Completed(s)
        IN  /\ snap' = full
            /\ \/ /\ DirectFallback(full) # NoDecision
                  /\ decision' = DirectFallback(full) /\ pc' = "done" /\ UNCHANGED preferred
               \/ /\ DirectFallback(full) = NoDecision
                  /\ decision' = Decision(leastLoaded(full, Service), "no_session_key", "session-key")
                  /\ pc' = "done" /\ UNCHANGED preferred
               \/ /\ DirectFallback(full) = NoDecision
                  /\ preferred' = IF Hit(key) THEN entries[key].b ELSE rendezvousBackend(key)
                  /\ pc' = "bounds" \/ pc' = "remember"
                  /\ UNCHANGED decision
  BY Zenon DEF SessionBegin
<1> DEFINE full == Completed(s)
<1>4. Numbers(full) /\ full.order = order /\ full.order \in Seq(Backends)
  BY Zenon, <1>1, SnapFacts DEF TypeParts, Numbers
<1>5. snap' = full
  BY Zenon, <1>3
<1> HIDE DEF full
<1>6. Drops
  BY Zenon, SessionBeginStep
<1>7. \A k \in Keys : EntryOK(entries'[k], now')
  BY Zenon, <1>1, <1>2, <1>6, DropsEntries
<1>8. CASE DirectFallback(full) # NoDecision
  <2>1. ~(full.fresh /\ Candidates(full) # {})
    BY Zenon, <1>4, <1>8, DirectFacts
  <2>2. decision' = DirectFallback(full) /\ pc' = "done" /\ UNCHANGED preferred
    BY Zenon, <1>3, <1>8 DEF full
  <2>3. Sound(decision', full)
    BY Zenon, <1>4, <2>1, <2>2, SoundFallback
  <2>4. decision'.backend \in Backends \cup {Service}
    BY Zenon, <1>4, <2>3, SoundBackend
  <2>5. TypeParts'
    BY Zenon, <1>1, <1>2, <2>2, <2>4 DEF TypeParts
  <2>6. Chosen'
    BY Zenon, <1>2, <1>5, <2>2, <2>3 DEF Chosen, Sound
  <2>7. QED
    BY Zenon, <1>7, <2>5, <2>6, TypedPartsNext DEF DInv
<1>9. CASE DirectFallback(full) = NoDecision
  <2>1. full.fresh /\ Candidates(full) # {}
    BY Zenon, <1>4, <1>9, DirectFacts
  <2>2. CASE pc' = "done"
    <3>1. /\ decision' = Decision(leastLoaded(full, Service), "no_session_key", "session-key")
          /\ UNCHANGED preferred
      BY <1>3, <1>9, <2>2 DEF full
    <3>2. /\ decision'.backend = leastLoaded(full, Service) /\ decision'.reason = "no_session_key"
          /\ decision'.policy = "session-key"
      BY <3>1 DEF Decision
    <3>3. leastLoaded(full, Service) \in Candidates(full)
      BY Zenon, <1>4, <2>1, LeastLoadedIsEligible
    <3>4. Sound(decision', full)
      BY Zenon, <1>2, <2>1, <3>2, <3>3, SoundUnbounded
    <3>5. decision'.backend \in Backends \cup {Service}
      BY Zenon, <1>4, <3>4, SoundBackend
    <3>6. TypeParts'
      BY Zenon, <1>1, <1>2, <2>2, <3>1, <3>5 DEF TypeParts
    <3>7. Chosen'
      BY Zenon, <1>2, <1>5, <2>2, <3>4 DEF Chosen, Sound
    <3>8. QED
      BY Zenon, <1>7, <3>6, <3>7, TypedPartsNext DEF DInv
  <2>3. CASE pc' # "done"
    <3>1. /\ preferred' = IF Hit(key) THEN entries[key].b ELSE rendezvousBackend(key)
          /\ pc' = "bounds" \/ pc' = "remember"
          /\ UNCHANGED decision
      BY Zenon, <1>3, <1>9, <2>3 DEF full
    <3>2. Range(order) # {} /\ Range(order) \subseteq Backends
      BY Zenon, <1>1, <1>4, <2>1, EligibleFacts, OrderFacts DEF TypeParts
    <3>3. preferred' \in Range(order)
      BY Zenon, <1>1, <3>1, <3>2, RendezvousIsMember DEF Hit, TypeParts
    <3>4. TypeParts'
      BY Zenon, <1>1, <1>2, <3>1, <3>2, <3>3 DEF TypeParts
    <3>5. Chosen'
      BY Zenon, <1>2, <1>4, <1>5, <2>1, <2>3, <3>3 DEF Chosen
    <3>6. QED
      BY Zenon, <1>7, <3>4, <3>5, TypedPartsNext DEF DInv
  <2>4. QED
    BY Zenon, <2>2, <2>3
<1>10. QED
  BY Zenon, <1>8, <1>9

\* The entry that remember writes.
LEMMA RememberedEntries ==
  ASSUME IInv, DInv, key \in Keys, preferred \in Backends, entries' = Remembered(key, preferred), UNCHANGED now
  PROVE  \A k \in Keys : EntryOK(entries'[k], now')
<1>1. (\A k \in Keys : EntryOK(entries[k], now)) /\ Table /\ now \in Nat
  BY Zenon, TypedParts, NowFacts DEF DInv, IInv
<1>2. /\ entries'[key] = [b |-> preferred, expires |-> now + TTL]
      /\ \A j \in Keys : j # key => entries'[j] \in {entries[j], Absent}
  BY Zenon, <1>1, RememberedTable
<1>3. entries'[key].b = preferred /\ entries'[key].expires = now + TTL /\ now + TTL <= now + TTL
  BY <1>1, <1>2, Constants
<1>4. QED
  BY Zenon, <1>1, <1>2, <1>3 DEF EntryOK

LEMMA RememberDInv == ASSUME IInv, DInv, Remember \/ SessionDecide PROVE DInv'
<1>1. TypeParts /\ Chosen /\ Request
  BY Zenon, TypedParts DEF DInv, IInv
<1>2. /\ pc \in {"remember", "bounds"} /\ entries' = Remembered(key, preferred)
      /\ UNCHANGED <<mode, order, kv, snap, next, now>>
      /\ \/ pc' = "bounds" /\ UNCHANGED <<decision, preferred>>
         \/ /\ pc' = "done" /\ preferred' = Service
            /\ decision' = [Decision(WithinBounds(preferred, snap), "session", "session-key")
                              EXCEPT !.preferred = preferred]
  BY Zenon DEF Remember, SessionDecide, Kept
<1>3. /\ key \in Keys /\ mode[1] = "session-key" /\ snap.order = order /\ snap.fresh
      /\ Candidates(snap) # {} /\ preferred \in Range(order) /\ order \in Orders
  BY Zenon, <1>1, <1>2 DEF Chosen, Request, TypeParts
<1>4. order \in Seq(Backends) /\ preferred \in Backends
  BY Zenon, <1>3, OrderFacts
<1>5. \A k \in Keys : EntryOK(entries'[k], now')
  BY Zenon, <1>2, <1>3, <1>4, RememberedEntries
<1>6. CASE pc' = "bounds" /\ UNCHANGED <<decision, preferred>>
  <2>1. TypeParts'
    BY Zenon, <1>1, <1>2, <1>6 DEF TypeParts
  <2>2. Chosen'
    BY Zenon, <1>2, <1>3, <1>6 DEF Chosen
  <2>3. QED
    BY Zenon, <1>5, <2>1, <2>2, TypedPartsNext DEF DInv
<1>7. CASE /\ pc' = "done" /\ preferred' = Service
           /\ decision' = [Decision(WithinBounds(preferred, snap), "session", "session-key")
                             EXCEPT !.preferred = preferred]
  <2>1. /\ decision'.backend = WithinBounds(preferred, snap) /\ decision'.reason = "session"
        /\ decision'.policy = "session-key"
    BY <1>7 DEF Decision
  <2>2. WithinBounds(preferred, snap) \in Candidates(snap)
    BY Zenon, <1>3, <1>4, WithinBoundsIsEligible
  <2>3. Sound(decision', snap)
    BY Zenon, <1>3, <2>1, <2>2, SoundUnbounded
  <2>4. decision'.backend \in Backends \cup {Service}
    BY Zenon, <1>3, <1>4, <2>3, SoundBackend
  <2>5. TypeParts'
    BY Zenon, <1>1, <1>2, <1>7, <2>4 DEF TypeParts
  <2>6. Chosen'
    BY Zenon, <1>2, <1>7, <2>3 DEF Chosen, Sound
  <2>7. QED
    BY Zenon, <1>5, <2>5, <2>6, TypedPartsNext DEF DInv
<1>8. QED
  BY Zenon, <1>2, <1>6, <1>7

LEMMA DInvNext == IInv /\ DInv /\ [Next]_vars => DInv'
  BY Zenon, BeginDInv, OtherDInv, QuietDInv, DecideDInv, SessionBeginDInv, RememberDInv DEF Next

LEMMA DInvariance == Spec => []DInv
<1>1. Init => DInv
  BY InitDInv
<1>2. QED
  BY <1>1, Invariance, DInvNext, PTL DEF Spec

\* selectDecision and the strategies, for any members, circuits, loads, KV matches
\* and session-key tables: a request goes to a backend that is eligible in the
\* snapshot the decision was made from, to the Service exactly when there is none,
\* and to a hard-overloaded backend only when every eligible one is.
THEOREM DecisionsAreEligible == Spec => []DecisionIsEligible
<1>1. DInv => DecisionIsEligible
  BY Zenon DEF DInv, Typed, Chosen, Sound, DecisionIsEligible, Decided, Direct, Eligible, Candidates
<1>2. QED
  BY <1>1, DInvariance, PTL

\* KVAwareInput.UsableFor at the time of the decision: the kv-aware policies are used
\* only when every backend eligible then has a valid match within the prompt.
THEOREM LocalityIsComplete == Spec => []LocalityNeedsEveryMatch
<1>1. DInv => LocalityNeedsEveryMatch
  BY Zenon DEF DInv, Chosen, Sound, Matched, LocalityNeedsEveryMatch, Decided, Eligible, Candidates
<1>2. QED
  BY <1>1, DInvariance, PTL

\* kvAwareCost, saturatingMultiply, saturatingAdd and the scan with kvAwareLess, for
\* any int64 maximum, penalties, prompt and loads: the chosen backend is the first of
\* the cheapest candidates in exact arithmetic capped at the maximum.
THEOREM CheapestWins == Spec => []CheapestIsChosen
<1>1. DInv => CheapestIsChosen
  BY Zenon DEF DInv, Chosen, Sound, Cheapest, CheapestIsChosen, Decided, Eligible, Candidates
<1>2. QED
  BY <1>1, DInvariance, PTL

-----------------------------------------------------------------------------
(* The static TTFT estimator: its grid.                                    *)

\* math.Round of a fraction n / w, a tie up when e is 1 and down when e is 0.
Rounded(n, w, e) == (2 * n + w - 1 + e) \div (2 * w)

LEMMA DivisionGrows ==
  ASSUME NEW a \in Nat, NEW b \in Nat, NEW m \in Nat, m > 0, a <= b
  PROVE  a \div m \in Nat /\ b \div m \in Nat /\ a \div m <= b \div m
  OBVIOUS

LEMMA RoundedGrows ==
  ASSUME NEW a \in Nat, NEW b \in Nat, NEW w \in Nat, w > 0, NEW e \in {0, 1}, NEW f \in {0, 1},
         a < b \/ (a <= b /\ e = f)
  PROVE  Rounded(a, w, e) \in Nat /\ Rounded(a, w, e) <= Rounded(b, w, f)
<1>1. /\ 2 * a + w - 1 + e \in Nat /\ 2 * b + w - 1 + f \in Nat /\ 2 * w \in Nat /\ 2 * w > 0
      /\ 2 * a + w - 1 + e <= 2 * b + w - 1 + f
  OBVIOUS
<1>2. QED
  BY Zenon, <1>1, DivisionGrows DEF Rounded

LEMMA RoundedWhole ==
  ASSUME NEW a \in Nat, NEW w \in Nat, w > 0, NEW e \in {0, 1}
  PROVE  a * w \in Nat /\ Rounded(a * w, w, e) = a
<1>1. a * w \in Nat
  OBVIOUS
<1>2. 2 * (a * w) + w - 1 + e = a * (2 * w) + (w - 1 + e)
  OBVIOUS
<1>3. PICK m \in Nat, n \in Nat : m = 2 * w /\ n = w - 1 + e
  OBVIOUS
<1>4. (a * m + n) \div m = a
  BY <1>3
<1>5. QED
  BY Zenon, <1>1, <1>2, <1>3, <1>4 DEF Rounded

\* The weighted sum that interpolateDuration rounds.
Weighted(low, high, p, q) == low * p + high * q

\* t lies between two breakpoints at distance w, p below the upper and q above the lower.
Between(lowAt, highAt, t, p, q, w) ==
  /\ lowAt \in Nat /\ highAt \in Nat /\ t \in Nat /\ p \in Nat /\ q \in Nat /\ w \in Nat
  /\ p = highAt - t /\ q = t - lowAt /\ w = highAt - lowAt /\ w > 0

\* How float64 arithmetic rounds this interpolation if it is a tie.
Tie(low, high, lowAt, highAt, t) == IF <<low, high, lowAt, highAt, t>> \in TiesUp THEN 1 ELSE 0

LEMMA TieType ==
  ASSUME NEW low, NEW high, NEW lowAt, NEW highAt, NEW t
  PROVE  Tie(low, high, lowAt, highAt, t) \in {0, 1}
  BY Zenon DEF Tie

LEMMA InterpolationIsRounded ==
  ASSUME NEW low \in Nat, NEW high \in Nat, NEW lowAt, NEW highAt, NEW t, NEW p, NEW q, NEW w,
         Between(lowAt, highAt, t, p, q, w)
  PROVE  /\ Weighted(low, high, p, q) \in Nat
         /\ interpolateDuration(low, high, lowAt, highAt, t)
              = Rounded(Weighted(low, high, p, q), w, Tie(low, high, lowAt, highAt, t))
<1>1. /\ w = p + q /\ lowAt # highAt /\ w > 0 /\ p \in Nat /\ q \in Nat /\ w \in Nat
      /\ p = highAt - t /\ q = t - lowAt /\ w = highAt - lowAt
  BY DEF Between
<1>2. low * p \in Nat /\ high * q \in Nat
  BY <1>1
<1>3. low * w + q * (high - low) = low * p + high * q
  <2>1. low * (p + q) + q * (high - low) = low * p + high * q
    BY <1>1
  <2>2. QED
    BY <1>1, <2>1
<1>4. low * p + high * q \in Nat
  BY <1>2
<1>5. CASE low = high
  <2>1. low * p + low * q = low * w
    BY <1>1
  <2>2. interpolateDuration(low, high, lowAt, highAt, t) = low
    BY Zenon, <1>5 DEF interpolateDuration
  <2>3. Rounded(low * w, w, Tie(low, high, lowAt, highAt, t)) = low
    <3>1. PICK e \in {0, 1} : e = Tie(low, high, lowAt, highAt, t)
      BY Zenon, TieType
    <3>2. Rounded(low * w, w, e) = low
      BY Zenon, <1>1, RoundedWhole
    <3>3. QED
      BY Zenon, <3>1, <3>2
  <2>4. QED
    BY Zenon, <1>1, <1>4, <1>5, <2>1, <2>2, <2>3 DEF Weighted
<1>6. CASE low # high
  <2>1. interpolateDuration(low, high, lowAt, highAt, t)
          = (2 * (low * w + q * (high - low)) + w - 1 + Tie(low, high, lowAt, highAt, t)) \div (2 * w)
    BY Zenon, <1>1, <1>6 DEF interpolateDuration, Tie
  <2>2. QED
    BY Zenon, <1>1, <1>3, <1>4, <2>1 DEF Rounded, Weighted
<1>7. QED
  BY Zenon, <1>5, <1>6

\* Lower ends give a lower value.
LEMMA InterpolationGrows ==
  ASSUME NEW lo \in Nat, NEW hi \in Nat, NEW lo2 \in Nat, NEW hi2 \in Nat, lo <= lo2, hi <= hi2,
         NEW lowAt \in Nat, NEW highAt \in Nat, NEW t \in Nat, lowAt <= t, t <= highAt, lowAt < highAt
  PROVE  /\ interpolateDuration(lo, hi, lowAt, highAt, t) \in Nat
         /\ interpolateDuration(lo, hi, lowAt, highAt, t) <= interpolateDuration(lo2, hi2, lowAt, highAt, t)
<1>1. PICK p \in Nat, q \in Nat, w \in Nat : p = highAt - t /\ q = t - lowAt /\ w = highAt - lowAt /\ w > 0
  OBVIOUS
<1>c. Between(lowAt, highAt, t, p, q, w)
  BY Zenon, <1>1 DEF Between
<1> DEFINE a == Weighted(lo, hi, p, q)
           b == Weighted(lo2, hi2, p, q)
           e == Tie(lo, hi, lowAt, highAt, t)
           f == Tie(lo2, hi2, lowAt, highAt, t)
<1>a. a \in Nat /\ interpolateDuration(lo, hi, lowAt, highAt, t) = Rounded(a, w, e)
  <2>1. a \in Nat
    BY Zenon, <1>c, InterpolationIsRounded
  <2>2. interpolateDuration(lo, hi, lowAt, highAt, t) = Rounded(a, w, e)
    BY <1>c, InterpolationIsRounded
  <2>3. QED
    BY Zenon, <2>1, <2>2
<1>b. b \in Nat /\ interpolateDuration(lo2, hi2, lowAt, highAt, t) = Rounded(b, w, f)
  <2>1. b \in Nat
    BY Zenon, <1>c, InterpolationIsRounded
  <2>2. interpolateDuration(lo2, hi2, lowAt, highAt, t) = Rounded(b, w, f)
    BY <1>c, InterpolationIsRounded
  <2>3. QED
    BY Zenon, <2>1, <2>2
<1>e. e \in {0, 1} /\ f \in {0, 1}
  BY Zenon, TieType
<1>2. /\ lo * p \in Nat /\ lo2 * p \in Nat /\ lo * p <= lo2 * p
      /\ hi * q \in Nat /\ hi2 * q \in Nat /\ hi * q <= hi2 * q
  BY Zenon, Products
<1>3. a <= b
  BY <1>2 DEF Weighted
<1>g. CASE lo = lo2 /\ hi = hi2
  <2>1. Rounded(a, w, e) \in Nat /\ Rounded(a, w, e) <= Rounded(a, w, e)
    <3> HIDE DEF a, e
    <3>1. a <= a
      BY <1>a
    <3>2. QED
      BY Zenon, <1>1, <3>1, <1>a, <1>e, RoundedGrows
  <2> HIDE DEF a, e
  <2>2. QED
    BY Zenon, <2>1, <1>a, <1>g
<1>h. CASE p = 0
  <2>1. q = w /\ a = hi * w /\ b = hi2 * w
    BY <1>1, <1>h DEF Weighted
  <2> HIDE DEF a, b, e, f
  <2>2. Rounded(a, w, e) = hi /\ Rounded(b, w, f) = hi2
    BY Zenon, <1>1, <1>e, <2>1, RoundedWhole
  <2>3. QED
    BY Zenon, <1>a, <1>b, <2>2
<1>i. CASE q = 0
  <2>1. p = w /\ a = lo * w /\ b = lo2 * w
    BY <1>1, <1>i DEF Weighted
  <2> HIDE DEF a, b, e, f
  <2>2. Rounded(a, w, e) = lo /\ Rounded(b, w, f) = lo2
    BY Zenon, <1>1, <1>e, <2>1, RoundedWhole
  <2>3. QED
    BY Zenon, <1>a, <1>b, <2>2
<1>j. CASE p > 0 /\ q > 0 /\ ~(lo = lo2 /\ hi = hi2)
  <2>1. lo < lo2 => lo * p < lo2 * p
    BY <1>j, StrictProducts
  <2>2. hi < hi2 => hi * q < hi2 * q
    BY <1>j, StrictProducts
  <2>3. lo < lo2 \/ hi < hi2
    BY <1>j
  <2>4. a < b
    BY <1>2, <2>1, <2>2, <2>3 DEF Weighted
  <2> HIDE DEF a, b, e, f
  <2>5. Rounded(a, w, e) \in Nat /\ Rounded(a, w, e) <= Rounded(b, w, f)
    BY Zenon, <1>1, <1>a, <1>b, <1>e, <2>4, RoundedGrows
  <2>6. QED
    BY Zenon, <1>a, <1>b, <2>5
<1>k. p = 0 \/ p > 0
  OBVIOUS
<1>l. q = 0 \/ q > 0
  OBVIOUS
<1>5. QED
  BY Zenon, <1>g, <1>h, <1>i, <1>j, <1>k, <1>l

\* Between ends that fall, the value lies between them and falls with the target.
LEMMA InterpolationFalls ==
  ASSUME NEW low \in Nat, NEW high \in Nat, high <= low,
         NEW lowAt \in Nat, NEW highAt \in Nat, NEW t \in Nat, NEW u \in Nat,
         lowAt <= t, t <= u, u <= highAt, lowAt < highAt
  PROVE  /\ interpolateDuration(low, high, lowAt, highAt, t) \in high..low
         /\ interpolateDuration(low, high, lowAt, highAt, u) <= interpolateDuration(low, high, lowAt, highAt, t)
<1>1. PICK p \in Nat, q \in Nat, w \in Nat : p = highAt - t /\ q = t - lowAt /\ w = highAt - lowAt /\ w > 0
  OBVIOUS
<1>c. Between(lowAt, highAt, t, p, q, w)
  BY Zenon, <1>1 DEF Between
<1>2. PICK p2 \in Nat, q2 \in Nat : p2 = highAt - u /\ q2 = u - lowAt
  OBVIOUS
<1>d. Between(lowAt, highAt, u, p2, q2, w)
  BY Zenon, <1>1, <1>2 DEF Between
<1> DEFINE a == Weighted(low, high, p, q)
           b == Weighted(low, high, p2, q2)
           e == Tie(low, high, lowAt, highAt, t)
           f == Tie(low, high, lowAt, highAt, u)
<1>a. a \in Nat /\ interpolateDuration(low, high, lowAt, highAt, t) = Rounded(a, w, e)
  <2>1. a \in Nat
    BY Zenon, <1>c, InterpolationIsRounded
  <2>2. interpolateDuration(low, high, lowAt, highAt, t) = Rounded(a, w, e)
    BY <1>c, InterpolationIsRounded
  <2>3. QED
    BY Zenon, <2>1, <2>2
<1>b. b \in Nat /\ interpolateDuration(low, high, lowAt, highAt, u) = Rounded(b, w, f)
  <2>1. b \in Nat
    BY Zenon, <1>d, InterpolationIsRounded
  <2>2. interpolateDuration(low, high, lowAt, highAt, u) = Rounded(b, w, f)
    BY <1>d, InterpolationIsRounded
  <2>3. QED
    BY Zenon, <2>1, <2>2
<1>e. e \in {0, 1} /\ f \in {0, 1}
  BY Zenon, TieType
<1>3. PICK d \in Nat : d = u - t /\ p = p2 + d /\ q2 = q + d /\ w = p + q
  BY <1>1, <1>2
<1>4. high * d <= low * d /\ high * d \in Nat /\ low * d \in Nat
  BY Zenon, Products
<1>5. low * (p2 + d) = low * p2 + low * d /\ high * (q + d) = high * q + high * d
  OBVIOUS
<1>6. low * p2 \in Nat /\ high * q \in Nat
  OBVIOUS
<1>7. b <= a
  BY <1>3, <1>4, <1>5, <1>6 DEF Weighted
<1>8. high * w \in Nat /\ low * w \in Nat /\ high * w <= a /\ a <= low * w
  <2>1. /\ high * p <= low * p /\ high * p \in Nat /\ low * p \in Nat
        /\ high * q <= low * q /\ high * q \in Nat /\ low * q \in Nat
    BY Zenon, Products
  <2>2. high * (p + q) = high * p + high * q /\ low * (p + q) = low * p + low * q
    OBVIOUS
  <2>3. QED
    BY <1>3, <2>1, <2>2 DEF Weighted
<1>s. high < low /\ t < u => b < a
  <2>1. SUFFICES ASSUME high < low, d > 0 PROVE b < a
    BY <1>3
  <2>2. high * d < low * d
    BY <2>1, StrictProducts
  <2>3. QED
    BY <1>3, <1>4, <1>5, <1>6, <2>2 DEF Weighted
<1>t. high = low \/ t = u => interpolateDuration(low, high, lowAt, highAt, u) = interpolateDuration(low, high, lowAt, highAt, t)
  BY Zenon DEF interpolateDuration
<1> HIDE DEF a, b, e, f
<1>9. Rounded(a, w, e) \in Nat /\ Rounded(high * w, w, e) <= Rounded(a, w, e) /\ Rounded(a, w, e) <= Rounded(low * w, w, e)
  BY Zenon, <1>1, <1>8, <1>a, <1>e, RoundedGrows
<1>10. Rounded(high * w, w, e) = high /\ Rounded(low * w, w, e) = low
  BY Zenon, <1>1, <1>e, RoundedWhole
<1>11. Rounded(a, w, e) \in high..low
  BY <1>9, <1>10
<1>12. CASE high < low /\ t < u
  <2>1. Rounded(b, w, f) <= Rounded(a, w, e)
    BY Zenon, <1>1, <1>s, <1>12, <1>a, <1>b, <1>e, RoundedGrows
  <2>2. QED
    BY Zenon, <1>11, <2>1, <1>a, <1>b
<1>13. CASE high = low \/ t = u
  <2>1. Rounded(a, w, e) <= Rounded(a, w, e)
    BY <1>9
  <2>2. QED
    BY Zenon, <1>11, <1>13, <1>t, <2>1, <1>a
<1>14. (high < low /\ t < u) \/ high = low \/ t = u
  OBVIOUS
<1>15. QED
  BY Zenon, <1>12, <1>13, <1>14

\* The breakpoints around a target: the same one twice, at an end, or two neighbours
\* with the target above the first and not above the second.
Bracketed(v, t, l, h) ==
  /\ l \in 1..Len(v) /\ h \in 1..Len(v)
  /\ \/ l = 1 /\ h = 1 /\ t <= v[1]
     \/ l = Len(v) /\ h = Len(v) /\ t >= v[Len(v)] /\ t > v[1]
     \/ h = l + 1 /\ v[l] < t /\ t <= v[h] /\ t < v[Len(v)]

LEMMA BracketFacts ==
  ASSUME NEW v \in Seq(Nat), Len(v) > 0, NEW t \in Nat
  PROVE  Bracketed(v, t, bracket(v, t)[1], bracket(v, t)[2])
<1>0. Len(v) \in Nat /\ Len(v) > 0 /\ \A i \in 1..Len(v) : v[i] \in Nat
  OBVIOUS
<1>1. PICK n \in Nat : n = Len(v) /\ n > 0 /\ 1 \in 1..n /\ n \in 1..n /\ v[1] \in Nat /\ v[n] \in Nat
  BY <1>0
<1>2. CASE t <= v[1]
  <2>1. bracket(v, t) = <<1, 1>>
    BY Zenon, <1>2 DEF bracket
  <2>2. bracket(v, t)[1] = 1 /\ bracket(v, t)[2] = 1
    BY <2>1
  <2>3. QED
    BY Zenon, <1>1, <1>2, <2>2 DEF Bracketed
<1>3. CASE ~(t <= v[1]) /\ t >= v[n]
  <2>1. bracket(v, t) = <<n, n>>
    BY Zenon, <1>1, <1>3 DEF bracket
  <2>2. bracket(v, t)[1] = n /\ bracket(v, t)[2] = n
    BY <2>1
  <2>3. t > v[1]
    BY <1>1, <1>3
  <2>4. QED
    BY Zenon, <1>1, <1>3, <2>2, <2>3 DEF Bracketed
<1>4. CASE ~(t <= v[1]) /\ ~(t >= v[n])
  <2> DEFINE First(i) == v[i] >= t /\ \A j \in 1..(i - 1) : v[j] < t
             high == CHOOSE i \in 1..n : First(i)
             T == {i \in 1..n : v[i] >= t}
  <2>0. T \in SUBSET Nat /\ n \in T
    BY <1>1, <1>4
  <2>1. PICK m \in T : \A i \in T : m <= i
    BY Zenon, <2>0, LeastNat
  <2>2. m \in 1..n /\ v[m] >= t
    BY Zenon
  <2>3. ASSUME NEW j \in 1..(m - 1) PROVE v[j] < t
    <3>1. j \in 1..n /\ ~(m <= j)
      BY <2>2
    <3>2. ~(v[j] >= t)
      BY Zenon, <2>1, <3>1
    <3>3. v[j] \in Nat
      BY Zenon, <1>0, <1>1, <3>1
    <3>4. QED
      BY <3>2, <3>3
  <2>4. \E i \in 1..n : First(i)
    BY Zenon, <2>2, <2>3
  <2>5. high \in 1..n /\ First(high)
    BY Zenon, <2>4
  <2>6. bracket(v, t) = <<high - 1, high>>
    BY Zenon, <1>1, <1>4 DEF bracket
  <2> HIDE DEF high
  <2>7. bracket(v, t)[1] = high - 1 /\ bracket(v, t)[2] = high
    BY <2>6
  <2>8. high # 1
    <3>1. ~(v[1] >= t)
      BY <1>1, <1>4
    <3>2. QED
      BY Zenon, <2>5, <3>1
  <2>9. high - 1 \in 1..n /\ high - 1 \in 1..(high - 1) /\ (high - 1) + 1 = high
    BY <1>1, <2>5, <2>8
  <2>10. v[high - 1] < t /\ v[high] >= t /\ v[high] \in Nat
    BY Zenon, <1>0, <1>1, <2>5, <2>9
  <2>11. t <= v[high] /\ t < v[n]
    BY <1>1, <1>4, <2>10
  <2>12. QED
    BY Zenon, <1>1, <2>5, <2>7, <2>9, <2>10, <2>11 DEF Bracketed
<1>5. QED
  BY Zenon, <1>2, <1>3, <1>4

\* A larger target has the same breakpoints or later ones.
LEMMA BracketsAdvance ==
  ASSUME NEW v \in Seq(Nat), Increasing(v), NEW t \in Nat, NEW u \in Nat, t <= u,
         NEW l, NEW h, NEW l2, NEW h2, Bracketed(v, t, l, h), Bracketed(v, u, l2, h2)
  PROVE  (l = l2 /\ h = h2 /\ (l = h \/ h = l + 1)) \/ h <= l2
<1>0. PICK n \in Nat : n = Len(v)
  OBVIOUS
<1>1. /\ \A i \in 1..n : v[i] \in Nat
      /\ \A i, j \in 1..n : i < j => v[i] < v[j]
  BY <1>0 DEF Increasing
<1>2. /\ l \in 1..n /\ h \in 1..n /\ l2 \in 1..n /\ h2 \in 1..n
      /\ \/ l = 1 /\ h = 1 /\ t <= v[1]
         \/ l = n /\ h = n /\ t >= v[n] /\ t > v[1]
         \/ h = l + 1 /\ v[l] < t /\ t <= v[h] /\ t < v[n]
      /\ \/ l2 = 1 /\ h2 = 1 /\ u <= v[1]
         \/ l2 = n /\ h2 = n /\ u >= v[n] /\ u > v[1]
         \/ h2 = l2 + 1 /\ v[l2] < u /\ u <= v[h2] /\ u < v[n]
  BY Zenon, <1>0 DEF Bracketed
<1>3. CASE h = 1 \/ l2 = n
  BY <1>2, <1>3
<1>4. CASE l = n /\ h = n /\ t >= v[n] /\ t > v[1] /\ l2 # n
  <2>1. v[1] \in Nat /\ v[n] \in Nat /\ ~(u <= v[1]) /\ ~(u < v[n])
    BY <1>1, <1>2, <1>4
  <2>2. QED
    BY Zenon, <1>2, <1>4, <2>1
<1>5. CASE h = l + 1 /\ v[l] < t /\ t <= v[h] /\ h # 1 /\ l2 # n
  <2>a. l \in 1..n /\ h2 \in 1..n /\ 1 \in 1..n
    BY <1>2
  <2>1. v[1] \in Nat /\ v[l] \in Nat /\ v[h2] \in Nat /\ (1 < l => v[1] < v[l]) /\ (h2 < l => v[h2] < v[l])
    BY Zenon, <1>1, <2>a
  <2>2. v[l] < u
    BY <1>5, <2>1
  <2>3. ~(u <= v[1])
    BY <1>2, <2>1, <2>2
  <2>4. h2 = l2 + 1 /\ u <= v[h2]
    BY <1>2, <1>5, <2>3
  <2>5. ~(h2 <= l)
    BY <1>2, <2>1, <2>2, <2>4
  <2>6. QED
    BY <1>2, <1>5, <2>4, <2>5
<1>6. QED
  BY <1>2, <1>3, <1>4, <1>5

\* The grid at a prompt: a column for each ratio, which falls from ratio to ratio.
Column(x, j) ==
  LET xs == bracket(Profile.prompts, x)
  IN  interpolateDuration(Profile.prefill[xs[1]][j], Profile.prefill[xs[2]][j],
                          Profile.prompts[xs[1]], Profile.prompts[xs[2]], x)

LEMMA ProfileFacts ==
  /\ Profile.prompts \in Seq(Nat) /\ Len(Profile.prompts) > 0 /\ Increasing(Profile.prompts)
  /\ Profile.ratios \in Seq(Nat) /\ Len(Profile.ratios) > 0 /\ Increasing(Profile.ratios)
  /\ Profile.prompts[1] \in Nat /\ Profile.prompts[1] > 0
  /\ \A i \in 1..Len(Profile.prompts), j \in 1..Len(Profile.ratios) :
       /\ Profile.prefill[i][j] \in Nat
       /\ \A k \in 1..j : Profile.prefill[i][j] <= Profile.prefill[i][k]
<1>1. /\ Profile.prompts \in Seq(Nat \ {0}) /\ Len(Profile.prompts) > 0 /\ Increasing(Profile.prompts)
      /\ Profile.ratios \in Seq(Nat) /\ Len(Profile.ratios) > 1 /\ Increasing(Profile.ratios)
      /\ \A i \in 1..Len(Profile.prompts), j \in 1..Len(Profile.ratios) :
           /\ Profile.prefill[i][j] \in Nat
           /\ \A k \in 1..j : Profile.prefill[i][j] <= Profile.prefill[i][k]
  BY Zenon, ProfileConstants
<1>2. ASSUME NEW p \in Seq(Nat \ {0}), Len(p) > 0
      PROVE  p \in Seq(Nat) /\ p[1] \in Nat /\ p[1] > 0
  BY <1>2
<1>3. ASSUME NEW p \in Seq(Nat), Len(p) > 1 PROVE Len(p) > 0
  BY <1>3
<1>4. QED
  BY Zenon, <1>1, <1>2, <1>3

LEMMA ColumnFalls ==
  ASSUME NEW x \in Nat, NEW j \in 1..Len(Profile.ratios), NEW k \in 1..Len(Profile.ratios), k <= j
  PROVE  Column(x, j) \in Nat /\ Column(x, j) <= Column(x, k)
<1> DEFINE v == Profile.prompts
<1>1. PICK l, h : l = bracket(v, x)[1] /\ h = bracket(v, x)[2]
  BY Zenon
<1>2. Bracketed(v, x, l, h)
  BY Zenon, <1>1, BracketFacts, ProfileFacts
<1>3. l \in 1..Len(v) /\ h \in 1..Len(v) /\ (l = h \/ (h = l + 1 /\ v[l] < x /\ x <= v[h]))
  BY Zenon, <1>2 DEF Bracketed
<1>4. v[l] \in Nat /\ v[h] \in Nat
  <2>1. ASSUME NEW w \in Seq(Nat), NEW i \in 1..Len(w) PROVE w[i] \in Nat
    OBVIOUS
  <2>2. QED
    BY Zenon, <1>3, <2>1, ProfileFacts
<1>5. k \in 1..j /\ j \in Nat
  OBVIOUS
<1>6. PICK a \in Nat, b \in Nat, a2 \in Nat, b2 \in Nat :
        /\ a = Profile.prefill[l][j] /\ b = Profile.prefill[h][j]
        /\ a2 = Profile.prefill[l][k] /\ b2 = Profile.prefill[h][k] /\ a <= a2 /\ b <= b2
  BY Zenon, <1>3, <1>5, ProfileFacts
<1>7. /\ Column(x, j) = interpolateDuration(a, b, v[l], v[h], x)
      /\ Column(x, k) = interpolateDuration(a2, b2, v[l], v[h], x)
  BY Zenon, <1>1, <1>6 DEF Column
<1>8. CASE l = h
  BY Zenon, <1>6, <1>7, <1>8 DEF interpolateDuration
<1>9. CASE h = l + 1 /\ v[l] < x /\ x <= v[h]
  <2>1. PICK p \in Nat, q \in Nat : p = v[l] /\ q = v[h] /\ p <= x /\ x <= q /\ p < q
    BY <1>4, <1>9
  <2>2. /\ interpolateDuration(a, b, p, q, x) \in Nat
        /\ interpolateDuration(a, b, p, q, x) <= interpolateDuration(a2, b2, p, q, x)
    BY Zenon, <1>6, <2>1, InterpolationGrows
  <2>3. QED
    BY Zenon, <1>7, <2>1, <2>2
<1>10. QED
  BY Zenon, <1>3, <1>8, <1>9

\* What a column's neighbours say of the value between them.
LEMMA SegmentFacts ==
  ASSUME NEW v \in Seq(Nat), NEW t \in Nat, NEW l, NEW h, Bracketed(v, t, l, h),
         NEW a \in Nat, NEW b \in Nat, b <= a, l = h => a = b
  PROVE  interpolateDuration(a, b, v[l], v[h], t) \in b..a
<1>1. l \in 1..Len(v) /\ h \in 1..Len(v) /\ (l = h \/ (h = l + 1 /\ v[l] < t /\ t <= v[h]))
  BY Zenon DEF Bracketed
<1>2. CASE l = h
  <2>1. interpolateDuration(a, b, v[l], v[h], t) = a /\ a = b
    BY Zenon, <1>2 DEF interpolateDuration
  <2>2. QED
    BY <2>1
<1>3. CASE h = l + 1 /\ v[l] < t /\ t <= v[h]
  <2>1. PICK p \in Nat, q \in Nat : p = v[l] /\ q = v[h] /\ p <= t /\ t <= t /\ t <= q /\ p < q
    BY <1>1, <1>3
  <2>2. interpolateDuration(a, b, p, q, t) \in b..a
    BY Zenon, <2>1, InterpolationFalls
  <2>3. QED
    BY Zenon, <2>1, <2>2
<1>4. QED
  BY Zenon, <1>1, <1>2, <1>3

\* More cached tokens never make the prefill estimate longer.
LEMMA GridFalls ==
  ASSUME NEW x \in Nat, NEW y \in Nat, NEW z \in Nat, y <= z
  PROVE  interpolateGrid(x, z) \in Nat /\ interpolateGrid(x, y) \in Nat
         /\ interpolateGrid(x, z) <= interpolateGrid(x, y)
<1> DEFINE v == Profile.ratios
           A(j) == Column(x, j)
           G(l, h, t) == interpolateDuration(A(l), A(h), v[l], v[h], t)
<1>1. PICK l, h, l2, h2 : /\ l = bracket(v, y)[1] /\ h = bracket(v, y)[2]
                          /\ l2 = bracket(v, z)[1] /\ h2 = bracket(v, z)[2]
  BY Zenon
<1>2. Bracketed(v, y, l, h) /\ Bracketed(v, z, l2, h2) /\ v \in Seq(Nat) /\ Increasing(v)
  BY Zenon, <1>1, BracketFacts, ProfileFacts
<1>3. interpolateGrid(x, y) = G(l, h, y) /\ interpolateGrid(x, z) = G(l2, h2, z)
  BY Zenon, <1>1 DEF interpolateGrid, Column
<1>4. /\ l \in 1..Len(v) /\ h \in 1..Len(v) /\ l2 \in 1..Len(v) /\ h2 \in 1..Len(v)
      /\ l = h \/ h = l + 1
      /\ l2 = h2 \/ h2 = l2 + 1
      /\ l # h => v[l] < y /\ y <= v[h]
      /\ l2 # h2 => v[l2] < z /\ z <= v[h2]
  BY Zenon, <1>2 DEF Bracketed
<1>5. l <= h /\ l2 <= h2
  BY <1>2, <1>4
<1>6. PICK a \in Nat, b \in Nat, c \in Nat, d \in Nat :
        a = A(l) /\ b = A(h) /\ c = A(l2) /\ d = A(h2) /\ b <= a /\ d <= c
  <2>1. l <= l /\ l2 <= l2
    BY <1>2, <1>4
  <2>2. A(l) \in Nat /\ A(h) \in Nat /\ A(l2) \in Nat /\ A(h2) \in Nat /\ A(h) <= A(l) /\ A(h2) <= A(l2)
    BY Zenon, <1>4, <1>5, <2>1, ColumnFalls
  <2>3. QED
    BY Zenon, <2>2
<1>7. PICK g \in b..a, g2 \in d..c : g = G(l, h, y) /\ g2 = G(l2, h2, z)
  <2>1. G(l, h, y) \in b..a
    <3>1. l = h => a = b
      BY Zenon, <1>6
    <3>2. interpolateDuration(a, b, v[l], v[h], y) \in b..a
      BY Zenon, <1>2, <1>6, <3>1, SegmentFacts
    <3>3. QED
      BY Zenon, <1>6, <3>2
  <2>2. G(l2, h2, z) \in d..c
    <3>1. l2 = h2 => c = d
      BY Zenon, <1>6
    <3>2. interpolateDuration(c, d, v[l2], v[h2], z) \in d..c
      BY Zenon, <1>2, <1>6, <3>1, SegmentFacts
    <3>3. QED
      BY Zenon, <1>6, <3>2
  <2>3. QED
    BY Zenon, <2>1, <2>2
<1>8. g \in Nat /\ g2 \in Nat
  BY <1>6, <1>7
<1>9. (l = l2 /\ h = h2 /\ (l = h \/ h = l + 1)) \/ h <= l2
  BY Zenon, <1>2, BracketsAdvance
<1>10. CASE h <= l2
  <2>1. c <= b
    BY Zenon, <1>4, <1>6, <1>10, ColumnFalls
  <2>2. g2 <= g
    BY <1>6, <1>7, <2>1
  <2>3. QED
    BY Zenon, <1>3, <1>7, <1>8, <2>2
<1>11. CASE l = l2 /\ h = h2 /\ l = h
  <2>1. g2 <= g
    BY <1>6, <1>7, <1>11
  <2>2. QED
    BY Zenon, <1>3, <1>7, <1>8, <2>1
<1>12. CASE l = l2 /\ h = h2 /\ l # h
  <2>1. PICK p \in Nat, q \in Nat : p = v[l] /\ q = v[h] /\ p <= y /\ z <= q /\ p < q
    BY <1>2, <1>4, <1>12
  <2>2. interpolateDuration(a, b, p, q, z) <= interpolateDuration(a, b, p, q, y)
    BY Zenon, <1>6, <2>1, InterpolationFalls
  <2>3. g = interpolateDuration(a, b, p, q, y) /\ g2 = interpolateDuration(a, b, p, q, z)
    BY Zenon, <1>6, <1>7, <1>12, <2>1
  <2>4. g2 <= g
    BY Zenon, <2>2, <2>3
  <2>5. QED
    BY Zenon, <1>3, <1>7, <1>8, <2>4
<1>13. QED
  BY Zenon, <1>4, <1>9, <1>10, <1>11, <1>12

-----------------------------------------------------------------------------
(* The static TTFT estimator: what it adds up, and the order it keeps.      *)

\* A duration the estimator has added up: exact, unless it overflowed.
Means(total, x) == total.ok => total.d = x

LEMMA TermIsExact ==
  ASSUME NEW v \in 0..Top, NEW c \in Nat, multiplyDuration(v, c).ok
  PROVE  multiplyDuration(v, c).d = c * v /\ c * v \in 0..Top
<1>1. Top \in Nat /\ v \in Nat /\ c * v \in Nat
  BY CostConstants
<1>2. CASE v = 0 \/ c = 0
  <2>1. c * v = 0
    BY <1>1, <1>2
  <2>2. multiplyDuration(v, c) = [ok |-> TRUE, d |-> 0]
    BY Zenon, <1>2 DEF multiplyDuration
  <2>3. QED
    BY <1>1, <2>1, <2>2
<1>3. CASE ~(v = 0 \/ c = 0)
  <2> DEFINE d == Top \div v
  <2>1. v > 0
    BY <1>1, <1>3
  <2>2. d \in Nat /\ d * v <= Top
    BY Zenon, <1>1, <2>1, Division
  <2>3. multiplyDuration(v, c) = IF c > d THEN [ok |-> FALSE, d |-> 0] ELSE [ok |-> TRUE, d |-> Wrap(v * c)]
    BY Zenon, <1>3 DEF multiplyDuration
  <2> HIDE DEF d
  <2>4. ~(c > d) /\ multiplyDuration(v, c).d = Wrap(v * c)
    BY <2>3
  <2>5. c <= d
    BY <2>2, <2>4
  <2>6. d * v \in Nat /\ c * v <= d * v
    BY Zenon, <1>1, <2>2, <2>5, Products
  <2>7. c * v \in 0..Top
    BY <1>1, <2>2, <2>6
  <2>8. v * c = c * v
    BY <1>1
  <2>9. QED
    BY Zenon, <2>4, <2>7, <2>8, WrapIsExact
<1>4. QED
  BY Zenon, <1>2, <1>3

LEMMA SumIsExact ==
  ASSUME NEW l \in Nat, NEW r \in 0..Top PROVE Means(addDuration(l, r), l + r)
<1>1. Top \in Nat
  BY CostConstants
<1>2. Top - r \in 0..Top
  BY <1>1
<1>3. addDuration(l, r) = IF l > Top - r THEN [ok |-> FALSE, d |-> 0] ELSE [ok |-> TRUE, d |-> Wrap(l + r)]
  BY Zenon, <1>2, WrapIsExact DEF addDuration
<1>4. CASE l > Top - r
  BY <1>3, <1>4 DEF Means
<1>5. CASE ~(l > Top - r)
  <2>1. l + r \in 0..Top
    BY <1>1, <1>5
  <2>2. Wrap(l + r) = l + r
    BY Zenon, <2>1, WrapIsExact
  <2>3. QED
    BY <1>3, <1>5, <2>2 DEF Means
<1>6. QED
  BY Zenon, <1>4, <1>5

LEMMA PlusIsExact ==
  ASSUME NEW total, NEW x \in Nat, Means(total, x), NEW v \in 0..Top, NEW c \in Nat
  PROVE  x + c * v \in Nat /\ Means(Plus(total, multiplyDuration(v, c)), x + c * v)
<1> DEFINE m == multiplyDuration(v, c)
<1>1. x + c * v \in Nat
  BY CostConstants
<1>2. CASE total.ok /\ m.ok
  <2>1. total.d = x /\ m.d = c * v /\ c * v \in 0..Top
    BY Zenon, <1>2, TermIsExact DEF Means
  <2>2. Means(addDuration(x, c * v), x + c * v)
    BY Zenon, <2>1, SumIsExact
  <2>3. QED
    BY Zenon, <1>1, <1>2, <2>1, <2>2 DEF Plus
<1>3. CASE ~(total.ok /\ m.ok)
  <2>1. Plus(total, m) = [ok |-> FALSE, d |-> 0]
    BY Zenon, <1>3 DEF Plus
  <2> HIDE DEF m
  <2>2. ~Plus(total, m).ok
    BY <2>1
  <2>3. QED
    BY Zenon, <1>1, <2>2 DEF Means, m
<1>4. QED
  BY Zenon, <1>2, <1>3

\* The time a valid estimate gives, without overflow.
Prefill(p, c) == interpolateGrid(p, (c * cacheRatioBasisPoints) \div p)
ExactTTFT(p, c, load, n) ==
  IF load.valid THEN Prefill(p, c) + Profile.margin + load.queue * Profile.queueWait
                     + load.running * Profile.runningDelay + load.delta * Profile.deltaDelay
  ELSE Prefill(p, c) + Profile.margin + n * Profile.localDelay

LEMMA Coefficients ==
  /\ Profile.margin \in 0..Top /\ Profile.queueWait \in 0..Top /\ Profile.runningDelay \in 0..Top
  /\ Profile.deltaDelay \in 0..Top /\ Profile.localDelay \in 0..Top
  BY Zenon, ProfileConstants

\* The prefill of a prompt falls as more of it is cached.
LEMMA PrefillFalls ==
  ASSUME NEW p \in Nat, p > 0, NEW c \in Nat, NEW d \in Nat, d <= c
  PROVE  Prefill(p, c) \in Nat /\ Prefill(p, d) \in Nat /\ Prefill(p, c) <= Prefill(p, d)
<1>1. /\ c * cacheRatioBasisPoints \in Nat /\ d * cacheRatioBasisPoints \in Nat
      /\ d * cacheRatioBasisPoints <= c * cacheRatioBasisPoints
  BY DEF cacheRatioBasisPoints
<1>2. PICK y \in Nat, z \in Nat : /\ y = (d * cacheRatioBasisPoints) \div p
                                  /\ z = (c * cacheRatioBasisPoints) \div p /\ y <= z
  BY Zenon, <1>1, DivisionGrows
<1>3. QED
  BY Zenon, <1>2, GridFalls DEF Prefill

IsExact(e, p, c, load, n) == p > 0 /\ c \in 0..p /\ e.ttft = ExactTTFT(p, c, load, n)

LEMMA EstimateIsExact ==
  ASSUME NEW p \in Nat, NEW c, NEW load, load.queue \in Nat, load.running \in Nat, load.delta \in Nat,
         NEW n \in Nat, Estimate(p, c, load, n).valid
  PROVE  IsExact(Estimate(p, c, load, n), p, c, load, n)
<1> DEFINE prefill == Prefill(p, c)
           base == addDuration(prefill, Profile.margin)
           q == Plus(base, multiplyDuration(Profile.queueWait, load.queue))
           r == Plus(q, multiplyDuration(Profile.runningDelay, load.running))
           d == Plus(r, multiplyDuration(Profile.deltaDelay, load.delta))
           l == Plus(base, multiplyDuration(Profile.localDelay, n))
           total == IF load.valid THEN d ELSE l
           inRange == /\ p \in Profile.prompts[1]..Profile.prompts[Len(Profile.prompts)]
                      /\ c \in 0..p /\ ~outsideLoadBounds(load, n)
           conf == IF ~Profile.calibrated THEN "uncalibrated"
                   ELSE IF load.valid THEN "calibrated" ELSE "degraded"
<1>1. Estimate(p, c, load, n) = IF inRange /\ total.ok /\ total.d > 0
                                THEN [valid |-> TRUE, ttft |-> total.d, confidence |-> conf]
                                ELSE [valid |-> FALSE, ttft |-> 0, confidence |-> "none"]
  BY Zenon DEF Estimate, Prefill
<1>2. inRange /\ total.ok /\ Estimate(p, c, load, n).ttft = total.d
  <2> HIDE DEF inRange, total, conf
  <2>1. QED
    BY <1>1
<1>3. p > 0 /\ c \in 0..p
  <2>1. /\ p \in Profile.prompts[1]..Profile.prompts[Len(Profile.prompts)] /\ c \in 0..p
        /\ Profile.prompts[1] \in Nat /\ Profile.prompts[1] > 0
        /\ Profile.prompts[Len(Profile.prompts)] \in Nat
    <3>1. ASSUME NEW w \in Seq(Nat), Len(w) > 0 PROVE w[Len(w)] \in Nat
      BY <3>1
    <3>2. QED
      BY Zenon, <1>2, <3>1, ProfileFacts
  <2>2. QED
    BY <2>1
<1>4. prefill \in Nat
  <2>1. c \in Nat /\ c <= c
    BY <1>3
  <2>2. QED
    BY Zenon, <1>3, <2>1, PrefillFalls
<1> HIDE DEF prefill
<1>5. /\ prefill + Profile.margin \in Nat
      /\ Means(base, prefill + Profile.margin)
  <2>1. Means(base, prefill + Profile.margin)
    BY Zenon, <1>4, Coefficients, SumIsExact
  <2>2. prefill + Profile.margin \in Nat
    BY <1>4, Coefficients, CostConstants
  <2>3. QED
    BY Zenon, <2>1, <2>2
<1>6. CASE load.valid
  <2> DEFINE x == prefill + Profile.margin + load.queue * Profile.queueWait
             y == x + load.running * Profile.runningDelay
  <2>1. x \in Nat /\ Means(q, x)
    BY Zenon, <1>5, Coefficients, PlusIsExact
  <2>2. y \in Nat /\ Means(r, y)
    BY Zenon, <2>1, Coefficients, PlusIsExact
  <2>3. Means(d, y + load.delta * Profile.deltaDelay)
    BY Zenon, <2>2, Coefficients, PlusIsExact
  <2>4. total = d /\ ExactTTFT(p, c, load, n) = y + load.delta * Profile.deltaDelay
    BY Zenon, <1>6 DEF ExactTTFT, prefill
  <2>5. QED
    BY Zenon, <1>2, <1>3, <2>3, <2>4 DEF Means, IsExact
<1>7. CASE ~load.valid
  <2>1. Means(l, prefill + Profile.margin + n * Profile.localDelay)
    BY Zenon, <1>5, Coefficients, PlusIsExact
  <2>2. total = l /\ ExactTTFT(p, c, load, n) = prefill + Profile.margin + n * Profile.localDelay
    BY Zenon, <1>7 DEF ExactTTFT, prefill
  <2>3. QED
    BY Zenon, <1>2, <1>3, <2>1, <2>2 DEF Means, IsExact
<1>8. QED
  BY Zenon, <1>6, <1>7

\* More of the prompt cached and no more load: not a longer time.
LEMMA TTFTFalls ==
  ASSUME NEW p \in Nat, p > 0, NEW c \in Nat, NEW d \in Nat, d <= c, NEW n \in Nat, NEW m \in Nat, n <= m,
         NEW x, x.queue \in Nat, x.running \in Nat, x.delta \in Nat,
         NEW y, y.queue \in Nat, y.running \in Nat, y.delta \in Nat,
         x.queue <= y.queue, x.running <= y.running, x.delta <= y.delta, x.valid = y.valid
  PROVE  ExactTTFT(p, c, x, n) <= ExactTTFT(p, d, y, m)
<1>1. PICK f \in Nat, g \in Nat : f = Prefill(p, c) /\ g = Prefill(p, d) /\ f <= g
  BY Zenon, PrefillFalls
<1>2. PICK margin \in Nat, a \in Nat, b \in Nat, e \in Nat, l \in Nat :
        /\ margin = Profile.margin /\ a = Profile.queueWait /\ b = Profile.runningDelay
        /\ e = Profile.deltaDelay /\ l = Profile.localDelay
  <2>1. ASSUME NEW k \in 0..Top PROVE k \in Nat
    BY CostConstants
  <2>2. QED
    BY Zenon, <2>1, Coefficients
<1>3. CASE x.valid
  <2>1. PICK q1 \in Nat, q2 \in Nat : q1 = x.queue * a /\ q2 = y.queue * a /\ q1 <= q2
    <3>1. x.queue * a \in Nat /\ y.queue * a \in Nat /\ x.queue * a <= y.queue * a
      BY Zenon, Products
    <3>2. QED
      BY Zenon, <3>1
  <2>2. PICK r1 \in Nat, r2 \in Nat : r1 = x.running * b /\ r2 = y.running * b /\ r1 <= r2
    <3>1. x.running * b \in Nat /\ y.running * b \in Nat /\ x.running * b <= y.running * b
      BY Zenon, Products
    <3>2. QED
      BY Zenon, <3>1
  <2>3. PICK d1 \in Nat, d2 \in Nat : d1 = x.delta * e /\ d2 = y.delta * e /\ d1 <= d2
    <3>1. x.delta * e \in Nat /\ y.delta * e \in Nat /\ x.delta * e <= y.delta * e
      BY Zenon, Products
    <3>2. QED
      BY Zenon, <3>1
  <2>4. /\ ExactTTFT(p, c, x, n) = f + margin + q1 + r1 + d1
        /\ ExactTTFT(p, d, y, m) = g + margin + q2 + r2 + d2
    BY Zenon, <1>1, <1>2, <1>3, <2>1, <2>2, <2>3 DEF ExactTTFT
  <2>5. f + margin + q1 + r1 + d1 <= g + margin + q2 + r2 + d2
    BY <1>1, <2>1, <2>2, <2>3
  <2>6. QED
    BY Zenon, <2>4, <2>5
<1>4. CASE ~x.valid
  <2>1. PICK l1 \in Nat, l2 \in Nat : l1 = n * l /\ l2 = m * l /\ l1 <= l2
    <3>1. n * l \in Nat /\ m * l \in Nat /\ n * l <= m * l
      BY Zenon, Products
    <3>2. QED
      BY Zenon, <3>1
  <2>2. /\ ExactTTFT(p, c, x, n) = f + margin + l1 /\ ExactTTFT(p, d, y, m) = g + margin + l2
    BY Zenon, <1>1, <1>2, <1>4, <2>1 DEF ExactTTFT
  <2>3. f + margin + l1 <= g + margin + l2
    BY <1>1, <2>1
  <2>4. QED
    BY Zenon, <2>2, <2>3
<1>5. QED
  BY Zenon, <1>3, <1>4

\* Where the estimates of a snapshot come from.
Estimated(s) ==
  /\ DOMAIN s.estimates \subseteq Range(s.order)
  /\ \A b \in DOMAIN s.estimates :
       s.estimates[b] = Estimate(s.kv.prompt, CachedTokens(s.kv, b), s.loads[b], s.inflight[b])

\* EstimatesAreMonotone, of any snapshot.
Monotone(s) ==
  \A b, c \in DOMAIN s.estimates :
    LET x == s.estimates[b]
        y == s.estimates[c]
        p == s.loads[b]
        q == s.loads[c]
    IN  /\ x.valid /\ y.valid /\ p.valid = q.valid
        /\ CachedTokens(s.kv, b) >= CachedTokens(s.kv, c)
        /\ p.queue <= q.queue /\ p.running <= q.running /\ p.delta <= q.delta
        /\ s.inflight[b] <= s.inflight[c]
        => x.ttft <= y.ttft

LEMMA EstimatedIsMonotone == ASSUME NEW s, Numbers(s), Estimated(s) PROVE Monotone(s)
<1> SUFFICES ASSUME NEW b \in DOMAIN s.estimates, NEW c \in DOMAIN s.estimates,
                    s.estimates[b].valid, s.estimates[c].valid, s.loads[b].valid = s.loads[c].valid,
                    CachedTokens(s.kv, b) >= CachedTokens(s.kv, c),
                    s.loads[b].queue <= s.loads[c].queue, s.loads[b].running <= s.loads[c].running,
                    s.loads[b].delta <= s.loads[c].delta, s.inflight[b] <= s.inflight[c]
             PROVE  s.estimates[b].ttft <= s.estimates[c].ttft
  BY Zenon DEF Monotone
<1>1. PICK p : p = s.kv.prompt
  BY Zenon
<1>2. PICK i, j : i = CachedTokens(s.kv, b) /\ j = CachedTokens(s.kv, c)
  BY Zenon
<1>3. p \in Nat
  <2>1. p \in 0..Top /\ Top \in Nat
    BY Zenon, <1>1, CostConstants DEF Numbers
  <2>2. QED
    BY <2>1
<1>4. /\ s.loads[b].queue \in Nat /\ s.loads[b].running \in Nat /\ s.loads[b].delta \in Nat /\ s.inflight[b] \in Nat
      /\ s.loads[c].queue \in Nat /\ s.loads[c].running \in Nat /\ s.loads[c].delta \in Nat /\ s.inflight[c] \in Nat
  BY Zenon DEF Numbers, Estimated
<1>5. /\ s.estimates[b] = Estimate(p, i, s.loads[b], s.inflight[b])
      /\ s.estimates[c] = Estimate(p, j, s.loads[c], s.inflight[c])
  BY Zenon, <1>1, <1>2 DEF Estimated
<1>6. p > 0 /\ i \in 0..p /\ s.estimates[b].ttft = ExactTTFT(p, i, s.loads[b], s.inflight[b])
  <2>1. Estimate(p, i, s.loads[b], s.inflight[b]).valid
    BY Zenon, <1>5
  <2>2. IsExact(Estimate(p, i, s.loads[b], s.inflight[b]), p, i, s.loads[b], s.inflight[b])
    BY Zenon, <1>3, <1>4, <2>1, EstimateIsExact
  <2>3. QED
    BY Zenon, <1>5, <2>2 DEF IsExact
<1>7. j \in 0..p /\ s.estimates[c].ttft = ExactTTFT(p, j, s.loads[c], s.inflight[c])
  <2>1. Estimate(p, j, s.loads[c], s.inflight[c]).valid
    BY Zenon, <1>5
  <2>2. IsExact(Estimate(p, j, s.loads[c], s.inflight[c]), p, j, s.loads[c], s.inflight[c])
    BY Zenon, <1>3, <1>4, <2>1, EstimateIsExact
  <2>3. QED
    BY Zenon, <1>5, <2>2 DEF IsExact
<1>8. i \in Nat /\ j \in Nat /\ j <= i
  <2>1. i >= j
    BY Zenon, <1>2
  <2>2. QED
    BY <1>3, <1>6, <1>7, <2>1
<1>9. ExactTTFT(p, i, s.loads[b], s.inflight[b]) <= ExactTTFT(p, j, s.loads[c], s.inflight[c])
  BY Zenon, <1>3, <1>4, <1>6, <1>8, TTFTFalls
<1>10. QED
  BY Zenon, <1>6, <1>7, <1>9

\* buildSnapshot estimates with the load, the matches and the prompt it returns.
LEMMA CompletedIsEstimated ==
  ASSUME order \in Orders, NEW s \in Snapshots PROVE Estimated(Completed(s))
<1>1. PICK open \in SUBSET Range(order), fresh \in BOOLEAN, inflight \in [Range(order) -> Inflights],
           cases \in [Range(order) -> ObsCases] : s = Snapshot(open, fresh, inflight, cases)
  BY DEF Snapshots
<1> DEFINE loads == routingLoads(s.order, s.obs, s.inflight)
           loaded == [s EXCEPT !.loads = loads]
           estimates == staticLatencyEstimates(loaded)
           estimated == [loaded EXCEPT !.estimates = estimates]
<1>2. Completed(s) = IF kvStatus = "available" /\ mode[2] = "static" THEN estimated ELSE loaded
  BY Zenon DEF Completed
<1>3. /\ loaded.order = order /\ loaded.estimates = <<>>
      /\ estimated.order = order /\ estimated.kv = loaded.kv /\ estimated.loads = loaded.loads
      /\ estimated.inflight = loaded.inflight /\ estimated.estimates = estimates
  <2> HIDE DEF loads
  <2> DEFINE seen == [b \in {c \in Range(order) : cases[c].seen} |-> cases[b]]
  <2>1. s = [order |-> order, open |-> open, fresh |-> fresh, inflight |-> inflight, obs |-> seen,
             loads |-> <<>>, kv |-> kv, estimates |-> <<>>]
    BY Zenon, <1>1 DEF Snapshot
  <2> HIDE DEF seen
  <2>2. loaded = [order |-> order, open |-> open, fresh |-> fresh, inflight |-> inflight, obs |-> seen,
                  loads |-> loads, kv |-> kv, estimates |-> <<>>]
    BY <2>1
  <2> HIDE DEF loaded, estimates
  <2>3. QED
    BY <2>2
<1> HIDE DEF loaded, estimated
<1>4. Estimated(loaded)
  <2>1. DOMAIN << >> = {}
    OBVIOUS
  <2>2. DOMAIN loaded.estimates = {}
    BY Zenon, <1>3, <2>1
  <2>3. QED
    BY Zenon, <2>2 DEF Estimated
<1>5. Estimated(estimated)
  <2>1. order \in Seq(Backends)
    BY Zenon, OrderFacts
  <2>2. Candidates(loaded) \subseteq Range(order)
    BY Zenon, <1>3, <2>1, EligibleFacts
  <2>3. estimates = [b \in Candidates(loaded) |->
                       Estimate(loaded.kv.prompt, CachedTokens(loaded.kv, b), loaded.loads[b], loaded.inflight[b])]
    BY Zenon DEF staticLatencyEstimates, Candidates
  <2> HIDE DEF estimates
  <2>4. QED
    BY Zenon, <1>3, <2>2, <2>3 DEF Estimated
<1>6. QED
  BY Zenon, <1>2, <1>4, <1>5

LEMMA MonotoneNext ==
  ASSUME DInv, EstimatesAreMonotone, [Next]_vars PROVE EstimatesAreMonotone'
<1>1. EstimatesAreMonotone <=> Monotone(snap)
  BY Zenon DEF EstimatesAreMonotone, Monotone
<1>2. EstimatesAreMonotone' <=> Monotone(snap')
  BY Zenon DEF EstimatesAreMonotone, Monotone
<1>3. snap' = snap \/ snap' = NoSnap \/ \E s \in Snapshots : snap' = Completed(s)
  BY ZenonT(120) DEF Next, vars, Begin, OtherReconcile, BuildKVAwareInput, Decide, SessionBegin, Remember,
                    SessionDecide, Finish, Tick
<1>4. CASE snap' = snap
  BY Zenon, <1>1, <1>2, <1>4
<1>5. CASE snap' = NoSnap
  <2>1. DOMAIN NoSnap.estimates = {}
    BY DEF NoSnap
  <2>2. QED
    BY Zenon, <1>2, <1>5, <2>1 DEF Monotone
<1>6. CASE \E s \in Snapshots : snap' = Completed(s)
  <2>1. PICK s \in Snapshots : snap' = Completed(s)
    BY Zenon, <1>6
  <2>2. order \in Orders /\ kv.prompt \in 0..Top
    BY Zenon DEF DInv, Typed, TypeOK
  <2>3. Numbers(Completed(s)) /\ Estimated(Completed(s))
    BY Zenon, <2>2, SnapFacts, CompletedIsEstimated
  <2>4. QED
    BY Zenon, <1>2, <2>1, <2>3, EstimatedIsMonotone
<1>7. QED
  BY Zenon, <1>3, <1>4, <1>5, <1>6

\* The static estimator never ranks a backend behind one that has fewer cached
\* tokens and more load: in the snapshot every Select decides from, for every
\* validated profile (any grid that does not grow with the cached ratio) whose
\* durations and breakpoints are within float64's precision (PrecisionConstants),
\* however float64 arithmetic rounds the ties of an interpolation.
THEOREM EstimatesKeepTheOrder == Spec => []EstimatesAreMonotone
<1>1. Init => EstimatesAreMonotone
  <2>1. DOMAIN NoSnap.estimates = {}
    BY DEF NoSnap
  <2>2. QED
    BY Zenon, <2>1 DEF Init, EstimatesAreMonotone
<1>2. DInv /\ EstimatesAreMonotone /\ [Next]_vars => EstimatesAreMonotone'
  BY Zenon, MonotoneNext
<1>3. QED
  BY <1>1, <1>2, DInvariance, PTL DEF Spec
=============================================================================
