------------------------- MODULE CapLifecycleProofs -------------------------
(***************************************************************************)
(* Proofs about CapLifecycle, for every finite set of messages and every   *)
(* feed.  The graph: the search from a message finds the least set that it *)
(* does not leave, so that two searches find the same set or nothing in    *)
(* common, and a further message only joins what it links.  The table: a   *)
(* rebuild of one component leaves every row as the graph of all stored    *)
(* messages says (RebuiltAll), also the rows it does not write; that is    *)
(* the inductive invariant, with the queue rows' agreement with the table  *)
(* and the statuses' agreement with the messages.  The unique key of the   *)
(* queue has the identity and revision of an alert, which a rebuild        *)
(* changes, and not the alert: that it still keeps a second row out is so  *)
(* because every row was rekeyed with its alert first.                     *)
(***************************************************************************)
EXTENDS CapLifecycle, FiniteSetTheorems, TLAPS

---------------------------------------------------------------------------
(* The search. *)

\* What the lemmas need to know of the feed.
Typed == feed \in [Messages -> Published]

\* The search from m finds m and whatever is linked to what it finds.
LEMMA ComponentClosed ==
  ASSUME NEW S, NEW m \in Messages
  PROVE  /\ m \in Component(S, m)
         /\ Component(S, m) \in SUBSET Messages
         /\ Closed(S, Component(S, m))
<1>1. m \in Component(S, m) /\ Component(S, m) \in SUBSET Messages
  BY DEF Component
<1>2. ASSUME NEW a \in Component(S, m), NEW b \in Messages, Linked(S, a, b)
      PROVE  b \in Component(S, m)
  BY <1>2 DEF Component, Closed
<1>3. QED
  BY <1>1, <1>2 DEF Closed

\* It finds no more than any set that it would not leave.
LEMMA ComponentLeast ==
  ASSUME NEW S, NEW m \in Messages, NEW C \in SUBSET Messages, m \in C, Closed(S, C)
  PROVE  Component(S, m) \subseteq C
BY DEF Component

\* The search finds the same from wherever it starts.
LEMMA ComponentSame ==
  ASSUME NEW S, NEW m \in Messages, NEW a \in Component(S, m)
  PROVE  Component(S, a) = Component(S, m)
<1> DEFINE K == Component(S, m)
           L == Component(S, a)
<1>1. K \in SUBSET Messages /\ Closed(S, K) /\ m \in K
  BY ComponentClosed
<1>2. a \in Messages /\ a \in K
  BY <1>1
<1>3. L \in SUBSET Messages /\ Closed(S, L) /\ a \in L
  BY <1>2, ComponentClosed
<1>4. L \subseteq K
  BY <1>1, <1>2, ComponentLeast
<1>5. Closed(S, K \ L)
  <2> HIDE DEF K, L
  <2> QED BY <1>1, <1>3 DEF Closed, Linked
<1>6. m \in L
  <2> SUFFICES ASSUME m \notin L PROVE FALSE
    OBVIOUS
  <2>1. m \in K \ L /\ K \ L \in SUBSET Messages
    BY <1>1
  <2>2. K \subseteq K \ L
    BY <2>1, <1>5, ComponentLeast
  <2>3. QED
    BY <2>2, <1>2, <1>3
<1>7. K \subseteq L
  BY <1>3, <1>6, ComponentLeast
<1>8. QED
  BY <1>4, <1>7

\* A further message only adds links.
LEMMA ComponentGrows ==
  ASSUME NEW S, NEW T, S \subseteq T, NEW m \in Messages
  PROVE  Component(S, m) \subseteq Component(T, m)
<1>1. Component(T, m) \in SUBSET Messages /\ Closed(T, Component(T, m)) /\ m \in Component(T, m)
  BY ComponentClosed
<1>2. Closed(S, Component(T, m))
  <2> DEFINE K == Component(T, m)
  <2> HIDE DEF K
  <2> SUFFICES Closed(T, K) => Closed(S, K)
    BY <1>1 DEF K
  <2> QED BY DEF Closed, Linked
<1>3. QED
  BY <1>1, <1>2, ComponentLeast

\* Components that do not have the further message stay as they are.
LEMMA ComponentApart ==
  ASSUME NEW S, NEW m \in Messages, NEW a \in Messages, a \notin Component(S \cup {m}, m)
  PROVE  Component(S \cup {m}, a) = Component(S, a) /\ m \notin Component(S, a)
<1> DEFINE T == S \cup {m}
           K == Component(S, a)
           L == Component(T, m)
<1>1. /\ K \in SUBSET Messages /\ Closed(S, K) /\ a \in K
      /\ L \in SUBSET Messages /\ Closed(T, L) /\ m \in L
  BY ComponentClosed
<1>2. K \subseteq Component(T, a)
  BY ComponentGrows
<1>3. K \cap L = {}
  <2> SUFFICES ASSUME NEW x \in K \cap L PROVE FALSE
    OBVIOUS
  <2>1. Component(T, x) = L
    BY ComponentSame
  <2>2. Component(T, x) = Component(T, a)
    BY <1>2, ComponentSame
  <2>3. a \in Component(T, a)
    BY ComponentClosed
  <2>4. QED
    BY <2>1, <2>2, <2>3
<1>4. Closed(T, K)
  <2> HIDE DEF K, L
  <2> SUFFICES ASSUME NEW x \in K, NEW b \in Messages, Linked(T, x, b) PROVE b \in K
    BY DEF Closed
  <2>1. CASE Linked(S, x, b)
    BY <2>1, <1>1 DEF Closed
  <2>2. CASE x = m
    BY <2>2, <1>1, <1>3
  <2>3. CASE b = m /\ x \in feed[m].refs
    <3>1. Linked(T, m, x)
      BY <2>3 DEF Linked
    <3>2. x \in L
      BY <3>1, <1>1 DEF Closed
    <3>3. QED
      BY <3>2, <1>3
  <2>4. QED
    BY <2>1, <2>2, <2>3 DEF Linked
<1>5. Component(T, a) \subseteq K
  BY <1>1, <1>4, ComponentLeast
<1>6. QED
  BY <1>1, <1>2, <1>3, <1>5

---------------------------------------------------------------------------
(* The order. *)

\* (sent_at, identity) is a strict total order of the messages.
LEMMA BeforeOrders ==
  ASSUME Typed, NEW a \in Messages, NEW b \in Messages, NEW c \in Messages
  PROVE  /\ ~Before(a, a)
         /\ Before(a, b) => ~Before(b, a)
         /\ a = b \/ Before(a, b) \/ Before(b, a)
         /\ Before(a, b) /\ Before(b, c) => Before(a, c)
<1>1. feed[a].sent \in Nat /\ feed[b].sent \in Nat /\ feed[c].sent \in Nat
  BY DEF Typed, Published
<1>2. a \in Nat /\ b \in Nat /\ c \in Nat
  BY FeedsAssumption
<1>3. QED
  BY <1>1, <1>2 DEF Before

\* Any messages have a first one.
LEMMA First ==
  ASSUME Typed, NEW T \in SUBSET Messages, T # {}
  PROVE  \E a \in T : \A b \in T \ {a} : Before(a, b)
<1> DEFINE older(a) == {b \in T : Before(b, a)}
           Family == {older(a) : a \in T}
<1>1. IsWellFoundedOn(StrictSubsetOrdering(Messages), FiniteSubsetsOf(Messages))
  BY FS_StrictSubsetOrderingWellFounded
<1>2. Family \subseteq FiniteSubsetsOf(Messages) /\ Family # {}
  <2>1. \A a \in T : older(a) \in SUBSET Messages /\ IsFiniteSet(older(a))
    BY FeedsAssumption, FS_Subset
  <2>2. QED
    BY <2>1 DEF FiniteSubsetsOf
<1>3. PICK X \in Family : \A Y \in Family : ~ (<<Y, X>> \in StrictSubsetOrdering(Messages))
  <2> HIDE DEF Family
  <2> QED BY <1>1, <1>2, WFMin
<1>4. PICK a \in T : X = older(a)
  OBVIOUS
<1>5. ASSUME NEW b \in older(a) PROVE FALSE
  <2>1. older(b) \subseteq older(a) /\ b \notin older(b)
    BY BeforeOrders
  <2>2. older(b) # older(a) /\ older(b) \in Family
    BY <2>1
  <2>3. <<older(b), older(a)>> \in StrictSubsetOrdering(Messages)
    BY <2>1, <2>2 DEF StrictSubsetOrdering
  <2>4. QED
    BY <2>2, <2>3, <1>3, <1>4
<1>6. \A b \in T \ {a} : Before(a, b)
  BY <1>5, BeforeOrders
<1>7. QED
  BY <1>6

\* Any messages have a last one.
LEMMA Last ==
  ASSUME Typed, NEW T \in SUBSET Messages, T # {}
  PROVE  \E a \in T : \A b \in T \ {a} : Before(b, a)
<1> DEFINE newer(a) == {b \in T : Before(a, b)}
           Family == {newer(a) : a \in T}
<1>1. IsWellFoundedOn(StrictSubsetOrdering(Messages), FiniteSubsetsOf(Messages))
  BY FS_StrictSubsetOrderingWellFounded
<1>2. Family \subseteq FiniteSubsetsOf(Messages) /\ Family # {}
  <2>1. \A a \in T : newer(a) \in SUBSET Messages /\ IsFiniteSet(newer(a))
    BY FeedsAssumption, FS_Subset
  <2>2. QED
    BY <2>1 DEF FiniteSubsetsOf
<1>3. PICK X \in Family : \A Y \in Family : ~ (<<Y, X>> \in StrictSubsetOrdering(Messages))
  <2> HIDE DEF Family
  <2> QED BY <1>1, <1>2, WFMin
<1>4. PICK a \in T : X = newer(a)
  OBVIOUS
<1>5. ASSUME NEW b \in newer(a) PROVE FALSE
  <2>1. newer(b) \subseteq newer(a) /\ b \notin newer(b)
    BY BeforeOrders
  <2>2. newer(b) # newer(a) /\ newer(b) \in Family
    BY <2>1
  <2>3. <<newer(b), newer(a)>> \in StrictSubsetOrdering(Messages)
    BY <2>1, <2>2 DEF StrictSubsetOrdering
  <2>4. QED
    BY <2>2, <2>3, <1>3, <1>4
<1>6. \A b \in T \ {a} : Before(b, a)
  BY <1>5, BeforeOrders
<1>7. QED
  BY <1>6

---------------------------------------------------------------------------
(* The table. *)

\* The stored alerts of the component of a, those sent before it, and the
\* last of some messages.
Members(S, a) == Component(S, a) \cap S
Older(S, a) == {b \in Members(S, a) : Before(b, a)}
LastOf(T) == CHOOSE b \in T : \A c \in T \ {b} : Before(c, b)

\* The row of a is what the graph of the stored messages S says.
IsRebuilt(R, S, a) ==
  /\ R[a].key = Canonical(S, Component(S, a))
  /\ R[a].rev = Cardinality(Older(S, a)) + 1
  /\ R[a].prev = IF Older(S, a) = {} THEN NoMessage ELSE LastOf(Older(S, a))
  /\ R[a].current = (Older(S, a) = Members(S, a) \ {a})

\* The alerts of a component can be counted.
LEMMA OlderIsFinite ==
  ASSUME NEW S \in SUBSET Messages, NEW a \in Messages
  PROVE  /\ Members(S, a) \in SUBSET Messages /\ Older(S, a) \in SUBSET Messages
         /\ IsFiniteSet(Members(S, a)) /\ IsFiniteSet(Older(S, a))
         /\ Cardinality(Members(S, a)) \in Nat /\ Cardinality(Older(S, a)) \in Nat
<1>1. Members(S, a) \in SUBSET Messages /\ Older(S, a) \in SUBSET Messages
  BY DEF Members, Older
<1>2. IsFiniteSet(Members(S, a)) /\ IsFiniteSet(Older(S, a))
  BY <1>1, FeedsAssumption, FS_Subset
<1>3. QED
  BY <1>1, <1>2, FS_CardinalityType

\* The last one of any messages is one of them, after all others.
LEMMA LastOfIs ==
  ASSUME Typed, NEW T \in SUBSET Messages, T # {}
  PROVE  LastOf(T) \in T /\ \A c \in T \ {LastOf(T)} : Before(c, LastOf(T))
BY Last DEF LastOf

\* The identity of a component is one of its members.
LEMMA CanonicalIs ==
  ASSUME Typed, NEW S, NEW C \in SUBSET Messages, C # {}
  PROVE  Canonical(S, C) \in C
<1> DEFINE Roots == {a \in C : a \notin S \/ feed[a].refs = {}}
           Candidates == IF Roots # {} THEN Roots ELSE C
<1>1. Candidates \in SUBSET C /\ Candidates # {}
  OBVIOUS
<1>2. Canonical(S, C) = CHOOSE a \in Candidates : \A b \in Candidates \ {a} : Before(a, b)
  BY DEF Canonical
<1> HIDE DEF Candidates
<1>3. \E a \in Candidates : \A b \in Candidates \ {a} : Before(a, b)
  BY <1>1, First
<1>4. QED
  BY <1>1, <1>2, <1>3

\* A message that is not of the component does not matter to its identity.
LEMMA CanonicalStays ==
  ASSUME NEW S, NEW m, NEW C, m \notin C
  PROVE  Canonical(S \cup {m}, C) = Canonical(S, C)
<1>1. {a \in C : a \notin S \cup {m} \/ feed[a].refs = {}} = {a \in C : a \notin S \/ feed[a].refs = {}}
  OBVIOUS
<1>2. QED
  BY <1>1 DEF Canonical

\* A rebuild leaves every row as the graph says, also those it does not touch.
LEMMA RebuiltAll ==
  ASSUME Typed, Stored \subseteq Messages, NEW m \in Messages,
         \A a \in Stored : IsRebuilt(rows, Stored, a),
         NEW a \in Stored \cup {m}
  PROVE  IsRebuilt(Reconciled(Stored \cup {m}, m), Stored \cup {m}, a)
<1> DEFINE S == Stored \cup {m}
           C == Component(S, m)
           R == Reconciled(S, m)
           members == C \cap S
           older == {b \in members : Before(b, a)}
<1>1. CASE a \in Stored \ members
  <2>1. R[a] = rows[a]
    BY <1>1 DEF Reconciled
  <2>2. a \notin C /\ a \in Messages
    BY <1>1
  <2>3. Component(S, a) = Component(Stored, a) /\ m \notin Component(Stored, a)
    BY <2>2, ComponentApart
  <2>4. Canonical(S, Component(S, a)) = Canonical(Stored, Component(Stored, a))
    BY <2>3, CanonicalStays
  <2>5. Members(S, a) = Members(Stored, a)
    BY <2>3 DEF Members
  <2>6. Older(S, a) = Older(Stored, a)
    BY <2>5 DEF Older
  <2>7. IsRebuilt(rows, Stored, a)
    BY <1>1
  <2> HIDE DEF R, S
  <2>8. QED
    BY <2>1, <2>4, <2>5, <2>6, <2>7 DEF IsRebuilt, R, S
<1>2. CASE a \notin Stored \ members
  <2>1. a \in C
    BY <1>2, ComponentClosed
  <2>2. Component(S, a) = C
    BY <2>1, ComponentSame
  <2>3. Members(S, a) = members /\ Older(S, a) = older
    BY <2>2 DEF Members, Older
  <2>4. /\ R[a].key = Canonical(S, C)
        /\ R[a].rev = Cardinality(older) + 1
        /\ R[a].prev = IF older = {} THEN NoMessage
                       ELSE CHOOSE b \in older : \A c \in older \ {b} : Before(c, b)
        /\ R[a].current = (older = members \ {a})
    BY <1>2 DEF Reconciled
  <2> HIDE DEF R, S, C, members, older
  <2>5. QED
    BY <2>2, <2>3, <2>4 DEF IsRebuilt, LastOf, R, S
<1>3. QED
  BY <1>1, <1>2

---------------------------------------------------------------------------
(* What the rows of a rebuilt table say. *)

\* R is the table of the stored messages S.
IsTable(R, S) == \A a \in S : IsRebuilt(R, S, a)

\* Alerts of one identity are the stored members of one component.
LEMMA SameKey ==
  ASSUME Typed, NEW S \in SUBSET Messages, NEW R, IsTable(R, S), NEW a \in S, NEW b \in S
  PROVE  /\ R[b].key = R[a].key <=> b \in Component(S, a)
         /\ R[b].key = R[a].key <=> Component(S, b) = Component(S, a)
<1> DEFINE K == Component(S, a)
           L == Component(S, b)
<1>1. /\ K \in SUBSET Messages /\ a \in K
      /\ L \in SUBSET Messages /\ b \in L
  BY ComponentClosed
<1>2. R[a].key = Canonical(S, K) /\ R[b].key = Canonical(S, L)
  BY DEF IsTable, IsRebuilt
<1>3. b \in K => L = K
  BY ComponentSame
<1>4. ASSUME R[a].key = R[b].key PROVE L = K
  <2>1. R[a].key \in K /\ R[b].key \in L
    BY <1>1, <1>2, CanonicalIs
  <2>2. PICK x : x \in K /\ x \in L
    BY <2>1, <1>4
  <2>3. Component(S, x) = K /\ Component(S, x) = L
    BY <2>2, ComponentSame
  <2>4. QED
    BY <2>3
<1>5. QED
  BY <1>1, <1>2, <1>3, <1>4

\* The alerts of a lifecycle identity are the stored members of a component.
LEMMA SameClass ==
  ASSUME Typed, NEW S \in SUBSET Messages, NEW R, IsTable(R, S), NEW a \in S
  PROVE  {b \in S : R[b].key = R[a].key} = Members(S, a)
BY SameKey DEF Members

\* Within a component revisions are in the order of sending, and each has one.
LEMMA RevisionOrder ==
  ASSUME Typed, NEW S \in SUBSET Messages, NEW R, IsTable(R, S), NEW a \in S,
         NEW b \in Members(S, a)
  PROVE  /\ Before(a, b) => R[a].rev < R[b].rev
         /\ R[a].rev < R[b].rev => Before(a, b)
         /\ R[a].rev = R[b].rev => a = b
<1>1. a \in Messages /\ b \in Messages /\ b \in S
  BY DEF Members
<1>2. Component(S, b) = Component(S, a)
  BY ComponentSame DEF Members
<1>3. Members(S, b) = Members(S, a) /\ a \in Members(S, a)
  BY <1>1, <1>2, ComponentClosed DEF Members
<1>4. R[a].rev = Cardinality(Older(S, a)) + 1 /\ R[b].rev = Cardinality(Older(S, b)) + 1
  BY <1>1 DEF IsTable, IsRebuilt
<1>5. ASSUME NEW x \in Members(S, a), NEW y \in Members(S, a), Before(x, y),
             Members(S, x) = Members(S, a), Members(S, y) = Members(S, a)
      PROVE  Cardinality(Older(S, x)) < Cardinality(Older(S, y))
  <2>1. x \in Messages /\ y \in Messages /\ Members(S, a) \in SUBSET Messages
    BY DEF Members
  <2>2. Older(S, x) \in SUBSET Older(S, y) /\ x \in Older(S, y) /\ x \notin Older(S, x)
    BY <1>5, <2>1, BeforeOrders DEF Older
  <2>3. /\ Cardinality(Older(S, x)) <= Cardinality(Older(S, y))
        /\ Cardinality(Older(S, y)) = Cardinality(Older(S, x)) => Older(S, y) = Older(S, x)
    BY <2>1, <2>2, OlderIsFinite, FS_Subset
  <2>4. Cardinality(Older(S, x)) \in Nat /\ Cardinality(Older(S, y)) \in Nat
    BY <2>1, OlderIsFinite
  <2>5. QED
    BY <2>2, <2>3, <2>4
<1>6. Cardinality(Older(S, a)) \in Nat /\ Cardinality(Older(S, b)) \in Nat
  BY <1>1, OlderIsFinite
<1>7. Before(a, b) => R[a].rev < R[b].rev
  BY <1>3, <1>4, <1>5, <1>6
<1>8. Before(b, a) => R[b].rev < R[a].rev
  BY <1>3, <1>4, <1>5, <1>6
<1>9. a = b \/ Before(a, b) \/ Before(b, a)
  BY <1>1, BeforeOrders
<1>10. QED
  BY <1>4, <1>6, <1>7, <1>8, <1>9

\* The revisions of a component are 1 to the number of its alerts, and each
\* names the one before it.
LEMMA RevisionRange ==
  ASSUME Typed, NEW S \in SUBSET Messages, NEW R, IsTable(R, S), NEW a \in S
  PROVE  LET class == Members(S, a)
         IN  /\ R[a].rev \in 1..Cardinality(class)
             /\ R[a].current <=> R[a].rev = Cardinality(class)
             /\ R[a].rev = 1 <=> R[a].prev = NoMessage
             /\ R[a].rev > 1 => /\ R[a].prev \in class
                                /\ R[R[a].prev].rev = R[a].rev - 1
<1> DEFINE class == Members(S, a)
           older == Older(S, a)
<1>1. a \in Messages /\ a \in class
  BY ComponentClosed DEF Members
<1>2. /\ class \in SUBSET Messages /\ older \in SUBSET Messages
      /\ IsFiniteSet(class) /\ IsFiniteSet(older)
      /\ Cardinality(class) \in Nat /\ Cardinality(older) \in Nat
  BY <1>1, OlderIsFinite
<1>3. /\ R[a].rev = Cardinality(older) + 1
      /\ R[a].prev = IF older = {} THEN NoMessage ELSE LastOf(older)
      /\ R[a].current = (older = class \ {a})
  BY DEF IsTable, IsRebuilt
<1>4. older \in SUBSET (class \ {a})
  BY <1>1, BeforeOrders DEF Older
<1>5. IsFiniteSet(class \ {a}) /\ Cardinality(class \ {a}) = Cardinality(class) - 1
  BY <1>1, <1>2, FS_RemoveElement
<1>6. /\ Cardinality(older) <= Cardinality(class \ {a})
      /\ Cardinality(class \ {a}) = Cardinality(older) => class \ {a} = older
  BY <1>4, <1>5, FS_Subset
<1>7. Cardinality(older) = 0 <=> older = {}
  BY <1>2, FS_EmptySet
<1>8. NoMessage \notin Messages
  BY FeedsAssumption DEF NoMessage
<1>9. ASSUME older # {}
      PROVE  LastOf(older) \in class /\ R[LastOf(older)].rev = Cardinality(older)
  <2> DEFINE p == LastOf(older)
  <2>1. p \in older /\ \A c \in older \ {p} : Before(c, p)
    BY <1>9, <1>2, LastOfIs
  <2>2. p \in class /\ p \in Messages /\ p \in S /\ Before(p, a)
    BY <2>1, <1>2 DEF Older, Members
  <2>3. Component(S, p) = Component(S, a)
    BY <2>2, ComponentSame DEF Members
  <2>4. Members(S, p) = class
    BY <2>3 DEF Members
  <2> HIDE DEF p
  <2>5. Older(S, p) = older \ {p}
    <3>1. ASSUME NEW c \in Older(S, p) PROVE c \in older \ {p}
      <4>1. c \in class /\ c \in Messages /\ Before(c, p)
        BY <2>4, <1>2 DEF Older
      <4>2. c # p /\ Before(c, a)
        BY <4>1, <2>2, <1>1, BeforeOrders
      <4>3. QED
        BY <4>1, <4>2 DEF Older
    <3>2. ASSUME NEW c \in older \ {p} PROVE c \in Older(S, p)
      BY <2>1, <2>4 DEF Older
    <3>3. QED
      BY <3>1, <3>2
  <2>6. Cardinality(older \ {p}) = Cardinality(older) - 1
    BY <2>1, <1>2, FS_RemoveElement
  <2>7. R[p].rev = Cardinality(Older(S, p)) + 1
    BY <2>2 DEF IsTable, IsRebuilt
  <2>8. QED
    BY <2>2, <2>5, <2>6, <2>7, <1>2 DEF p
<1>10. older # {} => LastOf(older) \in older
  BY <1>2, LastOfIs
<1> HIDE DEF class, older
<1>11. R[a].rev \in 1..Cardinality(class)
  BY <1>2, <1>3, <1>5, <1>6
<1>12. R[a].current <=> R[a].rev = Cardinality(class)
  <2>1. older = class \ {a} <=> R[a].rev = Cardinality(class)
    BY <1>2, <1>3, <1>5, <1>6
  <2>2. R[a].current <=> older = class \ {a}
    BY <1>3
  <2>3. QED
    BY <2>1, <2>2
<1>13. R[a].rev = 1 <=> R[a].prev = NoMessage
  BY <1>2, <1>3, <1>7, <1>8, <1>10
<1>14. R[a].rev > 1 => R[a].prev \in class /\ R[R[a].prev].rev = R[a].rev - 1
  BY <1>2, <1>3, <1>7, <1>9
<1>15. QED
  BY <1>11, <1>12, <1>13, <1>14 DEF class

\* The graph of the stored messages is the same after a step: feed is fixed.
LEMMA TableStays ==
  ASSUME feed' = feed, NEW S, NEW R, rows' = R, DOMAIN R = S, IsTable(R, S)
  PROVE  IsTable(rows, Stored)'
<1>0. Stored' = S
  BY DEF Stored
<1> SUFFICES ASSUME NEW a \in S PROVE IsRebuilt(rows, Stored, a)'
  BY <1>0 DEF IsTable
<1>1. IsRebuilt(R, S, a)
  BY DEF IsTable
<1>2. (rows[a].key = Canonical(Stored, Component(Stored, a)))'
  <2>1. R[a].key = Canonical(S, Component(S, a))
    BY <1>1 DEF IsRebuilt
  <2>2. QED
    BY <2>1, <1>0 DEF Canonical, Before, Component, Closed, Linked
<1>3. (Older(Stored, a))' = Older(S, a) /\ (Members(Stored, a))' = Members(S, a)
  BY <1>0 DEF Older, Before, Members, Component, Closed, Linked
<1>4. (rows[a].rev = Cardinality(Older(Stored, a)) + 1)'
  BY <1>1, <1>3 DEF IsRebuilt
<1>5. (rows[a].prev = IF Older(Stored, a) = {} THEN NoMessage ELSE LastOf(Older(Stored, a)))'
  <2>1. R[a].prev = IF Older(S, a) = {} THEN NoMessage ELSE LastOf(Older(S, a))
    BY <1>1 DEF IsRebuilt
  <2>2. (LastOf(Older(Stored, a)))' = LastOf(Older(S, a))
    BY <1>0 DEF LastOf, Older, Before, Members, Component, Closed, Linked
  <2>3. QED
    BY <2>1, <2>2, <1>3 DEF NoMessage
<1>6. (rows[a].current = (Older(Stored, a) = Members(Stored, a) \ {a}))'
  BY <1>1, <1>3 DEF IsRebuilt
<1>7. QED
  BY <1>2, <1>4, <1>5, <1>6 DEF IsRebuilt

---------------------------------------------------------------------------
(* The queue. *)

\* The rows of the queue are records.
Fields(q) == q = [to |-> q.to, of |-> q.of, key |-> q.key, rev |-> q.rev,
                  action |-> q.action, status |-> q.status]

\* The alerts are records, whatever their graph.
Records(R) == \A m \in DOMAIN R :
  R[m] = [key |-> R[m].key, rev |-> R[m].rev, prev |-> R[m].prev,
          current |-> R[m].current, status |-> R[m].status]

\* The rows of a queue Q carry what the alerts R say, and nobody has two rows
\* for one message and action.
Follows(Q, R) == \A q \in Q :
  Fields(q) /\ q.of \in DOMAIN R /\ q.key = R[q.of].key /\ q.rev = R[q.of].rev
Once(Q) == \A p, q \in Q : p.to = q.to /\ p.of = q.of /\ p.action = q.action => p = q

\* The queue agrees with the table.
QueueInv == Records(rows) /\ Follows(queue, rows) /\ Once(queue)

\* A row that follows its alert is a row, and about the same alert.
Rekey(q, R) == [q EXCEPT !.key = R[q.of].key, !.rev = R[q.of].rev]
LEMMA RekeyedRow ==
  ASSUME NEW q, Fields(q), NEW R
  PROVE  /\ Fields(Rekey(q, R)) /\ Rekey(q, R).of = q.of /\ Rekey(q, R).to = q.to
         /\ Rekey(q, R).action = q.action
         /\ Rekey(q, R).key = R[q.of].key /\ Rekey(q, R).rev = R[q.of].rev
<1> DEFINE k == R[q.of].key
           r == R[q.of].rev
           x == [q EXCEPT !.key = k, !.rev = r]
           Shape == [to : {q.to}, of : {q.of}, key : {q.key, k}, rev : {q.rev, r},
                     action : {q.action}, status : {q.status}]
<1>1. Rekey(q, R) = x
  BY DEF Rekey
<1> HIDE DEF k, r
<1>2. q \in Shape
  BY DEF Fields
<1>3. x \in Shape /\ x.key = k /\ x.rev = r
  BY <1>2
<1> HIDE DEF x
<1>4. Fields(x) /\ x.of = q.of /\ x.to = q.to /\ x.action = q.action
  BY <1>3 DEF Fields
<1>5. QED
  BY <1>1, <1>3, <1>4 DEF k, r

\* The queue rows of a rebuild follow the new alerts.
LEMMA RekeyedFollows ==
  ASSUME QueueInv, NEW R, Stored \subseteq DOMAIN R
  PROVE  Follows(Rekeyed(R), R) /\ Once(Rekeyed(R))
<1>1. Rekeyed(R) = {Rekey(q, R) : q \in queue}
  BY DEF Rekeyed, Rekey
<1>2. ASSUME NEW q \in queue
      PROVE  /\ Fields(Rekey(q, R)) /\ Rekey(q, R).of = q.of /\ Rekey(q, R).to = q.to
             /\ Rekey(q, R).action = q.action /\ q.of \in DOMAIN R
             /\ Rekey(q, R).key = R[q.of].key /\ Rekey(q, R).rev = R[q.of].rev
  BY RekeyedRow DEF QueueInv, Follows, Stored
<1>3. Follows(Rekeyed(R), R)
  BY <1>1, <1>2 DEF Follows
<1>4. Once(Rekeyed(R))
  BY <1>1, <1>2 DEF QueueInv, Once
<1>5. QED
  BY <1>3, <1>4

\* Enqueueing the current alerts cs of R to a queue that follows R.
LEMMA EnqueuedFollows ==
  ASSUME NEW Q, NEW R, Follows(Q, R), Once(Q), NEW cs \in SUBSET DOMAIN R, NEW matching
  PROVE  Follows(Enqueued(Q, R, cs, matching), R) /\ Once(Enqueued(Q, R, cs, matching))
<1> DEFINE act(c) == LifecycleAction(c, R[c].status)
           to(c) == IF act(c) = "alert" THEN matching ELSE PriorRecipients(Q, R[c].key)
           taken(t, c) == \E q \in Q : <<q.to, q.key, q.rev, q.action>>
                                         = <<t, R[c].key, R[c].rev, act(c)>>
           row(t, c) == [to |-> t, of |-> c, key |-> R[c].key, rev |-> R[c].rev,
                         action |-> act(c), status |-> "pending"]
           new == UNION {{row(t, c) : t \in {u \in to(c) : ~taken(u, c)}} : c \in cs}
           stale(q) == /\ q.status = "pending"
                       /\ \E c \in cs : q.key = R[c].key /\ q.rev < R[c].rev
           F(q) == IF stale(q) THEN [q EXCEPT !.status = "skipped"] ELSE q
           N == Q \cup new
<1>1. Enqueued(Q, R, cs, matching) = {F(q) : q \in N}
  BY DEF Enqueued
<1>2. ASSUME NEW n \in new PROVE \E c \in cs, t \in to(n.of) : n = row(t, c) /\ ~taken(t, c)
  <2>1. PICK c \in cs : n \in {row(t, c) : t \in {u \in to(c) : ~taken(u, c)}}
    OBVIOUS
  <2>2. PICK t \in to(c) : n = row(t, c) /\ ~taken(t, c)
    BY <2>1
  <2>3. n.of = c
    BY <2>2
  <2>4. QED
    BY <2>2, <2>3
<1>3. ASSUME NEW n \in new
      PROVE  /\ Fields(n) /\ n.of \in cs /\ n.key = R[n.of].key /\ n.rev = R[n.of].rev
             /\ n.action = act(n.of) /\ ~taken(n.to, n.of) /\ n.status = "pending"
  <2> HIDE DEF new, to, act, taken
  <2>1. PICK c \in cs, t \in to(n.of) : n = row(t, c) /\ ~taken(t, c)
    BY <1>2
  <2>2. QED
    BY <2>1 DEF Fields
<1> HIDE DEF new, stale
<1>4. Follows(N, R)
  BY <1>3 DEF Follows
<1>5. Once(N)
  <2> SUFFICES ASSUME NEW p \in N, NEW q \in N, p.to = q.to, p.of = q.of, p.action = q.action
               PROVE  p = q
    BY DEF Once
  <2>1. CASE p \in Q /\ q \in Q
    BY <2>1 DEF Once
  <2>2. CASE p \in new /\ q \in new
    BY <1>3, <2>2 DEF Fields
  <2>3. CASE p \in Q /\ q \in new
    BY <1>3, <2>3 DEF Follows
  <2>4. CASE p \in new /\ q \in Q
    BY <1>3, <2>4 DEF Follows
  <2>5. QED
    BY <2>1, <2>2, <2>3, <2>4
<1> HIDE DEF N
<1>6. ASSUME NEW q \in N
      PROVE  /\ Fields(F(q)) /\ F(q).of = q.of /\ F(q).to = q.to /\ F(q).action = q.action
             /\ F(q).key = q.key /\ F(q).rev = q.rev
  BY <1>4 DEF Follows, Fields
<1> HIDE DEF F
<1>7. Follows(Enqueued(Q, R, cs, matching), R)
  BY <1>1, <1>4, <1>6 DEF Follows
<1>8. Once(Enqueued(Q, R, cs, matching))
  BY <1>1, <1>5, <1>6 DEF Once
<1>9. QED
  BY <1>7, <1>8

\* A row that only changes its status.
LEMMA Restated ==
  ASSUME QueueInv, NEW q \in queue, NEW s, UNCHANGED rows,
         queue' = (queue \ {q}) \cup {[q EXCEPT !.status = s]}
  PROVE  QueueInv'
<1> DEFINE r == [q EXCEPT !.status = s]
<1>1. /\ Fields(r) /\ r.of = q.of /\ r.to = q.to /\ r.action = q.action
      /\ r.key = q.key /\ r.rev = q.rev
  BY DEF QueueInv, Follows, Fields
<1>2. queue' = (queue \ {q}) \cup {r}
  OBVIOUS
<1> HIDE DEF r
<1>3. Follows(queue, rows)'
  BY <1>1, <1>2 DEF QueueInv, Follows
<1>4. Once(queue)'
  BY <1>1, <1>2 DEF QueueInv, Once
<1>5. QED
  BY <1>3, <1>4 DEF QueueInv

\* Every step keeps the queue in agreement with the table.
LEMMA StepQueueInv == QueueInv /\ [Next]_vars => QueueInv'
<1> SUFFICES ASSUME QueueInv, [Next]_vars PROVE QueueInv'
  OBVIOUS
<1>1. ASSUME NEW m \in Messages, Ingest(m) PROVE QueueInv'
  <2> DEFINE S == Stored \cup {m}
             R == Reconciled(S, m)
             cs == {a \in Component(S, m) \cap S : R[a].current}
  <2>1. DOMAIN R = S
    BY DEF Reconciled
  <2>a. Records(R)
    BY DEF Reconciled, Records, QueueInv, Stored
  <2>2. rows' = R /\ \E matching \in SUBSET Reachable : queue' = Enqueued(Rekeyed(R), R, cs, matching)
    BY <1>1 DEF Ingest
  <2>3. cs \in SUBSET DOMAIN R /\ Stored \subseteq DOMAIN R
    BY <2>1
  <2> HIDE DEF R, cs
  <2>4. Follows(Rekeyed(R), R) /\ Once(Rekeyed(R))
    BY <2>3, RekeyedFollows
  <2>5. PICK matching : queue' = Enqueued(Rekeyed(R), R, cs, matching)
    BY <2>2
  <2>6. Follows(queue', R) /\ Once(queue')
    BY <2>3, <2>4, <2>5, EnqueuedFollows
  <2>7. QED
    BY <2>2, <2>6, <2>a DEF QueueInv
<1>2. CASE Expire
  <2> DEFINE due == {m \in Stored \cap lapsed : rows[m].current /\ rows[m].status = "active"}
             R == [m \in Stored |->
                     IF m \in due THEN [rows[m] EXCEPT !.status = "expired"] ELSE rows[m]]
  <2>1. rows' = R /\ queue' = Enqueued(queue, R, due, {})
    BY <1>2 DEF Expire
  <2>2. DOMAIN R = Stored /\ due \in SUBSET DOMAIN R
    OBVIOUS
  <2>3. /\ \A m \in Stored : R[m].key = rows[m].key /\ R[m].rev = rows[m].rev
        /\ Records(R)
    BY DEF QueueInv, Records, Stored
  <2> HIDE DEF due, R
  <2>4. Follows(queue, R) /\ Once(queue)
    BY <2>2, <2>3 DEF QueueInv, Follows, Stored
  <2>5. Follows(queue', R) /\ Once(queue')
    BY <2>1, <2>2, <2>4, EnqueuedFollows
  <2>6. QED
    BY <2>1, <2>3, <2>5 DEF QueueInv
<1>3. ASSUME NEW q \in queue, Settle(q) PROVE QueueInv'
  BY <1>3, Restated DEF Settle
<1>4. ASSUME NEW q \in queue, Requeue(q) PROVE QueueInv'
  BY <1>4, Restated DEF Requeue
<1>5. CASE UNCHANGED <<rows, queue>>
  BY <1>5 DEF QueueInv, Records, Follows, Once
<1>6. QED
  BY <1>1, <1>2, <1>3, <1>4, <1>5 DEF Next, vars, IngestAborts, Lapse, SetChannel

---------------------------------------------------------------------------
(* The types. *)

\* What a rebuild writes are alerts, of the stored messages.
LEMMA ReconciledRows ==
  ASSUME TypeOK, NEW m \in Messages
  PROVE  Reconciled(Stored \cup {m}, m) \in [Stored \cup {m} -> Rows]
<1> DEFINE S == Stored \cup {m}
           C == Component(S, m)
           members == C \cap S
           older(a) == {b \in members : Before(b, a)}
           newest(a) == older(a) = members \ {a}
           row(a) == [key |-> Canonical(S, C),
                      rev |-> Cardinality(older(a)) + 1,
                      prev |-> IF older(a) = {} THEN NoMessage
                               ELSE CHOOSE b \in older(a) : \A c \in older(a) \ {b} : Before(c, b),
                      current |-> newest(a),
                      status |-> ReconciledStatus(a, newest(a))]
<1>1. Reconciled(S, m) = [a \in S |-> IF a \in Stored \ members THEN rows[a] ELSE row(a)]
  BY DEF Reconciled
<1>2. /\ Typed /\ Stored \in SUBSET Messages /\ S \in SUBSET Messages
      /\ rows \in [Stored -> Rows]
  BY DEF TypeOK, Typed
<1>3. C \in SUBSET Messages /\ m \in C
  BY ComponentClosed
<1>4. Canonical(S, C) \in Messages
  BY <1>2, <1>3, CanonicalIs
<1>5. ASSUME NEW a \in S PROVE row(a) \in Rows
  <2>1. older(a) \in SUBSET Messages
    BY <1>3
  <2>2. IsFiniteSet(older(a)) /\ Cardinality(older(a)) \in Nat
    BY <2>1, FeedsAssumption, FS_Subset, FS_CardinalityType
  <2>3. older(a) # {} => LastOf(older(a)) \in Messages
    BY <1>2, <2>1, LastOfIs
  <2>4. row(a).prev \in Messages \cup {NoMessage}
    BY <2>3 DEF LastOf
  <2>5. ReconciledStatus(a, newest(a)) \in Statuses
    BY DEF ReconciledStatus, Statuses
  <2> HIDE DEF older, C
  <2>6. row(a).rev \in Nat \ {0}
    BY <2>2
  <2>7. row(a).key \in Messages /\ row(a).current \in BOOLEAN /\ row(a).status \in Statuses
    BY <1>4, <2>5
  <2>8. row(a) = [key |-> row(a).key, rev |-> row(a).rev, prev |-> row(a).prev,
                  current |-> row(a).current, status |-> row(a).status]
    OBVIOUS
  <2> HIDE DEF row
  <2>9. QED
    BY <2>4, <2>6, <2>7, <2>8 DEF Rows
<1> HIDE DEF row
<1>6. QED
  BY <1>1, <1>2, <1>5

\* Queue rows that follow their alerts are queue rows.
LEMMA RekeyedRows ==
  ASSUME queue \subseteq QueueRows, NEW S, NEW R \in [S -> Rows], \A q \in queue : q.of \in S
  PROVE  Rekeyed(R) \subseteq QueueRows
<1> SUFFICES ASSUME NEW q \in queue
             PROVE  [q EXCEPT !.key = R[q.of].key, !.rev = R[q.of].rev] \in QueueRows
  BY DEF Rekeyed
<1>1. q \in QueueRows /\ R[q.of] \in Rows
  OBVIOUS
<1>2. R[q.of].key \in Messages /\ R[q.of].rev \in Nat \ {0}
  BY <1>1 DEF Rows
<1>3. QED
  BY <1>1, <1>2 DEF QueueRows

\* What the enqueueing writes are queue rows.
LEMMA EnqueuedRows ==
  ASSUME NEW Q \in SUBSET QueueRows, NEW S \in SUBSET Messages, NEW R \in [S -> Rows],
         NEW cs \in SUBSET S, NEW matching \in SUBSET Reachable
  PROVE  Enqueued(Q, R, cs, matching) \subseteq QueueRows
<1> DEFINE act(c) == LifecycleAction(c, R[c].status)
           to(c) == IF act(c) = "alert" THEN matching ELSE PriorRecipients(Q, R[c].key)
           taken(t, c) == \E q \in Q : <<q.to, q.key, q.rev, q.action>>
                                         = <<t, R[c].key, R[c].rev, act(c)>>
           row(t, c) == [to |-> t, of |-> c, key |-> R[c].key, rev |-> R[c].rev,
                         action |-> act(c), status |-> "pending"]
           new == UNION {{row(t, c) : t \in {u \in to(c) : ~taken(u, c)}} : c \in cs}
           stale(q) == /\ q.status = "pending"
                       /\ \E c \in cs : q.key = R[c].key /\ q.rev < R[c].rev
           F(q) == IF stale(q) THEN [q EXCEPT !.status = "skipped"] ELSE q
           N == Q \cup new
<1>1. Enqueued(Q, R, cs, matching) = {F(q) : q \in N}
  BY DEF Enqueued
<1>2. ASSUME NEW c \in cs, NEW t \in to(c) PROVE row(t, c) \in QueueRows
  <2>1. t \in Targets
    BY <1>2 DEF PriorRecipients, Reachable
  <2>2. act(c) \in Actions
    BY DEF LifecycleAction, Actions
  <2>3. c \in Messages /\ R[c].key \in Messages /\ R[c].rev \in Nat \ {0}
    BY DEF Rows
  <2> HIDE DEF act
  <2>4. QED
    BY <2>1, <2>2, <2>3 DEF QueueRows, QueueStatuses
<1> HIDE DEF row, to, taken
<1>3. new \subseteq QueueRows
  BY <1>2
<1> HIDE DEF new, stale
<1>4. ASSUME NEW q \in N PROVE F(q) \in QueueRows
  <2>1. q \in QueueRows
    BY <1>3
  <2>2. [q EXCEPT !.status = "skipped"] \in QueueRows
    BY <2>1 DEF QueueRows, QueueStatuses
  <2>3. QED
    BY <2>1, <2>2
<1> HIDE DEF N, F
<1>5. QED
  BY <1>1, <1>4

---------------------------------------------------------------------------
(* The invariant. *)

\* The status of an alert fits the message and its place.
StatusFits(R, S) == \A a \in S :
  /\ R[a].status = "cancelled" <=> feed[a].type = "cancel"
  /\ R[a].status = "expired" => a \in lapsed
  /\ R[a].status = "updated" => ~R[a].current

\* The inductive invariant.
Inv == QueueInv /\ TypeOK /\ IsTable(rows, Stored) /\ StatusFits(rows, Stored)

\* Every step keeps the invariant; only an ingest needs the graph for it.
LEMMA StepInv == Inv /\ [Next]_vars => Inv'
<1> SUFFICES ASSUME Inv, [Next]_vars PROVE Inv'
  OBVIOUS
<1>1. QueueInv'
  BY StepQueueInv DEF Inv
<1>2. QueueInv /\ TypeOK /\ IsTable(rows, Stored) /\ StatusFits(rows, Stored) /\ Typed
  BY DEF Inv, TypeOK, Typed
<1>3. \A q \in queue : q.of \in Stored
  BY <1>2 DEF QueueInv, Follows, Stored
<1>4. ASSUME NEW m \in Messages, Ingest(m)
      PROVE  TypeOK' /\ IsTable(rows, Stored)' /\ StatusFits(rows, Stored)'
  <2> DEFINE S == Stored \cup {m}
             R == Reconciled(S, m)
             cs == {a \in Component(S, m) \cap S : R[a].current}
  <2>1. /\ feed' = feed /\ lapsed' = lapsed /\ on' = on /\ polled' = polled \cup {m}
        /\ rows' = R
    BY <1>4 DEF Ingest
  <2>2. PICK matching \in SUBSET Reachable : queue' = Enqueued(Rekeyed(R), R, cs, matching)
    BY <1>4 DEF Ingest
  <2>3. R \in [S -> Rows] /\ S \in SUBSET Messages /\ cs \in SUBSET S
    BY <1>2, ReconciledRows DEF TypeOK
  <2>4. IsTable(R, S)
    BY <1>2, RebuiltAll DEF IsTable, TypeOK
  <2>5. StatusFits(R, S)
    <3> SUFFICES ASSUME NEW a \in S
                 PROVE  /\ R[a].status = "cancelled" <=> feed[a].type = "cancel"
                        /\ R[a].status = "expired" => a \in lapsed
                        /\ R[a].status = "updated" => ~R[a].current
      BY DEF StatusFits
    <3>1. CASE a \in Stored /\ R[a] = rows[a]
      BY <1>2, <3>1 DEF StatusFits
    <3>2. CASE \E new : R[a].current = new /\ R[a].status = ReconciledStatus(a, new)
      BY <3>2 DEF ReconciledStatus
    <3>3. QED
      BY <3>1, <3>2 DEF Reconciled
  <2> HIDE DEF S, R, cs
  <2>6. Rekeyed(R) \in SUBSET QueueRows
    BY <1>2, <1>3, <2>3, RekeyedRows DEF TypeOK, S
  <2>7. queue' \subseteq QueueRows
    BY <2>2, <2>3, <2>6, EnqueuedRows
  <2>8. Stored' = S
    BY <2>1, <2>3 DEF Stored
  <2>9. TypeOK'
    BY <1>2, <2>1, <2>3, <2>7, <2>8 DEF TypeOK, S
  <2>10. IsTable(rows, Stored)'
    BY <2>1, <2>3, <2>4, TableStays
  <2>11. StatusFits(rows, Stored)'
    BY <2>1, <2>5, <2>8 DEF StatusFits
  <2>12. QED
    BY <2>9, <2>10, <2>11
<1>5. CASE Expire
  <2> DEFINE due == {m \in Stored \cap lapsed : rows[m].current /\ rows[m].status = "active"}
             R == [m \in Stored |->
                     IF m \in due THEN [rows[m] EXCEPT !.status = "expired"] ELSE rows[m]]
  <2>1. /\ rows' = R /\ queue' = Enqueued(queue, R, due, {})
        /\ UNCHANGED <<feed, lapsed, on, polled>>
    BY <1>5 DEF Expire
  <2>2. R \in [Stored -> Rows] /\ Stored \in SUBSET Messages /\ due \in SUBSET Stored
    BY <1>2 DEF TypeOK, Rows, Statuses
  <2>3. ASSUME NEW a \in Stored
        PROVE  /\ R[a].key = rows[a].key /\ R[a].rev = rows[a].rev
               /\ R[a].prev = rows[a].prev /\ R[a].current = rows[a].current
               /\ a \in due => R[a].status = "expired"
               /\ a \notin due => R[a] = rows[a]
    <3>1. rows[a] \in Rows
      BY <1>2 DEF TypeOK
    <3>2. QED
      BY <3>1 DEF Rows
  <2>4. StatusFits(R, Stored)
    BY <1>2, <2>3 DEF StatusFits
  <2> HIDE DEF R
  <2>5. IsTable(R, Stored)
    BY <1>2, <2>3 DEF IsTable, IsRebuilt
  <2> HIDE DEF due
  <2>6. queue' \subseteq QueueRows
    BY <1>2, <2>1, <2>2, EnqueuedRows DEF TypeOK
  <2>7. Stored' = Stored
    BY <2>1, <2>2 DEF Stored
  <2>8. TypeOK'
    BY <1>2, <2>1, <2>2, <2>6, <2>7 DEF TypeOK
  <2>9. IsTable(rows, Stored)'
    BY <2>1, <2>2, <2>5, TableStays
  <2>10. StatusFits(rows, Stored)'
    BY <2>1, <2>4, <2>7 DEF StatusFits
  <2>11. QED
    BY <1>1, <2>8, <2>9, <2>10 DEF Inv
<1>6. ASSUME feed' = feed, rows' = rows, lapsed \subseteq lapsed'
      PROVE  IsTable(rows, Stored)' /\ StatusFits(rows, Stored)' /\ Stored' = Stored
  <2>1. Stored' = Stored
    BY <1>6 DEF Stored
  <2>a. DOMAIN rows = Stored
    BY DEF Stored
  <2>2. IsTable(rows, Stored)'
    BY <1>2, <1>6, <2>a, TableStays
  <2>3. StatusFits(rows, Stored)'
    BY <1>2, <1>6, <2>1 DEF StatusFits
  <2>4. QED
    BY <2>1, <2>2, <2>3
<1>7. ASSUME NEW m \in Messages, IngestAborts(m) \/ Lapse(m) PROVE Inv'
  <2>1. /\ feed' = feed /\ rows' = rows /\ queue' = queue /\ lapsed \subseteq lapsed'
        /\ lapsed' \subseteq Lapsing /\ on' = on /\ polled' \subseteq Messages /\ polled \subseteq polled'
    BY <1>2, <1>7 DEF IngestAborts, Lapse, TypeOK
  <2>2. TypeOK'
    BY <1>2, <1>6, <2>1 DEF TypeOK
  <2>3. QED
    BY <1>1, <1>6, <2>1, <2>2 DEF Inv
<1>8. ASSUME NEW q \in queue, Settle(q) \/ Requeue(q) PROVE Inv'
  <2>1. /\ UNCHANGED <<feed, lapsed, on, rows, polled>>
        /\ \E s \in QueueStatuses : queue' = (queue \ {q}) \cup {[q EXCEPT !.status = s]}
    BY <1>8 DEF Settle, Requeue, QueueStatuses
  <2>2. q \in QueueRows
    BY <1>2 DEF TypeOK
  <2>3. \A s \in QueueStatuses : [q EXCEPT !.status = s] \in QueueRows
    BY <2>2 DEF QueueRows
  <2>4. TypeOK'
    BY <1>2, <1>6, <2>1, <2>3 DEF TypeOK
  <2>5. QED
    BY <1>1, <1>6, <2>1, <2>4 DEF Inv
<1>9. ASSUME NEW c \in Channels, SetChannel(c) PROVE Inv'
  <2>1. UNCHANGED <<feed, lapsed, rows, queue, polled>> /\ on' \subseteq Channels
    BY <1>2, <1>9 DEF SetChannel, TypeOK
  <2>2. TypeOK'
    BY <1>2, <1>6, <2>1 DEF TypeOK
  <2>3. QED
    BY <1>1, <1>6, <2>1, <2>2 DEF Inv
<1>10. CASE UNCHANGED vars
  BY <1>1, <1>2, <1>6, <1>10 DEF vars, Inv, TypeOK
<1>11. QED
  BY <1>1, <1>4, <1>5, <1>7, <1>8, <1>9, <1>10 DEF Next, Inv

\* So it holds in every reachable state.
LEMMA Invariant == Spec => []Inv
<1>1. Init => Inv
  <2> SUFFICES ASSUME Init PROVE Inv
    OBVIOUS
  <2>1. Stored = {} /\ rows = [m \in {} |-> NoMessage] /\ queue = {} /\ lapsed = {} /\ polled = {}
    BY DEF Init, Stored
  <2>2. QueueInv
    BY <2>1 DEF QueueInv, Records, Follows, Once
  <2>3. feed \in [Messages -> Published]
    BY FeedsAssumption DEF Init
  <2>4. TypeOK
    BY <2>1, <2>3 DEF TypeOK, Init
  <2>5. IsTable(rows, Stored) /\ StatusFits(rows, Stored)
    BY <2>1 DEF IsTable, StatusFits
  <2>6. QED
    BY <2>2, <2>4, <2>5 DEF Inv
<1>2. QED
  BY <1>1, StepInv, PTL DEF Spec

---------------------------------------------------------------------------
(* The properties. *)

\* Every variable has its type.
THEOREM Types == Spec => []TypeOK
<1>1. Inv => TypeOK
  BY DEF Inv
<1>2. QED
  BY <1>1, Invariant, PTL

\* The set that the search does not leave: a part of a component that nothing
\* near it lies outside of, with the identities that its messages reference.
LEMMA PartIsClosed ==
  ASSUME Typed, NEW S \in SUBSET Messages, NEW a \in S, NEW part \in SUBSET Members(S, a),
         part # {},
         \A b \in part, c \in Members(S, a) \ part :
            ~(\/ c \in feed[b].refs
              \/ b \in feed[c].refs
              \/ feed[b].refs \cap feed[c].refs # {})
  PROVE  part = Members(S, a)
<1> DEFINE K == Component(S, a)
           D == part \cup {x \in Messages \ S : \E b \in part : x \in feed[b].refs}
<1>1. K \in SUBSET Messages /\ Closed(S, K)
  BY ComponentClosed
<1>2. Members(S, a) = K \cap S
  BY DEF Members
<1>3. part \in SUBSET (K \cap S)
  BY <1>2
<1> HIDE DEF K
<1>4. Closed(S, D)
  <2> SUFFICES ASSUME NEW u \in D, NEW v \in Messages, Linked(S, u, v) PROVE v \in D
    BY DEF Closed
  <2>1. CASE u \in part
    <3>1. v \in K
      BY <1>1, <1>3, <2>1 DEF Closed
    <3>2. CASE v \in S
      BY <1>2, <2>1, <3>1, <3>2 DEF Linked
    <3>3. CASE v \notin S
      BY <2>1, <3>3 DEF Linked
    <3>4. QED
      BY <3>2, <3>3
  <2>2. CASE u \notin part
    <3>1. PICK b \in part : u \in Messages \ S /\ u \in feed[b].refs
      BY <2>2
    <3>2. v \in S /\ u \in feed[v].refs
      BY <3>1 DEF Linked
    <3>3. Linked(S, b, u) /\ b \in K /\ b \in Messages
      BY <1>1, <1>3, <3>1 DEF Linked
    <3>4. u \in K
      BY <1>1, <3>1, <3>3 DEF Closed
    <3>5. v \in K
      BY <1>1, <3>4 DEF Closed
    <3>6. v \in Members(S, a) /\ u \in feed[b].refs \cap feed[v].refs
      BY <1>2, <3>1, <3>2, <3>5
    <3>7. v \in part
      BY <3>6
    <3>8. QED
      BY <3>7
  <2>3. QED
    BY <2>1, <2>2
<1>5. PICK b \in part : TRUE
  OBVIOUS
<1>6. D \in SUBSET Messages /\ b \in Messages /\ b \in D
  BY <1>1, <1>3
<1> HIDE DEF D
<1>7. Component(S, b) \subseteq D
  BY <1>4, <1>6, ComponentLeast
<1>8. Component(S, b) = K
  BY <1>3, ComponentSame DEF K
<1>9. QED
  BY <1>2, <1>3, <1>7, <1>8 DEF D

\* Linked alerts share their lifecycle identity and unlinked ones do not, in
\* whatever order _upsert_cap_alert sees them.
THEOREM KeysFollowTheGraph == Spec => []KeysAreComponents
<1>1. ASSUME Inv PROVE KeysAreComponents
  <2>1. Typed /\ Stored \in SUBSET Messages /\ IsTable(rows, Stored)
    BY <1>1 DEF Inv, TypeOK, Typed
  <2> DEFINE Near(a, b) == \/ b \in feed[a].refs
                           \/ a \in feed[b].refs
                           \/ feed[a].refs \cap feed[b].refs # {}
  <2>2. ASSUME NEW a \in Stored, NEW b \in Stored, Near(a, b)
        PROVE  rows[a].key = rows[b].key
    <3> DEFINE K == Component(Stored, a)
    <3>1. K \in SUBSET Messages /\ Closed(Stored, K) /\ a \in K
      BY <2>1, ComponentClosed
    <3> HIDE DEF K
    <3>2. a \in Messages /\ b \in Messages
      BY <2>1
    <3>3. b \in K
      <4>1. CASE b \in feed[a].refs \/ a \in feed[b].refs
        BY <3>1, <3>2, <4>1 DEF Closed, Linked
      <4>2. CASE feed[a].refs \cap feed[b].refs # {}
        <5>1. PICK x : x \in feed[a].refs /\ x \in feed[b].refs
          BY <4>2
        <5>2. x \in Messages
          BY <2>1, <3>2, <5>1 DEF Typed, Published
        <5>3. Linked(Stored, a, x) /\ Linked(Stored, x, b)
          BY <5>1 DEF Linked
        <5>4. x \in K
          BY <3>1, <5>2, <5>3 DEF Closed
        <5>5. QED
          BY <3>1, <3>2, <5>3, <5>4 DEF Closed
      <4>3. QED
        BY <2>2, <4>1, <4>2
    <3>4. QED
      BY <2>1, <3>3, SameKey DEF K
  <2>3. ASSUME NEW a \in Stored,
               NEW part \in SUBSET {b \in Stored : rows[b].key = rows[a].key},
               part # {}, part # {b \in Stored : rows[b].key = rows[a].key}
        PROVE  \E b \in part, c \in {b \in Stored : rows[b].key = rows[a].key} \ part :
                 Near(b, c)
    <3>1. {b \in Stored : rows[b].key = rows[a].key} = Members(Stored, a)
      BY <2>1, SameClass
    <3> SUFFICES ASSUME \A b \in part, c \in Members(Stored, a) \ part : ~Near(b, c)
                 PROVE  FALSE
      BY <3>1
    <3>2. part \in SUBSET Members(Stored, a) /\ part # Members(Stored, a)
      BY <2>3, <3>1
    <3>3. QED
      BY <2>1, <2>3, <3>2, PartIsClosed
  <2> HIDE DEF Near
  <2>4. QED
    BY <2>2, <2>3 DEF KeysAreComponents, Near
<1>2. QED
  BY <1>1, Invariant, PTL

\* The alerts of a lifecycle are its revisions in the order of sending (the
\* renumbering of _reconcile_cap_lifecycle).
THEOREM RevisionsAreInOrder == Spec => []RevisionsFollowSending
<1>1. ASSUME Inv PROVE RevisionsFollowSending
  <2>1. Typed /\ Stored \in SUBSET Messages /\ IsTable(rows, Stored)
    BY <1>1 DEF Inv, TypeOK, Typed
  <2> SUFFICES
        ASSUME NEW a \in Stored
        PROVE  LET class == {b \in Stored : rows[b].key = rows[a].key}
               IN  /\ rows[a].rev \in 1..Cardinality(class)
                   /\ rows[a].current <=> rows[a].rev = Cardinality(class)
                   /\ rows[a].rev = 1 <=> rows[a].prev = NoMessage
                   /\ rows[a].rev > 1 => /\ rows[a].prev \in class
                                         /\ rows[rows[a].prev].rev = rows[a].rev - 1
                   /\ \A b \in class : rows[a].rev < rows[b].rev =>
                        /\ feed[a].sent <= feed[b].sent
                        /\ feed[a].sent = feed[b].sent => a < b
    BY DEF RevisionsFollowSending
  <2> DEFINE class == {b \in Stored : rows[b].key = rows[a].key}
  <2>2. class = Members(Stored, a)
    BY <2>1, SameClass
  <2>3. /\ rows[a].rev \in 1..Cardinality(class)
        /\ rows[a].current <=> rows[a].rev = Cardinality(class)
        /\ rows[a].rev = 1 <=> rows[a].prev = NoMessage
        /\ rows[a].rev > 1 => /\ rows[a].prev \in class
                              /\ rows[rows[a].prev].rev = rows[a].rev - 1
    <3> DEFINE M == Members(Stored, a)
    <3>1. /\ rows[a].rev \in 1..Cardinality(M)
          /\ rows[a].current <=> rows[a].rev = Cardinality(M)
          /\ rows[a].rev = 1 <=> rows[a].prev = NoMessage
          /\ rows[a].rev > 1 => /\ rows[a].prev \in M
                                /\ rows[rows[a].prev].rev = rows[a].rev - 1
      BY <2>1, RevisionRange
    <3>2. class = M
      BY <2>2
    <3> HIDE DEF M, class
    <3>3. QED
      BY <3>1, <3>2
  <2>4. ASSUME NEW b \in class, rows[a].rev < rows[b].rev
        PROVE  /\ feed[a].sent <= feed[b].sent
               /\ feed[a].sent = feed[b].sent => a < b
    <3>1. Before(a, b)
      BY <2>1, <2>2, <2>4, RevisionOrder
    <3>2. feed[a].sent \in Nat /\ feed[b].sent \in Nat
      BY <2>1 DEF Typed, Published
    <3>3. QED
      BY <3>1, <3>2 DEF Before
  <2> HIDE DEF class
  <2>5. QED
    BY <2>3, <2>4 DEF class
<1>2. QED
  BY <1>1, Invariant, PTL

\* A queue row has the lifecycle identity and revision its alert has now, after
\* any number of renumberings (the UPDATE loop of _reconcile_cap_lifecycle).
THEOREM QueueFollows == Spec => []QueueFollowsAlert
<1>1. Inv => QueueFollowsAlert
  BY DEF Inv, QueueInv, Follows, QueueFollowsAlert
<1>2. QED
  BY <1>1, Invariant, PTL

\* Nobody has two rows for the same message and action, although the unique
\* key of ews_notification_log does not name the message.
THEOREM NobodyIsQueuedTwice == Spec => []NotQueuedTwice
<1>1. Inv => NotQueuedTwice
  BY DEF Inv, QueueInv, Once, NotQueuedTwice
<1>2. QED
  BY <1>1, Invariant, PTL

---------------------------------------------------------------------------
(* The steps. *)

\* A rebuild writes the rows of the component anew and leaves the others.
LEMMA RebuiltRow ==
  ASSUME NEW m \in Messages, NEW a \in Stored \cup {m}
  PROVE  LET S == Stored \cup {m}
             R == Reconciled(S, m)
         IN  \/ a \in Stored /\ R[a] = rows[a]
             \/ a \in Component(S, m) /\ R[a].status = ReconciledStatus(a, R[a].current)
<1>1. m \in Component(Stored \cup {m}, m)
  BY ComponentClosed
<1>2. QED
  BY <1>1 DEF Reconciled

\* A message that is not the newest of its component never becomes it again.
LEMMA StaysReplaced ==
  ASSUME Typed, Stored \in SUBSET Messages, IsTable(rows, Stored), NEW m \in Messages,
         NEW a \in Stored, ~rows[a].current
  PROVE  ~Reconciled(Stored \cup {m}, m)[a].current
<1> DEFINE S == Stored \cup {m}
           R == Reconciled(S, m)
<1>1. IsRebuilt(R, S, a) /\ IsRebuilt(rows, Stored, a)
  BY RebuiltAll DEF IsTable
<1>2. Older(Stored, a) # Members(Stored, a) \ {a}
  BY <1>1 DEF IsRebuilt
<1>3. ~Before(a, a)
  BY BeforeOrders
<1>4. PICK b \in Members(Stored, a) \ {a} : ~Before(b, a)
  BY <1>2, <1>3 DEF Older
<1>5. b \in Members(S, a) \ {a}
  BY <1>4, ComponentGrows DEF Members
<1>6. Older(S, a) # Members(S, a) \ {a}
  BY <1>4, <1>5 DEF Older
<1> HIDE DEF R, S
<1>7. QED
  BY <1>1, <1>6 DEF IsRebuilt, R, S

\* A rebuild, the expiry job and the other steps leave replaced, expired and
\* cancelled alerts so (ReconciledStatus reads expires_at again).
THEOREM NothingIsRevived == Spec => NeverRevived
<1> DEFINE Final == \A m \in Stored :
       /\ ~rows[m].current => ~rows'[m].current
       /\ rows[m].status \in {"expired", "cancelled"} => rows'[m].status = rows[m].status
       /\ rows[m].status = "updated" => rows'[m].status # "active"
<1>1. ASSUME Inv, [Next]_vars PROVE [Final]_vars
  <2>1. /\ Typed /\ Stored \in SUBSET Messages /\ IsTable(rows, Stored)
        /\ StatusFits(rows, Stored) /\ rows \in [Stored -> Rows]
    BY <1>1 DEF Inv, TypeOK, Typed
  <2>2. ASSUME NEW m \in Messages, Ingest(m), NEW a \in Stored
        PROVE  /\ ~rows[a].current => ~rows'[a].current
               /\ rows[a].status \in {"expired", "cancelled"} => rows'[a].status = rows[a].status
               /\ rows[a].status = "updated" => rows'[a].status # "active"
    <3> DEFINE R == Reconciled(Stored \cup {m}, m)
    <3>1. rows' = R
      BY <2>2 DEF Ingest
    <3>2. ~rows[a].current => ~R[a].current
      BY <2>1, StaysReplaced
    <3>3. /\ rows[a].status = "cancelled" <=> feed[a].type = "cancel"
          /\ rows[a].status = "expired" => a \in lapsed
          /\ rows[a].status = "updated" => ~rows[a].current
      BY <2>1 DEF StatusFits
    <3>4. R[a] = rows[a] \/ R[a].status = ReconciledStatus(a, R[a].current)
      BY RebuiltRow
    <3> HIDE DEF R
    <3>5. CASE R[a] = rows[a]
      BY <3>1, <3>5
    <3>6. CASE R[a].status = ReconciledStatus(a, R[a].current)
      BY <3>1, <3>2, <3>3, <3>6 DEF ReconciledStatus
    <3>7. QED
      BY <3>4, <3>5, <3>6
  <2>3. ASSUME Expire, NEW a \in Stored
        PROVE  rows'[a] = rows[a] \/ (/\ rows[a].status = "active" /\ rows'[a].status = "expired"
                                      /\ rows'[a].current = rows[a].current)
    <3>1. rows[a] \in Rows
      BY <2>1
    <3>2. QED
      BY <2>3, <3>1 DEF Expire, Rows
  <2>4. CASE Expire
    BY <2>3, <2>4
  <2>5. CASE rows' = rows
    BY <2>5
  <2> HIDE DEF Final
  <2>6. QED
    BY <1>1, <2>2, <2>4, <2>5 DEF Next, vars, IngestAborts, Lapse, Settle, Requeue, SetChannel, Final
<1>2. QED
  BY <1>1, Invariant, PTL DEF Spec, NeverRevived

\* An alert to be enqueued that is no new warning is enqueued, or already is,
\* for everyone with an open or sent row of its lifecycle whose channel is on.
LEMMA PriorAreEnqueued ==
  ASSUME NEW Q, NEW R, NEW cs, NEW c \in cs, NEW matching, NEW q \in Q,
         q.to \in Reachable, q.key = R[c].key, q.status \in {"pending", "sent"},
         LifecycleAction(c, R[c].status) # "alert"
  PROVE  \E n \in Q \cup Enqueued(Q, R, cs, matching) :
            /\ n.to = q.to /\ n.action = LifecycleAction(c, R[c].status)
            /\ \/ n \in Enqueued(Q, R, cs, matching) /\ n.of = c
               \/ n \in Q /\ n.key = R[c].key /\ n.rev = R[c].rev
<1> DEFINE act(x) == LifecycleAction(x, R[x].status)
           to(x) == IF act(x) = "alert" THEN matching ELSE PriorRecipients(Q, R[x].key)
           taken(t, x) == \E p \in Q : <<p.to, p.key, p.rev, p.action>>
                                         = <<t, R[x].key, R[x].rev, act(x)>>
           row(t, x) == [to |-> t, of |-> x, key |-> R[x].key, rev |-> R[x].rev,
                         action |-> act(x), status |-> "pending"]
           new == UNION {{row(t, x) : t \in {u \in to(x) : ~taken(u, x)}} : x \in cs}
           stale(p) == /\ p.status = "pending"
                       /\ \E x \in cs : p.key = R[x].key /\ p.rev < R[x].rev
           F(p) == IF stale(p) THEN [p EXCEPT !.status = "skipped"] ELSE p
           N == Q \cup new
<1>1. Enqueued(Q, R, cs, matching) = {F(p) : p \in N}
  BY DEF Enqueued
<1>2. CASE taken(q.to, c)
  <2>1. PICK p \in Q : <<p.to, p.key, p.rev, p.action>> = <<q.to, R[c].key, R[c].rev, act(c)>>
    BY <1>2
  <2>2. p.to = q.to /\ p.key = R[c].key /\ p.rev = R[c].rev /\ p.action = act(c)
    BY <2>1
  <2> HIDE DEF taken, new, F
  <2>3. QED
    BY <2>2
<1>3. CASE ~taken(q.to, c)
  <2>1. q.to \in to(c)
    BY DEF PriorRecipients
  <2>2. row(q.to, c) \in new
    <3> HIDE DEF row, to, taken
    <3>1. row(q.to, c) \in {row(t, c) : t \in {u \in to(c) : ~taken(u, c)}}
      BY <1>3, <2>1
    <3>2. QED
      BY <3>1
  <2>3. F(row(q.to, c)) \in Enqueued(Q, R, cs, matching)
    BY <1>1, <2>2
  <2> HIDE DEF stale, act
  <2>4. /\ F(row(q.to, c)).to = q.to /\ F(row(q.to, c)).of = c
        /\ F(row(q.to, c)).action = act(c)
    OBVIOUS
  <2> HIDE DEF F, row
  <2>5. QED
    BY <2>3, <2>4 DEF act
<1>4. QED
  BY <1>2, <1>3

\* Nothing of the queue is lost by enqueueing.
LEMMA EnqueuedKeeps ==
  ASSUME NEW Q, NEW R, NEW cs, NEW matching, NEW p \in Q, Fields(p)
  PROVE  \E n \in Enqueued(Q, R, cs, matching) :
            n.to = p.to /\ n.of = p.of /\ n.action = p.action
<1> DEFINE act(c) == LifecycleAction(c, R[c].status)
           to(c) == IF act(c) = "alert" THEN matching ELSE PriorRecipients(Q, R[c].key)
           taken(t, c) == \E q \in Q : <<q.to, q.key, q.rev, q.action>>
                                         = <<t, R[c].key, R[c].rev, act(c)>>
           new == UNION {{[to |-> t, of |-> c, key |-> R[c].key, rev |-> R[c].rev,
                           action |-> act(c), status |-> "pending"] :
                            t \in {u \in to(c) : ~taken(u, c)}} : c \in cs}
           stale(q) == /\ q.status = "pending"
                       /\ \E c \in cs : q.key = R[c].key /\ q.rev < R[c].rev
           F(q) == IF stale(q) THEN [q EXCEPT !.status = "skipped"] ELSE q
           N == Q \cup new
<1>1. Enqueued(Q, R, cs, matching) = {F(q) : q \in N}
  BY DEF Enqueued
<1> HIDE DEF new, stale
<1>2. F(p) \in Enqueued(Q, R, cs, matching)
  BY <1>1
<1>3. F(p).to = p.to /\ F(p).of = p.of /\ F(p).action = p.action
  BY DEF Fields
<1>4. QED
  BY <1>2, <1>3


\* Whoever has been sent or still awaits a message of one of the lifecycles
\* that an ingest joins, on a channel that is on, gets the one that becomes current (the merge of
\* _reconcile_cap_lifecycle with the INSERT of enqueue_official_alert_revision).
THEOREM MergedRecipientsGetTheUpdate == Spec => MergedRecipientsAreTold
<1> DEFINE act(c) == LifecycleAction(c, rows'[c].status)
           joined(c) == {m \in Stored : rows'[m].key = rows'[c].key}
           told(c) == rows'[c].current /\ (c \in Stored => ~rows[c].current) /\ act(c) # "alert" =>
             \A q \in queue :
               q.of \in joined(c) /\ q.status \in {"pending", "sent"} /\ q.to[2] \in on =>
               \E n \in queue' : n.to = q.to /\ n.of = c /\ n.action = act(c)
           Told == \A c \in DOMAIN rows' : told(c)
<1>1. ASSUME Inv, [Next]_vars PROVE [Told]_vars
  <2>1. /\ Typed /\ Stored \in SUBSET Messages /\ IsTable(rows, Stored) /\ QueueInv
        /\ rows \in [Stored -> Rows] /\ queue \in SUBSET QueueRows
    BY <1>1 DEF Inv, TypeOK, Typed
  <2>2. ASSUME NEW m \in Messages, Ingest(m), NEW c \in DOMAIN rows',
               rows'[c].current, c \in Stored => ~rows[c].current, act(c) # "alert",
               NEW q \in queue, q.of \in joined(c), q.status \in {"pending", "sent"},
               q.to[2] \in on
        PROVE  \E n \in queue' : n.to = q.to /\ n.of = c /\ n.action = act(c)
    <3> DEFINE S == Stored \cup {m}
               R == Reconciled(S, m)
               cs == {a \in Component(S, m) \cap S : R[a].current}
               Q == Rekeyed(R)
    <3>1. rows' = R /\ \E matching \in SUBSET Reachable : queue' = Enqueued(Q, R, cs, matching)
      BY <2>2 DEF Ingest
    <3>2. PICK matching : queue' = Enqueued(Q, R, cs, matching)
      BY <3>1
    <3>3. DOMAIN R = S /\ S \in SUBSET Messages /\ Stored \subseteq S
      BY <2>1 DEF Reconciled
    <3>4. IsTable(R, S)
      BY <2>1, RebuiltAll DEF IsTable
    <3>5. c \in cs
      <4>1. c \in S
        BY <2>2, <3>1, <3>3
      <4>2. \/ c \in Stored /\ R[c] = rows[c]
            \/ c \in Component(S, m)
        BY <4>1, RebuiltRow
      <4>3. R[c].current
        BY <2>2, <3>1
      <4> HIDE DEF R
      <4>4. QED
        BY <2>2, <4>1, <4>2, <4>3
    <3> HIDE DEF S, R
    <3>6. Follows(Q, R)
      BY <2>1, <3>3, RekeyedFollows
    <3> DEFINE r == Rekey(q, R)
    <3>7. /\ r \in Q /\ r.to = q.to /\ r.of = q.of /\ r.key = R[q.of].key
          /\ r.status = q.status /\ q.to \in Reachable
      <4>1. q \in QueueRows
        BY <2>1
      <4>2. r \in Q
        BY DEF Rekeyed, Rekey
      <4>3. QED
        BY <2>2, <4>1, <4>2 DEF QueueRows, Rekey, Reachable
    <3>8. R[q.of].key = R[c].key
      BY <2>2, <3>1
    <3> HIDE DEF r, Q, cs
    <3>9. PICK n \in Q \cup Enqueued(Q, R, cs, matching) :
            /\ n.to = q.to /\ n.action = act(c)
            /\ \/ n \in Enqueued(Q, R, cs, matching) /\ n.of = c
               \/ n \in Q /\ n.key = R[c].key /\ n.rev = R[c].rev
      BY <2>2, <3>1, <3>5, <3>7, <3>8, PriorAreEnqueued
    <3>10. CASE n \in Enqueued(Q, R, cs, matching) /\ n.of = c
      BY <3>2, <3>9, <3>10
    <3>11. CASE n \in Q /\ n.key = R[c].key /\ n.rev = R[c].rev
      <4>1. Fields(n) /\ n.of \in S /\ R[n.of].key = R[c].key /\ R[n.of].rev = R[c].rev
        BY <3>3, <3>6, <3>11 DEF Follows
      <4>2. c \in S
        BY <2>2, <3>1, <3>3
      <4>3. n.of \in Members(S, c)
        BY <2>1, <3>3, <3>4, <4>1, <4>2, SameKey DEF Members
      <4>4. n.of = c
        BY <2>1, <3>3, <3>4, <4>1, <4>2, <4>3, RevisionOrder
      <4>5. QED
        BY <3>2, <3>9, <3>11, <4>1, <4>4, EnqueuedKeeps
    <3>12. QED
      BY <3>9, <3>10, <3>11
  <2>3. ASSUME NEW m \in Messages, Ingest(m) PROVE Told
    BY <2>2, <2>3
  <2>4. ASSUME Expire, NEW c \in DOMAIN rows'
        PROVE  c \in Stored /\ rows'[c].current = rows[c].current
    <3>1. c \in Stored
      BY <2>4 DEF Expire
    <3>2. rows[c] \in Rows
      BY <2>1, <3>1
    <3>3. QED
      BY <2>4, <3>1, <3>2 DEF Expire, Rows
  <2>5. CASE Expire
    BY <2>4, <2>5
  <2>6. CASE rows' = rows
    BY <2>6 DEF Stored
  <2> HIDE DEF Told
  <2>7. QED
    BY <1>1, <2>3, <2>5, <2>6 DEF Next, vars, IngestAborts, Lapse, Settle, Requeue, SetChannel
<1>2. QED
  BY <1>1, Invariant, PTL DEF Spec, MergedRecipientsAreTold

=============================================================================
