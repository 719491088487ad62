---------------------------- MODULE IngestionProofs ----------------------------
(* Proofs about the idempotency of IngestSourceData, the continuity of a       *)
(* source record and the twins of an event, for any clients, submissions and   *)
(* events, with the NTSB importer among the clients or without it.             *)
EXTENDS NtsbLoad, TLAPS, FiniteSetTheorems

--------------------------------------------------------------------------------
(* The ancestors of an event: what the recursive function Ancestors computes.  *)

Depth == 0 .. Cardinality(Events)
Pointers == [Events -> Events \cup {NoEvent}]

(* One more step along the pointers.                                          *)
Climb(into, f) == [e \in Events |-> IF into[e] = NoEvent THEN e ELSE f[into[e]]]

LEMMA DepthNat == Cardinality(Events) \in Nat
BY IngestionAssumption, FS_CardinalityType DEF IngestionAssumption

(* A set of naturals that has an element has a least one.                     *)
LEMMA Least ==
    ASSUME NEW T \in SUBSET Nat, T # {}
    PROVE  \E n \in T : \A m \in T : n <= m
<1>1. PICK n \in T : \A m \in T : ~(<<m, n>> \in OpToRel(<, Nat))
  BY NatLessThanWellFounded, WFMin
<1>2. \A m \in T : ~(m < n)
  BY <1>1 DEF OpToRel
<1> QED
  BY <1>2

LEMMA AncestorsExist ==
    ASSUME NEW into \in Pointers
    PROVE  \E f \in [Depth -> [Events -> Events]] :
              f = [n \in Depth |-> [e \in Events |-> IF n = 0 \/ into[e] = NoEvent THEN e ELSE f[n - 1][into[e]]]]
<1> DEFINE Up(f, k) == \A n \in 0 .. k : \A e \in Events :
                          f[n][e] = IF n = 0 \/ into[e] = NoEvent THEN e ELSE f[n - 1][into[e]]
           T == {k \in Nat : ~(\E f \in [0 .. k -> [Events -> Events]] : Up(f, k))}
<1>1. T = {}
  <2> SUFFICES ASSUME T # {} PROVE FALSE
    OBVIOUS
  <2>1. PICK k \in T : \A m \in T : k <= m
    BY Least
  <2>2. CASE k = 0
    <3> DEFINE f == [n \in 0 .. 0 |-> [e \in Events |-> e]]
    <3>1. f \in [0 .. 0 -> [Events -> Events]] /\ Up(f, 0)
      OBVIOUS
    <3> QED
      BY <2>1, <2>2, <3>1
  <2>3. CASE k # 0
    <3>1. k \in Nat /\ k - 1 \in Nat /\ k - 1 \notin T
      <4>1. k \in Nat
        BY <2>1
      <4> HIDE DEF T
      <4> QED
        BY <2>1, <2>3, <4>1
    <3>2. PICK g \in [0 .. k - 1 -> [Events -> Events]] : Up(g, k - 1)
      BY <3>1
    <3> DEFINE f == [n \in 0 .. k |-> IF n < k THEN g[n] ELSE Climb(into, g[k - 1])]
    <3>3. Climb(into, g[k - 1]) \in [Events -> Events]
      BY <3>1 DEF Climb, Pointers
    <3>4. f \in [0 .. k -> [Events -> Events]]
      BY <3>1, <3>3
    <3>5. ASSUME NEW n \in 0 .. k, NEW e \in Events
          PROVE  f[n][e] = IF n = 0 \/ into[e] = NoEvent THEN e ELSE f[n - 1][into[e]]
      <4>1. CASE n < k
        <5>1. f[n] = g[n] /\ n \in 0 .. k - 1
          BY <3>1, <4>1
        <5>2. n # 0 => f[n - 1] = g[n - 1]
          BY <3>1, <4>1
        <5> QED
          BY <3>2, <5>1, <5>2
      <4>2. CASE n = k
        <5>1. f[n] = Climb(into, g[k - 1]) /\ f[n - 1] = g[k - 1] /\ n # 0
          BY <2>3, <3>1, <4>2
        <5> QED
          BY <5>1 DEF Climb
      <4> QED
        BY <3>1, <4>1, <4>2
    <3> HIDE DEF f
    <3> QED
      BY <2>1, <3>4, <3>5
  <2> QED
    BY <2>2, <2>3
<1>2. PICK f \in [Depth -> [Events -> Events]] : Up(f, Cardinality(Events))
  BY <1>1, DepthNat DEF Depth
<1>3. ASSUME NEW n \in Depth
      PROVE  f[n] = [e \in Events |-> IF n = 0 \/ into[e] = NoEvent THEN e ELSE f[n - 1][into[e]]]
  BY <1>2 DEF Depth
<1> QED
  BY <1>2, <1>3

LEMMA AncestorsDef ==
    ASSUME NEW into \in Pointers
    PROVE  /\ Ancestors(into) \in [Depth -> [Events -> Events]]
           /\ \A n \in Depth, e \in Events :
                 Ancestors(into)[n][e] = IF n = 0 \/ into[e] = NoEvent THEN e ELSE Ancestors(into)[n - 1][into[e]]
<1> DEFINE P(f) == f = [n \in Depth |-> [e \in Events |-> IF n = 0 \/ into[e] = NoEvent THEN e ELSE f[n - 1][into[e]]]]
<1>1. \E f : P(f)
  BY AncestorsExist
<1>2. Ancestors(into) = CHOOSE f : P(f)
  BY DEF Ancestors, Depth
<1>3. P(Ancestors(into))
  BY <1>1, <1>2
<1> DEFINE A == Ancestors(into)
           T == {n \in Depth : ~(A[n] \in [Events -> Events])}
<1>4. A = [n \in Depth |-> [e \in Events |-> IF n = 0 \/ into[e] = NoEvent THEN e ELSE A[n - 1][into[e]]]]
  BY <1>3
<1> HIDE DEF A, P
<1>5. ASSUME NEW n \in Depth, n # 0 => A[n - 1] \in [Events -> Events]
      PROVE  A[n] \in [Events -> Events]
  <2>1. A[n] = [e \in Events |-> IF n = 0 \/ into[e] = NoEvent THEN e ELSE A[n - 1][into[e]]]
    BY <1>4
  <2> QED
    BY <1>5, <2>1 DEF Pointers
<1>6. T = {}
  <2> SUFFICES ASSUME T # {} PROVE FALSE
    OBVIOUS
  <2>1. T \in SUBSET Nat
    BY DepthNat DEF Depth
  <2>2. PICK n \in T : \A m \in T : n <= m
    <3> HIDE DEF T
    <3> QED
      BY <2>1, Least
  <2>3. n \in Depth /\ n \in Nat
    BY <2>1
  <2>4. n # 0 => n - 1 \in Depth /\ ~(n <= n - 1)
    BY <2>3, DepthNat DEF Depth
  <2>5. n # 0 => n - 1 \notin T
    <3> HIDE DEF T
    <3> QED
      BY <2>2, <2>4
  <2>6. n # 0 => A[n - 1] \in [Events -> Events]
    BY <2>4, <2>5
  <2> QED
    BY <1>5, <2>3, <2>6
<1>7. A \in [Depth -> [Events -> Events]]
  BY <1>4, <1>6
<1>8. \A n \in Depth, e \in Events :
         A[n][e] = IF n = 0 \/ into[e] = NoEvent THEN e ELSE A[n - 1][into[e]]
  <2> TAKE n \in Depth, e \in Events
  <2>1. A[n] = [d \in Events |-> IF n = 0 \/ into[d] = NoEvent THEN d ELSE A[n - 1][into[d]]]
    BY <1>4
  <2> QED
    BY <2>1
<1> QED
  BY <1>7, <1>8 DEF A

(* Who has reached an event that is not merged stays there.                   *)
LEMMA RootsStay ==
    ASSUME NEW into \in Pointers,
           NEW k \in Depth, NEW n \in Depth, n >= k, NEW e \in Events,
           into[Ancestors(into)[k][e]] = NoEvent
    PROVE  Ancestors(into)[n][e] = Ancestors(into)[k][e]
<1> DEFINE A == Ancestors(into)
           Stays(j) == \A m \in Depth, d \in Events :
                          m >= j /\ into[A[j][d]] = NoEvent => A[m][d] = A[j][d]
           T == {j \in Depth : ~Stays(j)}
<1>1. /\ A \in [Depth -> [Events -> Events]]
      /\ \A m \in Depth, d \in Events :
            A[m][d] = IF m = 0 \/ into[d] = NoEvent THEN d ELSE A[m - 1][into[d]]
  BY AncestorsDef
<1> HIDE DEF A
<1>2. ASSUME NEW j \in Depth, j # 0 => Stays(j - 1), NEW m \in Depth, NEW d \in Events,
             m >= j, into[A[j][d]] = NoEvent
      PROVE  A[m][d] = A[j][d]
  <2>0. j \in Nat /\ m \in Nat
    BY DepthNat DEF Depth
  <2>1. CASE into[d] = NoEvent
    BY <1>1, <2>1
  <2>2. CASE into[d] # NoEvent /\ j = 0
    BY <1>1, <1>2, <2>2
  <2>3. CASE into[d] # NoEvent /\ j # 0
    <3>1. j - 1 \in Depth /\ m - 1 \in Depth /\ m # 0 /\ m - 1 >= j - 1 /\ into[d] \in Events
      BY <1>2, <2>0, <2>3, DepthNat DEF Depth, Pointers
    <3>2. A[j][d] = A[j - 1][into[d]] /\ A[m][d] = A[m - 1][into[d]]
      BY <1>1, <2>3, <3>1
    <3> QED
      BY <1>2, <2>3, <3>1, <3>2
  <2> QED
    BY <2>1, <2>2, <2>3
<1>3. T = {}
  <2> SUFFICES ASSUME T # {} PROVE FALSE
    OBVIOUS
  <2>1. T \in SUBSET Nat
    BY DepthNat DEF Depth
  <2>2. PICK j \in T : \A m \in T : j <= m
    <3> HIDE DEF T
    <3> QED
      BY <2>1, Least
  <2>3. j \in Depth /\ j \in Nat /\ ~Stays(j)
    BY <2>1
  <2>4. j # 0 => j - 1 \in Depth /\ ~(j <= j - 1)
    BY <2>3, DepthNat DEF Depth
  <2>5. j # 0 => j - 1 \notin T
    <3> HIDE DEF T
    <3> QED
      BY <2>2, <2>4
  <2>6. j # 0 => Stays(j - 1)
    <3> HIDE DEF Stays
    <3> QED
      BY <2>4, <2>5
  <2> QED
    BY <1>2, <2>3, <2>6
<1>4. Stays(k)
  <2> HIDE DEF Stays
  <2> QED
    BY <1>3
<1> QED
  BY <1>4 DEF A

(* A merge of s into t makes t the ancestor of those that had reached s, and   *)
(* changes no other ancestor.                                                  *)
LEMMA Absorb ==
    ASSUME NEW into \in Pointers, NEW s \in Events, NEW t \in Events, s # t,
           into[s] = NoEvent, into[t] = NoEvent,
           NEW after \in Pointers, after[s] = t, \A d \in Events : d # s => after[d] = into[d]
    PROVE  \A k \in Depth : k + 1 \in Depth =>
              \A e \in Events :
                 /\ Ancestors(into)[k][e] # s => Ancestors(after)[k][e] = Ancestors(into)[k][e]
                 /\ Ancestors(into)[k][e] = s => Ancestors(after)[k + 1][e] = t
<1> DEFINE A == Ancestors(into)
           B == Ancestors(after)
           Absorbed(j, d) == /\ A[j][d] # s => B[j][d] = A[j][d]
                             /\ A[j][d] = s => B[j + 1][d] = t
           T == {j \in Depth : j + 1 \in Depth /\ ~(\A d \in Events : Absorbed(j, d))}
<1>1. /\ A \in [Depth -> [Events -> Events]]
      /\ \A m \in Depth, d \in Events :
            A[m][d] = IF m = 0 \/ into[d] = NoEvent THEN d ELSE A[m - 1][into[d]]
  BY AncestorsDef
<1>2. \A m \in Depth, d \in Events :
            B[m][d] = IF m = 0 \/ after[d] = NoEvent THEN d ELSE B[m - 1][after[d]]
  BY AncestorsDef
<1>3. after[s] = t /\ t # NoEvent /\ \A d \in Events : d # s => after[d] = into[d]
  BY IngestionAssumption DEF IngestionAssumption, Pointers
<1> HIDE DEF A, B
<1>4. ASSUME NEW j \in Depth, j + 1 \in Depth,
             j # 0 => \A d \in Events : Absorbed(j - 1, d),
             NEW d \in Events
      PROVE  Absorbed(j, d)
  <2>0. j \in Nat /\ (j + 1) - 1 = j /\ j + 1 # 0
    BY DepthNat DEF Depth
  <2>1. CASE d = s
    <3>1. A[j][d] = s
      BY <1>1, <2>1
    <3>2. B[j + 1][s] = B[j][t]
      BY <1>2, <1>3, <1>4, <2>0
    <3>3. B[j][t] = t
      BY <1>2, <1>3
    <3> QED
      BY <2>1, <3>1, <3>2, <3>3
  <2>2. CASE d # s /\ into[d] = NoEvent
    BY <1>1, <1>2, <1>3, <2>2
  <2>3. CASE d # s /\ into[d] # NoEvent /\ j = 0
    BY <1>1, <1>2, <2>3
  <2>4. CASE d # s /\ into[d] # NoEvent /\ j # 0
    <3>1. j - 1 \in Depth /\ into[d] \in Events /\ (j - 1) + 1 = j
      BY <2>0, <2>4, DepthNat DEF Depth, Pointers
    <3>2. A[j][d] = A[j - 1][into[d]] /\ B[j][d] = B[j - 1][into[d]] /\ B[j + 1][d] = B[j][into[d]]
      <4>1. A[j][d] = A[j - 1][into[d]]
        BY <1>1, <2>4
      <4>2. after[d] = into[d]
        BY <1>3, <2>4
      <4>3. B[j][d] = B[j - 1][into[d]]
        BY <1>2, <2>4, <4>2
      <4>4. B[j + 1][d] = B[(j + 1) - 1][into[d]]
        BY <1>2, <1>4, <2>0, <2>4, <4>2
      <4> QED
        BY <2>0, <4>1, <4>3, <4>4
    <3>3. Absorbed(j - 1, into[d])
      BY <1>4, <2>4, <3>1
    <3> QED
      BY <3>1, <3>2, <3>3
  <2> QED
    BY <2>1, <2>2, <2>3, <2>4
<1> HIDE DEF Absorbed
<1>5. T = {}
  <2> SUFFICES ASSUME T # {} PROVE FALSE
    OBVIOUS
  <2>1. T \in SUBSET Nat
    BY DepthNat DEF Depth
  <2>2. PICK j \in T : \A m \in T : j <= m
    <3> HIDE DEF T
    <3> QED
      BY <2>1, Least
  <2>3. j \in Depth /\ j \in Nat /\ j + 1 \in Depth /\ ~(\A d \in Events : Absorbed(j, d))
    BY <2>1
  <2>4. j # 0 => j - 1 \in Depth /\ ~(j <= j - 1) /\ (j - 1) + 1 \in Depth
    BY <2>3, DepthNat DEF Depth
  <2>5. j # 0 => j - 1 \notin T
    <3> HIDE DEF T
    <3> QED
      BY <2>2, <2>4
  <2>6. j # 0 => \A d \in Events : Absorbed(j - 1, d)
    BY <2>4, <2>5
  <2> QED
    BY <1>4, <2>3, <2>6
<1>6. \A k \in Depth : k + 1 \in Depth => \A e \in Events : Absorbed(k, e)
  BY <1>5
<1> QED
  BY <1>6 DEF Absorbed, A, B

--------------------------------------------------------------------------------
(* Canonical events.                                                          *)

Absorbed(into) == {e \in Events : into[e] # NoEvent}
Root(into, e)  == Ancestors(into)[Cardinality(Events)][e]

(* Whoever climbs as often as there are merged events is at the root.         *)
Rooted(into) == \A e \in Events : into[Ancestors(into)[Cardinality(Absorbed(into))][e]] = NoEvent

LEMMA AbsorbedCount ==
    ASSUME NEW into \in Pointers
    PROVE  /\ IsFiniteSet(Absorbed(into))
           /\ Cardinality(Absorbed(into)) \in Depth
<1>1. IsFiniteSet(Absorbed(into)) /\ Cardinality(Absorbed(into)) <= Cardinality(Events)
  BY IngestionAssumption, FS_Subset DEF IngestionAssumption, Absorbed
<1>2. Cardinality(Absorbed(into)) \in Nat
  BY <1>1, FS_CardinalityType
<1> QED
  BY <1>1, <1>2, DepthNat DEF Depth

LEMMA RootType ==
    ASSUME NEW into \in Pointers, NEW e \in Events
    PROVE  Root(into, e) \in Events
BY AncestorsDef, DepthNat DEF Root, Depth

LEMMA RootIsRoot ==
    ASSUME NEW into \in Pointers, Rooted(into), NEW e \in Events
    PROVE  /\ Root(into, e) = Ancestors(into)[Cardinality(Absorbed(into))][e]
           /\ into[Root(into, e)] = NoEvent
<1> DEFINE n == Cardinality(Absorbed(into))
           N == Cardinality(Events)
<1>1. n \in Depth /\ N \in Depth /\ N >= n
  BY AbsorbedCount, DepthNat DEF Depth
<1> HIDE DEF n, N
<1>2. into[Ancestors(into)[n][e]] = NoEvent
  BY DEF Rooted, n
<1>3. Ancestors(into)[N][e] = Ancestors(into)[n][e]
  BY <1>1, <1>2, RootsStay
<1> QED
  BY <1>2, <1>3 DEF Root, n, N

LEMMA RootOfRoot ==
    ASSUME NEW into \in Pointers, NEW e \in Events, into[e] = NoEvent
    PROVE  Root(into, e) = e
BY AncestorsDef, DepthNat DEF Root, Depth

LEMMA MergeRoot ==
    ASSUME NEW into \in Pointers, Rooted(into), NEW s \in Events, NEW t \in Events, s # t,
           into[s] = NoEvent, into[t] = NoEvent,
           NEW after \in Pointers, after[s] = t, \A d \in Events : d # s => after[d] = into[d]
    PROVE  /\ Rooted(after)
           /\ \A e \in Events : Root(after, e) = IF Root(into, e) = s THEN t ELSE Root(into, e)
<1> DEFINE n == Cardinality(Absorbed(into))
           N == Cardinality(Events)
<1>1. after[t] = NoEvent /\ t # NoEvent
  BY IngestionAssumption DEF IngestionAssumption
<1>2. Absorbed(after) = Absorbed(into) \cup {s} /\ s \notin Absorbed(into)
  BY <1>1 DEF Absorbed
<1>3. Cardinality(Absorbed(after)) = n + 1
  BY <1>2, AbsorbedCount, FS_AddElement
<1>4. n \in Depth /\ n + 1 \in Depth /\ N \in Depth /\ N >= n + 1
  BY <1>1, <1>3, AbsorbedCount, DepthNat DEF Depth
<1> HIDE DEF n, N
<1>5. ASSUME NEW e \in Events
      PROVE  /\ after[Ancestors(after)[n + 1][e]] = NoEvent
             /\ Ancestors(after)[n + 1][e] = IF Root(into, e) = s THEN t ELSE Root(into, e)
  <2>1. Root(into, e) = Ancestors(into)[n][e] /\ into[Root(into, e)] = NoEvent /\ Root(into, e) \in Events
    BY RootIsRoot, RootType DEF n
  <2>2. /\ Ancestors(into)[n][e] # s => Ancestors(after)[n][e] = Ancestors(into)[n][e]
        /\ Ancestors(into)[n][e] = s => Ancestors(after)[n + 1][e] = t
    BY <1>4, Absorb
  <2>3. CASE Root(into, e) = s
    BY <1>1, <2>1, <2>2, <2>3
  <2>4. CASE Root(into, e) # s
    <3>1. Ancestors(after)[n][e] = Root(into, e) /\ after[Root(into, e)] = NoEvent
      BY <1>1, <2>1, <2>2, <2>4
    <3>2. n + 1 >= n
      BY <1>4, DepthNat DEF Depth
    <3>3. Ancestors(after)[n + 1][e] = Ancestors(after)[n][e]
      <4>1. PICK m \in Depth : m = n + 1
        BY <1>4
      <4>2. m >= n
        BY <3>2, <4>1
      <4>3. after[Ancestors(after)[n][e]] = NoEvent
        BY <3>1
      <4>4. Ancestors(after)[m][e] = Ancestors(after)[n][e]
        BY <1>4, <4>2, <4>3, RootsStay
      <4> QED
        BY <4>1, <4>4
    <3> QED
      BY <2>4, <3>1, <3>3
  <2> QED
    BY <2>3, <2>4
<1>6. Rooted(after)
  BY <1>3, <1>5 DEF Rooted
<1>7. ASSUME NEW e \in Events PROVE Root(after, e) = Ancestors(after)[n + 1][e]
  BY <1>1, <1>3, <1>6, RootIsRoot
<1> QED
  BY <1>1, <1>5, <1>6, <1>7

--------------------------------------------------------------------------------
(* The invariant.  Its parts are stated of the rows they are about, so that   *)
(* what a commit or a merge makes of them are facts about sets.               *)

Same(into, e, f) == Root(into, e) = Root(into, f)

(* The claims of a run are on one event, the one its result names; a row of   *)
(* an older release has no result, but its claim.                             *)
Kept(into, cl, s) ==
    /\ s.result \in StoredIngestionResult \cup {NoResult}
    /\ \E e \in Events : <<s.run, s.record, e>> \in cl
    /\ s.result # NoResult => \A x \in cl : x[1] = s.run => Same(into, s.result.event, x[3])

CreatedIn(s) == IF s.result = NoResult THEN FALSE ELSE s.result.created
ReviewsIn(s) == IF s.result = NoResult THEN {} ELSE s.result.reviews

(* An answer is what the row of its run keeps.                                *)
Told(into, cl, s, a) ==
    /\ s.run = derive_ingestion_run_id(a.sub)
    /\ snapshot_hash_matches(s, a.sub)
    /\ a.result.event \in Events
    /\ \A x \in cl : x[1] = s.run => Same(into, a.result.event, x[3])
    /\ a.result.created = CreatedIn(s)
    /\ a.result.reviews = ReviewsIn(s)

Keys(into, cl, sn, an) ==
    /\ \A s, t \in sn : s.run = t.run => s = t
    /\ \A s \in sn : Kept(into, cl, s)
    /\ \A x \in cl : x[3] \in Events /\ \E s \in sn : s.run = x[1]
    /\ \A x, y \in cl : x[1] = y[1] => Same(into, x[3], y[3])
    /\ \A a \in an : \E s \in sn : Told(into, cl, s, a)

Continuous(into, cl) ==
    \A x, y \in cl : x[1][1] = y[1][1] /\ x[2] = y[2] /\ x[2] # {} => Same(into, x[3], y[3])

(* What the lookup found under the lock of the record is still so.            *)
ClaimedFor(cl, s) == {x \in cl : x[1][1] = s.source /\ x[2] = s.record}

PriorKept(into, cl, t) ==
    /\ t.prior = NoEvent => ClaimedFor(cl, t.sub) = {}
    /\ t.prior # NoEvent =>
          /\ t.sub.event \in {NoEvent, t.prior}
          /\ \A x \in ClaimedFor(cl, t.sub) : Same(into, x[3], t.prior)

Labels == {"idle", "start", "record", "snapshot", "resolve", "write"}
Past(label) == IF label = "record" THEN {"snapshot", "resolve", "write"} ELSE {"resolve", "write"}

Local(t) ==
    /\ DOMAIN t = {"pc", "sub", "fields", "prior", "event", "created", "alias", "against"}
    /\ t.pc \in Labels
    /\ t.pc # "idle" => t.sub \in Submissions
    /\ t.pc = "record" => t.sub.record # {}
    /\ t.prior \in Events \cup {NoEvent}
    /\ t.event \in Events \cup {NoEvent}
    /\ t.created \in BOOLEAN
    /\ t.against \subseteq Events
    /\ t.pc = "write" => /\ t.event \in Events
                         /\ t.sub.record # {} /\ t.prior # NoEvent => t.event = t.prior

Working(q) ==
    /\ Local(txn[q])
    /\ txn[q].pc \in Past("snapshot") =>
          /\ snapshotRow[Run(q)] = q
          /\ \A s \in snapshots : s.run # Run(q)
    /\ txn[q].pc \in Past("record") /\ Sub(q).record # {} =>
          /\ recordLock[RecordOf(Sub(q))] = q
          /\ PriorKept(mergedInto, claims, txn[q])

Tables ==
    /\ workload \in Workloads
    /\ stored \subseteq Events
    /\ mergedInto \in Pointers
    /\ Rooted(mergedInto)
    /\ snapshotRow \in [Runs -> Clients \cup {NoClient}]
    /\ recordLock \in [Records -> Clients \cup {NoClient}]
    /\ DOMAIN txn = Clients

IInv ==
    /\ Tables
    /\ Keys(mergedInto, claims, snapshots, answers)
    /\ Continuous(mergedInto, claims)
    /\ \A q \in Clients : Working(q)

--------------------------------------------------------------------------------
(* Facts about the rows.                                                      *)

LEMMA SameRoot ==
    ASSUME NEW into \in Pointers, Rooted(into), NEW e \in Events
    PROVE  Root(into, e) \in Events /\ Same(into, Root(into, e), e)
BY RootType, RootIsRoot, RootOfRoot DEF Same

LEMMA HoldsOnce == IInv => OnceAndForAll
<1> SUFFICES ASSUME IInv PROVE OnceAndForAll
  OBVIOUS
<1>1. Keys(mergedInto, claims, snapshots, answers)
  BY DEF IInv
<1>2. \A s, t \in snapshots : s.run = t.run => s = t
  BY <1>1 DEF Keys
<1>3. ASSUME NEW a \in answers, NEW b \in answers,
             derive_ingestion_run_id(a.sub) = derive_ingestion_run_id(b.sub)
      PROVE  /\ a.sub.raw = b.sub.raw
             /\ SameEvent(a.result.event, b.result.event)
             /\ a.result.created = b.result.created
             /\ a.result.reviews = b.result.reviews
             /\ \/ SubmissionHash(a.sub) = SubmissionHash(b.sub)
                \/ \E s \in find_by_source_run(derive_ingestion_run_id(a.sub)) : s.legacy
  <2>1. PICK s \in snapshots : Told(mergedInto, claims, s, a)
    BY <1>1 DEF Keys
  <2>2. PICK t \in snapshots : Told(mergedInto, claims, t, b)
    BY <1>1 DEF Keys
  <2>3. s = t
    BY <1>2, <1>3, <2>1, <2>2 DEF Told
  <2>4. PICK e \in Events : <<s.run, s.record, e>> \in claims
    BY <1>1 DEF Keys, Kept
  <2>5. SameEvent(a.result.event, b.result.event)
    <3> DEFINE x == <<s.run, s.record, e>>
    <3>1. x \in claims /\ x[1] = s.run
      BY <2>4
    <3> HIDE DEF x
    <3>2. Same(mergedInto, a.result.event, x[3]) /\ Same(mergedInto, b.result.event, x[3])
      BY <2>1, <2>2, <2>3, <3>1 DEF Told
    <3> QED
      BY <3>2 DEF Same, Root, SameEvent, Canonical
  <2>6. a.result.created = b.result.created /\ a.result.reviews = b.result.reviews
    BY <2>1, <2>2, <2>3 DEF Told
  <2>7. snapshot_hash_matches(s, a.sub) /\ snapshot_hash_matches(s, b.sub) /\ s.run = derive_ingestion_run_id(a.sub)
    BY <2>1, <2>2, <2>3 DEF Told
  <2>8. CASE s.legacy
    <3>1. s \in find_by_source_run(derive_ingestion_run_id(a.sub))
      BY <2>7 DEF find_by_source_run
    <3> QED
      BY <2>5, <2>6, <2>7, <2>8, <3>1 DEF snapshot_hash_matches
  <2>9. CASE ~s.legacy
    <3>1. SubmissionHash(a.sub) = SubmissionHash(b.sub)
      BY <2>7, <2>9 DEF snapshot_hash_matches
    <3> QED
      BY <2>5, <2>6, <3>1 DEF SubmissionHash
  <2> QED
    BY <2>8, <2>9
<1> QED
  BY <1>2, <1>3 DEF OnceAndForAll

LEMMA HoldsContinuity == IInv => RecordContinuity
BY DEF IInv, Continuous, RecordContinuity, Same, Root, SameEvent, Canonical

(* One more answer.                                                           *)
LEMMA AnswerKeys ==
    ASSUME NEW into \in Pointers, Rooted(into), NEW cl, NEW sn, NEW an, Keys(into, cl, sn, an),
           NEW s \in sn, NEW a, Told(into, cl, s, a)
    PROVE  Keys(into, cl, sn, an \cup {a})
BY DEF Keys

LEMMA Replayed ==
    ASSUME IInv, NEW s \in snapshots, NEW sub, s.run = derive_ingestion_run_id(sub),
           snapshot_hash_matches(s, sub)
    PROVE  Told(mergedInto, claims, s, [sub |-> sub, result |-> _result_from_snapshot(s)])
<1>1. Keys(mergedInto, claims, snapshots, answers) /\ mergedInto \in Pointers /\ Rooted(mergedInto)
  BY DEF IInv, Tables
<1>2. Kept(mergedInto, claims, s)
  BY <1>1 DEF Keys
<1> DEFINE r == _result_from_snapshot(s)
<1>3. CASE s.result # NoResult
  <2>1. s.result \in StoredIngestionResult
    BY <1>2, <1>3 DEF Kept
  <2>2. r = [s.result EXCEPT !.event = Root(mergedInto, s.result.event)]
    BY <1>3 DEF _result_from_snapshot, Canonical, Root
  <2>3. s.result.event \in Events /\ r.event = Root(mergedInto, s.result.event)
        /\ r.created = s.result.created /\ r.reviews = s.result.reviews
    BY <2>1, <2>2 DEF StoredIngestionResult
  <2> HIDE DEF r
  <2>4. r.event \in Events /\ Same(mergedInto, r.event, s.result.event)
    BY <1>1, <2>3, SameRoot
  <2>5. \A x \in claims : x[1] = s.run => Same(mergedInto, r.event, x[3])
    BY <1>2, <1>3, <2>4 DEF Kept, Same
  <2>6. Told(mergedInto, claims, s, [sub |-> sub, result |-> r])
    BY <1>3, <2>3, <2>4, <2>5 DEF Told, CreatedIn, ReviewsIn
  <2> QED
    BY <2>6 DEF r
<1>4. CASE s.result = NoResult
  <2> DEFINE e == CHOOSE d \in Events : <<s.run, s.record, d>> \in claims
             x == <<s.run, s.record, e>>
  <2>1. e \in Events /\ x \in claims
    BY <1>2 DEF Kept
  <2>2. r = [event |-> Root(mergedInto, e), created |-> FALSE, reviews |-> {}]
    BY <1>4 DEF _result_from_snapshot, Canonical, Root
  <2>3. x[1] = s.run /\ x[3] = e
    OBVIOUS
  <2> HIDE DEF e, x
  <2>4. r.event = Root(mergedInto, e) /\ r.created = FALSE /\ r.reviews = {}
    BY <2>2
  <2> HIDE DEF r
  <2>5. r.event \in Events /\ Same(mergedInto, r.event, e)
    BY <1>1, <2>1, <2>4, SameRoot
  <2>6. \A y \in claims : y[1] = s.run => Same(mergedInto, r.event, y[3])
    BY <1>1, <2>1, <2>3, <2>5 DEF Keys, Same
  <2>7. Told(mergedInto, claims, s, [sub |-> sub, result |-> r])
    BY <1>4, <2>4, <2>5, <2>6 DEF Told, CreatedIn, ReviewsIn
  <2> QED
    BY <2>7 DEF r
<1> QED
  BY <1>3, <1>4

(* The first use of a key.                                                    *)
LEMMA CommitKeys ==
    ASSUME NEW into \in Pointers, NEW cl, NEW sn, NEW an, Keys(into, cl, sn, an),
           NEW new, new.result \in StoredIngestionResult, \A s \in sn : s.run # new.run,
           new.result # NoResult,
           NEW a, a.result = new.result, new.run = derive_ingestion_run_id(a.sub),
           snapshot_hash_matches(new, a.sub),
           NEW x, x = <<new.run, new.record, new.result.event>>
    PROVE  Keys(into, cl \cup {x}, sn \cup {new}, an \cup {a})
<1> DEFINE cl2 == cl \cup {x}
           sn2 == sn \cup {new}
<1>0. x[1] = new.run /\ x[3] = new.result.event /\ new.result.event \in Events
  BY DEF StoredIngestionResult
<1>1. \A y \in cl : y[1] # new.run
  BY DEF Keys
<1>2. \A s, t \in sn2 : s.run = t.run => s = t
  BY DEF Keys
<1>3. ASSUME NEW s \in sn PROVE Kept(into, cl2, s)
  <2>1. Kept(into, cl, s) /\ s.run # new.run
    BY DEF Keys
  <2> QED
    BY <1>0, <2>1 DEF Kept
<1>4. Kept(into, cl2, new)
  <2>1. \E e \in Events : <<new.run, new.record, e>> \in cl2
    BY <1>0
  <2>2. \A y \in cl2 : y[1] = new.run => Same(into, new.result.event, y[3])
    BY <1>0, <1>1 DEF Same
  <2> QED
    BY <2>1, <2>2 DEF Kept
<1>5. \A y \in cl2 : y[3] \in Events /\ \E s \in sn2 : s.run = y[1]
  BY <1>0 DEF Keys
<1>6. \A y, z \in cl2 : y[1] = z[1] => Same(into, y[3], z[3])
  BY <1>0, <1>1 DEF Keys, Same
<1>7. ASSUME NEW b \in an PROVE \E s \in sn2 : Told(into, cl2, s, b)
  <2>1. PICK s \in sn : Told(into, cl, s, b)
    BY DEF Keys
  <2>2. Told(into, cl2, s, b)
    BY <1>0, <2>1 DEF Told
  <2> QED
    BY <2>2
<1>8. Told(into, cl2, new, a)
  BY <1>0, <1>1 DEF Told, CreatedIn, ReviewsIn, Same
<1> QED
  BY <1>2, <1>3, <1>4, <1>5, <1>6, <1>7, <1>8 DEF Keys

(* A merge of s into t, which copies the claims of s.                         *)
Copied(cl, s, t) == cl \cup {<<x[1], x[2], t>> : x \in {y \in cl : y[3] = s}}

MergesRoots(into, after, s, t) ==
    /\ into[s] = NoEvent
    /\ \A e \in Events : Root(after, e) = IF Root(into, e) = s THEN t ELSE Root(into, e)
    /\ Root(into, s) = s /\ Root(into, t) = t

LEMMA CopiedFrom ==
    ASSUME NEW into \in Pointers, NEW after, NEW s \in Events, NEW t \in Events, MergesRoots(into, after, s, t),
           NEW cl, NEW x \in Copied(cl, s, t), \A y \in cl : y[3] \in Events
    PROVE  \E y \in cl : y[1] = x[1] /\ y[2] = x[2] /\ Same(after, y[3], x[3]) /\ x[3] \in Events
BY DEF Copied, MergesRoots, Same

LEMMA SameAfter ==
    ASSUME NEW into, NEW after, NEW s, NEW t, MergesRoots(into, after, s, t),
           NEW e \in Events, NEW f \in Events, Same(into, e, f)
    PROVE  Same(after, e, f)
BY DEF MergesRoots, Same

LEMMA MergeKeys ==
    ASSUME NEW into \in Pointers, NEW after, NEW s \in Events, NEW t \in Events, MergesRoots(into, after, s, t),
           NEW cl, NEW sn, NEW an, Keys(into, cl, sn, an)
    PROVE  Keys(after, Copied(cl, s, t), sn, an)
<1> DEFINE cl2 == Copied(cl, s, t)
<1>0. (\A y \in cl : y[3] \in Events) /\ cl \subseteq cl2
  BY DEF Keys, Copied
<1>1. \A x \in cl2 : \E y \in cl : y[1] = x[1] /\ y[2] = x[2] /\ Same(after, y[3], x[3]) /\ x[3] \in Events
  BY <1>0, CopiedFrom
<1> HIDE DEF cl2
<1>2. \A r \in sn, q \in sn : r.run = q.run => r = q
  BY DEF Keys
<1>3. ASSUME NEW r \in sn PROVE Kept(after, cl2, r)
  <2>1. Kept(into, cl, r)
    BY DEF Keys
  <2>2. \E e \in Events : <<r.run, r.record, e>> \in cl2
    BY <1>0, <2>1 DEF Kept
  <2>3. ASSUME r.result # NoResult, NEW x \in cl2, x[1] = r.run PROVE Same(after, r.result.event, x[3])
    <3>1. PICK y \in cl : y[1] = x[1] /\ Same(after, y[3], x[3])
      BY <1>1
    <3>2. r.result.event \in Events /\ Same(into, r.result.event, y[3])
      BY <2>1, <2>3, <3>1 DEF Kept, StoredIngestionResult
    <3> QED
      BY <1>0, <3>1, <3>2, SameAfter DEF Same
  <2> QED
    BY <2>1, <2>2, <2>3 DEF Kept
<1>4. \A x \in cl2 : x[3] \in Events /\ \E r \in sn : r.run = x[1]
  BY <1>1 DEF Keys
<1>5. ASSUME NEW x \in cl2, NEW z \in cl2, x[1] = z[1] PROVE Same(after, x[3], z[3])
  <2>1. PICK y \in cl : y[1] = x[1] /\ Same(after, y[3], x[3])
    BY <1>1
  <2>2. PICK w \in cl : w[1] = z[1] /\ Same(after, w[3], z[3])
    BY <1>1
  <2>3. Same(into, y[3], w[3])
    BY <1>5, <2>1, <2>2 DEF Keys
  <2> QED
    BY <1>0, <2>1, <2>2, <2>3, SameAfter DEF Same
<1>6. ASSUME NEW a \in an PROVE \E r \in sn : Told(after, cl2, r, a)
  <2>1. PICK r \in sn : Told(into, cl, r, a)
    BY DEF Keys
  <2>2. ASSUME NEW x \in cl2, x[1] = r.run PROVE Same(after, a.result.event, x[3])
    <3>1. PICK y \in cl : y[1] = x[1] /\ Same(after, y[3], x[3])
      BY <1>1
    <3>2. a.result.event \in Events /\ Same(into, a.result.event, y[3])
      BY <2>1, <2>2, <3>1 DEF Told
    <3> QED
      BY <1>0, <3>1, <3>2, SameAfter DEF Same
  <2>3. Told(after, cl2, r, a)
    BY <2>1, <2>2 DEF Told
  <2> QED
    BY <2>3
<1>7. Keys(after, cl2, sn, an)
  BY <1>2, <1>3, <1>4, <1>5, <1>6 DEF Keys
<1> QED
  BY <1>7 DEF cl2

LEMMA MergeContinuous ==
    ASSUME NEW into \in Pointers, NEW after, NEW s \in Events, NEW t \in Events, MergesRoots(into, after, s, t),
           NEW cl, \A y \in cl : y[3] \in Events, Continuous(into, cl)
    PROVE  Continuous(after, Copied(cl, s, t))
<1> SUFFICES ASSUME NEW x \in Copied(cl, s, t), NEW z \in Copied(cl, s, t),
                    x[1][1] = z[1][1], x[2] = z[2], x[2] # {}
             PROVE  Same(after, x[3], z[3])
  BY DEF Continuous
<1>1. PICK y \in cl : y[1] = x[1] /\ y[2] = x[2] /\ Same(after, y[3], x[3])
  BY CopiedFrom
<1>2. PICK w \in cl : w[1] = z[1] /\ w[2] = z[2] /\ Same(after, w[3], z[3])
  BY CopiedFrom
<1>3. Same(into, y[3], w[3])
  BY <1>1, <1>2 DEF Continuous
<1> QED
  BY <1>1, <1>2, <1>3, SameAfter DEF Same

LEMMA MergePrior ==
    ASSUME NEW into \in Pointers, NEW after, NEW s \in Events, NEW t \in Events, MergesRoots(into, after, s, t),
           NEW cl, \A y \in cl : y[3] \in Events, NEW u, u.prior \in Events \cup {NoEvent}, PriorKept(into, cl, u)
    PROVE  PriorKept(after, Copied(cl, s, t), u)
<1>1. ASSUME NEW x \in ClaimedFor(Copied(cl, s, t), u.sub)
      PROVE  \E y \in ClaimedFor(cl, u.sub) : Same(after, y[3], x[3])
  <2>1. x \in Copied(cl, s, t) /\ x[1][1] = u.sub.source /\ x[2] = u.sub.record
    BY DEF ClaimedFor
  <2>2. PICK y \in cl : y[1] = x[1] /\ y[2] = x[2] /\ Same(after, y[3], x[3])
    BY <2>1, CopiedFrom
  <2> QED
    BY <2>1, <2>2 DEF ClaimedFor
<1>2. u.prior = NoEvent => ClaimedFor(Copied(cl, s, t), u.sub) = {}
  BY <1>1 DEF PriorKept
<1>3. ASSUME u.prior # NoEvent, NEW x \in ClaimedFor(Copied(cl, s, t), u.sub)
      PROVE  Same(after, x[3], u.prior)
  <2>1. PICK y \in ClaimedFor(cl, u.sub) : Same(after, y[3], x[3])
    BY <1>1
  <2>2. Same(into, y[3], u.prior) /\ y[3] \in Events
    BY <1>3 DEF PriorKept, ClaimedFor
  <2> QED
    BY <1>3, <2>1, <2>2, SameAfter DEF Same
<1> QED
  BY <1>2, <1>3 DEF PriorKept

--------------------------------------------------------------------------------
(* The steps of one ingestion.                                                *)

Keeps(q) ==
    /\ \A r \in Runs : snapshotRow[r] = q => snapshotRow'[r] = q
    /\ \A r \in Records : recordLock[r] = q => recordLock'[r] = q

LEMMA KeysOf ==
    ASSUME NEW q \in Clients, Local(txn[q]), txn[q].pc # "idle"
    PROVE  /\ Sub(q) \in Submissions
           /\ Run(q) \in Runs
           /\ Sub(q).record # {} => RecordOf(Sub(q)) \in Records
BY DEF Local, Sub, Run, Runs, Records, RecordOf

LEMMA WorkingFrame ==
    ASSUME NEW q \in Clients, Working(q), txn'[q] = txn[q], Keeps(q),
           txn[q].pc \in Past("snapshot") => \A s \in snapshots' : s.run # Run(q),
           txn[q].pc \in Past("record") /\ Sub(q).record # {} => PriorKept(mergedInto', claims', txn[q])
    PROVE  Working(q)'
<1>1. Sub(q)' = Sub(q) /\ Run(q)' = Run(q)
  BY DEF Sub, Run
<1>2. Local(txn[q])'
  BY DEF Working, Local
<1>3. ASSUME txn[q].pc \in Past("snapshot")
      PROVE  snapshotRow'[Run(q)] = q /\ \A s \in snapshots' : s.run # Run(q)
  <2>1. Run(q) \in Runs
    BY <1>3, KeysOf DEF Working, Past
  <2> QED
    BY <1>3, <2>1 DEF Working, Keeps
<1>4. ASSUME txn[q].pc \in Past("record"), Sub(q).record # {}
      PROVE  recordLock'[RecordOf(Sub(q))] = q /\ PriorKept(mergedInto', claims', txn[q])
  <2>1. RecordOf(Sub(q)) \in Records
    BY <1>4, KeysOf DEF Working, Past
  <2> QED
    BY <1>4, <2>1 DEF Working, Keeps
<1>5. PriorKept(mergedInto, claims, txn[q])' <=> PriorKept(mergedInto', claims', txn[q])
  BY DEF PriorKept
<1>6. RecordOf(Sub(q))' = RecordOf(Sub(q)) /\ (Sub(q).record # {})' = (Sub(q).record # {})
  BY <1>1 DEF RecordOf
<1> QED
  BY <1>1, <1>2, <1>3, <1>4, <1>5, <1>6 DEF Working

(* A step that commits nothing.                                               *)
LEMMA Quiet ==
    ASSUME IInv, NEW c \in Clients,
           UNCHANGED <<stored, mergedInto, claims, snapshots, workload>>,
           Keys(mergedInto, claims, snapshots, answers'),
           snapshotRow' \in [Runs -> Clients \cup {NoClient}],
           recordLock' \in [Records -> Clients \cup {NoClient}],
           DOMAIN txn' = Clients,
           \A q \in Clients \ {c} : txn'[q] = txn[q] /\ Keeps(q),
           Working(c)'
    PROVE  IInv'
<1>1. Tables'
  BY DEF IInv, Tables, Rooted
<1>2. Keys(mergedInto, claims, snapshots, answers)'
  BY DEF Keys, Kept, Told
<1>3. Continuous(mergedInto, claims)'
  BY DEF IInv, Continuous
<1>4. ASSUME NEW q \in Clients \ {c} PROVE Working(q)'
  BY WorkingFrame DEF IInv, Working
<1> QED
  BY <1>1, <1>2, <1>3, <1>4 DEF IInv

LEMMA Unlocked ==
    ASSUME Tables, UNCHANGED <<snapshotRow, recordLock>>
    PROVE  /\ snapshotRow' \in [Runs -> Clients \cup {NoClient}]
           /\ recordLock' \in [Records -> Clients \cup {NoClient}]
           /\ \A q \in Clients : Keeps(q)
BY DEF Tables, Keeps

LEMMA Updated ==
    ASSUME DOMAIN txn = Clients, NEW c \in Clients, NEW t, txn' = [txn EXCEPT ![c] = t]
    PROVE  DOMAIN txn' = Clients /\ txn'[c] = t /\ \A q \in Clients \ {c} : txn'[q] = txn[q]
OBVIOUS

LEMMA IdleLocal == Local(Idle)
BY DEF Idle, Local, Labels

LEMMA Ended ==
    ASSUME Tables, NEW c \in Clients, End(c)
    PROVE  /\ DOMAIN txn' = Clients /\ \A q \in Clients \ {c} : txn'[q] = txn[q] /\ Keeps(q)
           /\ snapshotRow' \in [Runs -> Clients \cup {NoClient}]
           /\ recordLock' \in [Records -> Clients \cup {NoClient}]
           /\ Working(c)'
<1>1. DOMAIN txn' = Clients /\ txn'[c] = Idle /\ \A q \in Clients \ {c} : txn'[q] = txn[q]
  BY Updated DEF Tables, End
<1>2. DOMAIN snapshotRow = Runs /\ DOMAIN recordLock = Records
  BY DEF Tables
<1>3. /\ snapshotRow' \in [Runs -> Clients \cup {NoClient}]
      /\ recordLock' \in [Records -> Clients \cup {NoClient}]
  BY <1>2 DEF Tables, End, Freed
<1>4. ASSUME NEW q \in Clients \ {c} PROVE Keeps(q)
  BY <1>2 DEF Keeps, End, Freed
<1>5. Working(c)'
  BY <1>1, IdleLocal DEF Working, Past, Idle, Local
<1> QED
  BY <1>1, <1>3, <1>4, <1>5

LEMMA EndQuietly ==
    ASSUME IInv, NEW c \in Clients, End(c),
           UNCHANGED <<stored, mergedInto, claims, snapshots, workload>>,
           Keys(mergedInto, claims, snapshots, answers')
    PROVE  IInv'
<1>1. Tables
  BY DEF IInv
<1> QED
  BY <1>1, Ended, Quiet

LEMMA AnswerStep ==
    ASSUME IInv, NEW sub, NEW s \in find_by_source_run(derive_ingestion_run_id(sub)), AnswerFrom(s, sub)
    PROVE  Keys(mergedInto, claims, snapshots, answers')
<1>1. Keys(mergedInto, claims, snapshots, answers) /\ mergedInto \in Pointers /\ Rooted(mergedInto)
  BY DEF IInv, Tables
<1>2. s \in snapshots /\ s.run = derive_ingestion_run_id(sub)
  BY DEF find_by_source_run
<1>3. CASE snapshot_hash_matches(s, sub)
  <2> DEFINE a == [sub |-> sub, result |-> _result_from_snapshot(s)]
  <2>1. Told(mergedInto, claims, s, a)
    BY <1>2, <1>3, Replayed
  <2>2. answers' = answers \cup {a}
    BY <1>3 DEF AnswerFrom, Answer
  <2> HIDE DEF a
  <2> QED
    BY <1>1, <1>2, <2>1, <2>2, AnswerKeys
<1>4. CASE ~snapshot_hash_matches(s, sub)
  BY <1>1, <1>4 DEF AnswerFrom
<1> QED
  BY <1>3, <1>4

LEMMA DoReplay ==
    ASSUME IInv, NEW c \in Clients, NEW s, ReplayEarly(c, s)
    PROVE  IInv'
<1>1. UNCHANGED <<stored, mergedInto, claims, snapshots, workload, snapshotRow, recordLock, txn>>
  BY DEF ReplayEarly, eventVars, keyVars, lockVars
<1>2. Keys(mergedInto, claims, snapshots, answers')
  BY AnswerStep DEF ReplayEarly
<1>3. Tables /\ \A q \in Clients : Working(q)
  BY DEF IInv
<1>4. Working(c)'
  <2>1. txn'[c] = txn[c] /\ txn[c].pc = "idle" /\ Local(txn[c])
    BY <1>1, <1>3 DEF Working, ReplayEarly, At
  <2> QED
    BY <2>1 DEF Working, Past, Local
<1> QED
  BY <1>1, <1>2, <1>3, <1>4, Unlocked, Quiet DEF Tables

(* A step inside the transaction.                                             *)
LEMMA Inside ==
    ASSUME IInv, NEW c \in Clients, NEW t, txn' = [txn EXCEPT ![c] = t],
           UNCHANGED <<stored, mergedInto, claims, snapshots, workload, answers>>,
           UNCHANGED <<snapshotRow, recordLock>>,
           Local(t),
           t.pc \in Past("snapshot") =>
              snapshotRow[derive_ingestion_run_id(t.sub)] = c /\ \A s \in snapshots : s.run # derive_ingestion_run_id(t.sub),
           t.pc \in Past("record") /\ t.sub.record # {} =>
              recordLock[RecordOf(t.sub)] = c /\ PriorKept(mergedInto, claims, t)
    PROVE  IInv'
<1>1. Tables /\ Keys(mergedInto, claims, snapshots, answers)
  BY DEF IInv
<1>2. DOMAIN txn' = Clients /\ txn'[c] = t /\ \A q \in Clients \ {c} : txn'[q] = txn[q]
  BY <1>1, Updated DEF Tables
<1>3. Working(c)'
  <2>1. Sub(c)' = t.sub /\ Run(c)' = derive_ingestion_run_id(t.sub) /\ RecordOf(Sub(c))' = RecordOf(t.sub)
    BY <1>2 DEF Sub, Run, derive_ingestion_run_id, RecordOf
  <2>2. Local(txn[c])'
    BY <1>2 DEF Local
  <2>3. t.pc \in Past("record") /\ t.sub.record # {} => PriorKept(mergedInto, claims, txn[c])'
    BY <1>2 DEF PriorKept
  <2> QED
    BY <1>2, <2>1, <2>2, <2>3 DEF Working
<1> QED
  BY <1>1, <1>2, <1>3, Unlocked, Quiet

LEMMA DoSubmit ==
    ASSUME IInv, NEW c \in Clients, NEW s \in Submissions, Submit(c, s)
    PROVE  IInv'
<1> DEFINE t == [Idle EXCEPT !.pc = "start", !.sub = s, !.fields = NormalisedFields(s)]
<1>1. txn' = [txn EXCEPT ![c] = t]
  BY DEF Submit
<1>2. UNCHANGED <<stored, mergedInto, claims, snapshots, workload, answers, snapshotRow, recordLock>>
  BY DEF Submit, eventVars, keyVars, lockVars
<1>3. Local(t) /\ t.pc = "start"
  BY DEF Local, Idle, Labels
<1> HIDE DEF t
<1> QED
  BY <1>1, <1>2, <1>3, Inside DEF Past

LEMMA DoStart ==
    ASSUME IInv, NEW c \in Clients, ensure_started(c)
    PROVE  IInv'
<1> DEFINE l == IF Sub(c).record = {} THEN "snapshot" ELSE "record"
           t == [txn[c] EXCEPT !.pc = l]
<1>0. Local(txn[c]) /\ DOMAIN txn = Clients /\ txn[c].pc = "start"
  BY DEF IInv, Working, Tables, ensure_started, At
<1>1. txn' = [txn EXCEPT ![c] = t]
  BY <1>0 DEF ensure_started
<1>2. UNCHANGED <<stored, mergedInto, claims, snapshots, workload, answers, snapshotRow, recordLock>>
  BY DEF ensure_started, eventVars, keyVars
<1>3. t.pc = l /\ t.sub = txn[c].sub
  BY <1>0 DEF Local
<1>4. Local(t)
  BY <1>0, <1>3 DEF Local, Labels, Sub
<1>5. t.pc \notin Past("snapshot") /\ ~(t.pc \in Past("record") /\ t.sub.record # {})
  BY <1>3 DEF Past, Sub
<1> HIDE DEF t
<1> QED
  BY <1>1, <1>2, <1>4, <1>5, Inside

LEMMA PriorFound ==
    ASSUME IInv, NEW sub \in Submissions, sub.record # {}, NEW prior \in PriorEvents(sub)
    PROVE  /\ prior \in Events \cup {NoEvent}
           /\ prior = NoEvent => ClaimedFor(claims, sub) = {}
           /\ prior # NoEvent => \A x \in ClaimedFor(claims, sub) : Same(mergedInto, x[3], prior)
<1>0. /\ mergedInto \in Pointers /\ Rooted(mergedInto) /\ Continuous(mergedInto, claims)
      /\ \A x \in claims : x[3] \in Events
  BY DEF IInv, Tables, Keys
<1>1. RecordEvents(sub) = {x[3] : x \in ClaimedFor(claims, sub)}
  BY DEF RecordEvents, RecordOf, ClaimedFor
<1>2. CASE RecordEvents(sub) = {}
  BY <1>1, <1>2 DEF PriorEvents
<1>3. CASE RecordEvents(sub) # {}
  <2>1. PICK e \in RecordEvents(sub) : prior = Canonical(e)
    BY <1>3 DEF PriorEvents
  <2>2. PICK y \in ClaimedFor(claims, sub) : e = y[3]
    BY <1>1
  <2>3. e \in Events /\ prior = Root(mergedInto, e)
    BY <1>0, <2>1, <2>2 DEF ClaimedFor, Canonical, Root
  <2>4. prior \in Events /\ Same(mergedInto, prior, e)
    BY <1>0, <2>3, SameRoot
  <2>5. ASSUME NEW x \in ClaimedFor(claims, sub) PROVE Same(mergedInto, x[3], prior)
    <3>1. Same(mergedInto, x[3], y[3])
      BY <1>0, <2>2 DEF ClaimedFor, Continuous
    <3> QED
      BY <2>2, <2>4, <3>1 DEF Same
  <2>6. prior # NoEvent
    BY <2>4, IngestionAssumption DEF IngestionAssumption
  <2> QED
    BY <2>4, <2>5, <2>6
<1> QED
  BY <1>2, <1>3

LEMMA DoRecord ==
    ASSUME IInv, NEW c \in Clients, ResolveRecord(c)
    PROVE  IInv'
<1>0. /\ Local(txn[c]) /\ Tables /\ DOMAIN txn = Clients /\ txn[c].pc = "record"
      /\ Keys(mergedInto, claims, snapshots, answers)
  BY DEF IInv, Working, Tables, ResolveRecord, At
<1>1. UNCHANGED <<stored, mergedInto, claims, snapshots, workload, answers>>
  BY DEF ResolveRecord, eventVars, keyVars
<1>2. Keys(mergedInto, claims, snapshots, answers')
  BY <1>0, <1>1
<1>3. Sub(c) \in Submissions /\ Sub(c).record # {} /\ RecordOf(Sub(c)) \in Records
  BY <1>0, KeysOf DEF Local, Sub
<1>4. CASE End(c)
  BY <1>1, <1>2, <1>4, EndQuietly
<1>5. ASSUME NEW prior \in PriorEvents(Sub(c)),
             ~(prior # NoEvent /\ Sub(c).event \notin {NoEvent, prior}),
             txn' = [txn EXCEPT ![c].pc = "snapshot", ![c].prior = prior],
             recordLock' = [recordLock EXCEPT ![RecordOf(Sub(c))] = c],
             UNCHANGED <<runRow, snapshotRow, identityLock>>
      PROVE  IInv'
  <2> DEFINE t == [txn[c] EXCEPT !.pc = "snapshot", !.prior = prior]
  <2>1. /\ prior \in Events \cup {NoEvent}
        /\ prior = NoEvent => ClaimedFor(claims, Sub(c)) = {}
        /\ prior # NoEvent => \A x \in ClaimedFor(claims, Sub(c)) : Same(mergedInto, x[3], prior)
    BY <1>3, PriorFound
  <2>2. DOMAIN txn' = Clients /\ txn'[c] = t /\ \A q \in Clients \ {c} : txn'[q] = txn[q]
    BY <1>0, <1>5
  <2>3. t.pc = "snapshot" /\ t.sub = Sub(c) /\ t.prior = prior
    BY <1>0 DEF Local, Sub
  <2>4. Local(t)
    BY <1>0, <2>1, <2>3 DEF Local, Labels
  <2>5. PriorKept(mergedInto, claims, t)
    BY <1>5, <2>1, <2>3 DEF PriorKept
  <2> HIDE DEF t
  <2>6. recordLock[RecordOf(Sub(c))] = NoClient
    BY DEF ResolveRecord, LockRecord
  <2>7. /\ recordLock' \in [Records -> Clients \cup {NoClient}]
        /\ recordLock'[RecordOf(Sub(c))] = c
    BY <1>0, <1>3, <1>5 DEF Tables
  <2>8. snapshotRow' \in [Runs -> Clients \cup {NoClient}]
    BY <1>0, <1>5 DEF Tables
  <2>9. ASSUME NEW q \in Clients \ {c} PROVE Keeps(q)
    BY <1>0, <1>3, <1>5, <2>6, IngestionAssumption DEF IngestionAssumption, Tables, Keeps
  <2>10. Working(c)'
    <3>1. Sub(c)' = Sub(c) /\ RecordOf(Sub(c))' = RecordOf(Sub(c))
      BY <2>2, <2>3 DEF Sub, RecordOf
    <3>2. Local(txn[c])' /\ PriorKept(mergedInto, claims, txn[c])'
      BY <1>1, <2>2, <2>4, <2>5 DEF Local, PriorKept
    <3> QED
      BY <2>2, <2>3, <2>7, <3>1, <3>2 DEF Working, Past
  <2> QED
    BY <1>1, <1>2, <2>2, <2>7, <2>8, <2>9, <2>10, Quiet
<1> QED
  BY <1>4, <1>5 DEF ResolveRecord

LEMMA DoSnapshot ==
    ASSUME IInv, NEW c \in Clients, InsertSnapshot(c)
    PROVE  IInv'
<1>0. /\ Local(txn[c]) /\ Tables /\ DOMAIN txn = Clients /\ txn[c].pc = "snapshot" /\ Working(c)
      /\ Keys(mergedInto, claims, snapshots, answers)
  BY DEF IInv, Working, Tables, InsertSnapshot, At
<1>1. UNCHANGED <<stored, mergedInto, claims, snapshots, workload>>
  BY DEF InsertSnapshot, eventVars, keyVars
<1>2. Run(c) \in Runs /\ snapshotRow[Run(c)] = NoClient
  BY <1>0, KeysOf DEF InsertSnapshot, try_add_unique
<1>3. CASE find_by_source_run(Run(c)) # {}
  <2>1. PICK s \in find_by_source_run(Run(c)) : AnswerFrom(s, Sub(c))
    BY <1>3 DEF InsertSnapshot, try_add_unique
  <2>2. End(c)
    BY <1>3 DEF InsertSnapshot, try_add_unique
  <2>3. Keys(mergedInto, claims, snapshots, answers')
    BY <2>1, AnswerStep DEF Run
  <2> QED
    BY <1>1, <2>2, <2>3, EndQuietly
<1>4. CASE find_by_source_run(Run(c)) = {}
  <2> DEFINE t == [txn[c] EXCEPT !.pc = "resolve"]
  <2>1. /\ txn' = [txn EXCEPT ![c].pc = "resolve"]
        /\ snapshotRow' = [snapshotRow EXCEPT ![Run(c)] = c]
        /\ UNCHANGED <<recordLock, answers>>
    BY <1>4 DEF InsertSnapshot, try_add_unique
  <2>2. DOMAIN txn' = Clients /\ txn'[c] = t /\ \A q \in Clients \ {c} : txn'[q] = txn[q]
    BY <1>0, <2>1
  <2>3. t.pc = "resolve" /\ t.sub = Sub(c) /\ t.prior = txn[c].prior
    BY <1>0 DEF Local, Sub
  <2>4. Local(t)
    BY <1>0, <2>3 DEF Local, Labels
  <2> HIDE DEF t
  <2>5. snapshotRow' \in [Runs -> Clients \cup {NoClient}] /\ snapshotRow'[Run(c)] = c
    BY <1>0, <1>2, <2>1 DEF Tables
  <2>6. recordLock' \in [Records -> Clients \cup {NoClient}]
    BY <1>0, <2>1 DEF Tables
  <2>7. ASSUME NEW q \in Clients \ {c} PROVE Keeps(q)
    BY <1>0, <1>2, <2>1, IngestionAssumption DEF IngestionAssumption, Tables, Keeps
  <2>8. \A s \in snapshots : s.run # Run(c)
    BY <1>4 DEF find_by_source_run
  <2>9. Working(c)'
    <3>1. Sub(c)' = Sub(c) /\ Run(c)' = Run(c) /\ RecordOf(Sub(c))' = RecordOf(Sub(c))
      BY <2>2, <2>3 DEF Sub, Run, derive_ingestion_run_id, RecordOf
    <3>2. Local(txn[c])'
      BY <2>2, <2>4 DEF Local
    <3>3. Sub(c).record # {} =>
             recordLock'[RecordOf(Sub(c))] = c /\ PriorKept(mergedInto, claims, txn[c])'
      BY <1>0, <1>1, <2>1, <2>2, <2>3 DEF Working, Past, PriorKept, Sub
    <3>4. (\A s \in snapshots : s.run # Run(c))'
      BY <1>1, <2>8, <3>1
    <3> QED
      BY <2>2, <2>3, <2>5, <3>1, <3>2, <3>3, <3>4 DEF Working, Past
  <2>10. Keys(mergedInto, claims, snapshots, answers')
    BY <1>0, <2>1
  <2> QED
    BY <1>1, <2>2, <2>5, <2>6, <2>7, <2>9, <2>10, Quiet
<1> QED
  BY <1>3, <1>4

(* The transaction has chosen its event.                                      *)
Resolved(c, t) ==
    /\ txn' = [txn EXCEPT ![c] = t]
    /\ DOMAIN t = DOMAIN txn[c]
    /\ t.pc = "write" /\ t.sub = txn[c].sub /\ t.prior = txn[c].prior
    /\ t.event \in Events /\ t.created \in BOOLEAN /\ t.against \subseteq Events

LEMMA CreateResolves ==
    ASSUME NEW c \in Clients, DOMAIN txn = Clients, Local(txn[c]), NEW against \in SUBSET Events,
           CreateEvent(c, against)
    PROVE  \E t : Resolved(c, t)
<1>1. PICK e \in Events : txn' = [txn EXCEPT ![c].pc = "write", ![c].event = e, ![c].created = TRUE,
                                             ![c].against = against]
  BY DEF CreateEvent, FreshEvent
<1> DEFINE t == [txn[c] EXCEPT !.pc = "write", !.event = e, !.created = TRUE, !.against = against]
<1>2. txn' = [txn EXCEPT ![c] = t]
  BY <1>1
<1>3. /\ DOMAIN t = DOMAIN txn[c] /\ t.pc = "write" /\ t.sub = txn[c].sub /\ t.prior = txn[c].prior
      /\ t.event = e /\ t.created = TRUE /\ t.against = against
  BY DEF Local
<1> HIDE DEF t
<1>4. Resolved(c, t)
  BY <1>2, <1>3 DEF Resolved
<1> QED
  BY <1>4

LEMMA ResolveToResolves ==
    ASSUME NEW c \in Clients, DOMAIN txn = Clients, Local(txn[c]), NEW e \in Events, ResolveTo(c, e)
    PROVE  \E t : Resolved(c, t) /\ t.event = e
<1> DEFINE t == [txn[c] EXCEPT !.pc = "write", !.event = e]
<1>1. txn' = [txn EXCEPT ![c] = t]
  BY DEF ResolveTo
<1>2. /\ DOMAIN t = DOMAIN txn[c] /\ t.pc = "write" /\ t.sub = txn[c].sub /\ t.prior = txn[c].prior
      /\ t.event = e /\ t.created = txn[c].created /\ t.against = txn[c].against
  BY DEF Local
<1> HIDE DEF t
<1>3. Resolved(c, t)
  BY <1>1, <1>2 DEF Resolved, Local
<1> QED
  BY <1>2, <1>3

LEMMA CanonicalType ==
    ASSUME Tables, NEW e \in Events
    PROVE  Canonical(e) \in Events
BY RootType DEF Tables, Canonical, Root

LEMMA MatchResolves ==
    ASSUME Tables, NEW c \in Clients, Local(txn[c]), MatchOrCreate(c)
    PROVE  \E t : Resolved(c, t)
<1> DEFINE incoming == IdentityEntry(c)
           key == IdentityKey(c)
<1>0. DOMAIN txn = Clients /\ stored \subseteq Events
  BY DEF Tables
<1>1. PICK near \in find_candidates(key[1]),
           same \in (IF key[2] = NoMark THEN {{}} ELSE find_by_registration(key[2], key[1])) :
          LET decision == decide(incoming, entry, near \cup same) IN
          \/ /\ decision.action = "attach"
             /\ \E e \in decision.events :
                   txn' = [txn EXCEPT ![c].pc = "write", ![c].event = Canonical(e),
                                      ![c].alias = Merged(e)]
          \/ /\ decision.action = "review"
             /\ \E against \in ReviewedEvents(decision.events) : CreateEvent(c, against)
          \/ /\ decision.action = "new"
             /\ CreateEvent(c, {})
  BY DEF MatchOrCreate
<1>2. near \subseteq Events
  <2>1. near \subseteq stored
    BY DEF find_candidates, FirstRows, WithinADay
  <2> QED
    BY <1>0, <2>1
<1>3. same \subseteq Events
  <2>1. same \subseteq stored
    BY DEF find_by_registration, RegistrationRows, FirstRows, WithinADay
  <2> QED
    BY <1>0, <2>1
<1> DEFINE decision == decide(incoming, entry, near \cup same)
<1>4. decision.events \subseteq Events
  <2>1. decision.events = best_match(incoming, entry, near \cup same)
    BY DEF decide
  <2> HIDE DEF decision
  <2> QED
    BY <1>2, <1>3, <2>1 DEF best_match
<1>5. \/ \E e \in decision.events :
            txn' = [txn EXCEPT ![c].pc = "write", ![c].event = Canonical(e), ![c].alias = Merged(e)]
      \/ \E against \in ReviewedEvents(decision.events) : CreateEvent(c, against)
      \/ CreateEvent(c, {})
  <2> HIDE DEF incoming
  <2> QED
    BY <1>1
<1> HIDE DEF decision
<1>6. ASSUME NEW e \in decision.events,
             txn' = [txn EXCEPT ![c].pc = "write", ![c].event = Canonical(e), ![c].alias = Merged(e)]
      PROVE  \E t : Resolved(c, t)
  <2> DEFINE t == [txn[c] EXCEPT !.pc = "write", !.event = Canonical(e), !.alias = Merged(e)]
  <2>1. txn' = [txn EXCEPT ![c] = t]
    BY <1>6
  <2>2. /\ DOMAIN t = DOMAIN txn[c] /\ t.pc = "write" /\ t.sub = txn[c].sub /\ t.prior = txn[c].prior
        /\ t.event = Canonical(e) /\ t.created = txn[c].created /\ t.against = txn[c].against
    BY DEF Local
  <2> HIDE DEF t
  <2>3. Canonical(e) \in Events
    BY <1>4, CanonicalType
  <2>4. Resolved(c, t)
    BY <2>1, <2>2, <2>3 DEF Resolved, Local
  <2> QED
    BY <2>4
<1>7. ASSUME NEW against \in ReviewedEvents(decision.events) PROVE against \in SUBSET Events
  <2>1. against \subseteq {Canonical(e) : e \in decision.events}
    BY DEF ReviewedEvents
  <2>2. \A e \in decision.events : Canonical(e) \in Events
    BY <1>4, CanonicalType
  <2> QED
    BY <2>1, <2>2
<1> QED
  BY <1>0, <1>5, <1>6, <1>7, CreateResolves

LEMMA DoResolve ==
    ASSUME IInv, NEW c \in Clients, ResolveEvent(c)
    PROVE  IInv'
<1>0. /\ Local(txn[c]) /\ Tables /\ DOMAIN txn = Clients /\ txn[c].pc = "resolve" /\ Working(c)
  BY DEF IInv, Working, Tables, ResolveEvent, At
<1>1. UNCHANGED <<stored, mergedInto, claims, snapshots, workload, answers, snapshotRow, recordLock>>
  BY DEF ResolveEvent, eventVars, keyVars
<1>2. /\ snapshotRow[Run(c)] = c /\ \A s \in snapshots : s.run # Run(c)
      /\ Sub(c).record # {} => recordLock[RecordOf(Sub(c))] = c /\ PriorKept(mergedInto, claims, txn[c])
      /\ Sub(c).event \in Events \cup {NoEvent} /\ txn[c].prior \in Events \cup {NoEvent}
  <2>1. Sub(c) \in Submissions
    BY <1>0, KeysOf
  <2> QED
    BY <1>0, <2>1, IngestionAssumption DEF IngestionAssumption, Working, Past, Local
<1>3. \E t : Resolved(c, t) /\ (Sub(c).record # {} /\ txn[c].prior # NoEvent => t.event = txn[c].prior)
  <2>1. CASE Sub(c).event # NoEvent /\ txn[c].prior = NoEvent
    <3>1. ResolveTo(c, Sub(c).event)
      BY <2>1 DEF ResolveEvent
    <3> QED
      BY <1>0, <1>2, <2>1, <3>1, ResolveToResolves
  <2>2. CASE Sub(c).event # NoEvent /\ txn[c].prior # NoEvent
    <3>1. ResolveTo(c, Sub(c).event)
      BY <2>2 DEF ResolveEvent
    <3>2. Sub(c).record # {} => Sub(c).event = txn[c].prior
      BY <1>2, <2>2 DEF PriorKept, Sub
    <3>3. PICK t : Resolved(c, t) /\ t.event = Sub(c).event
      BY <1>0, <1>2, <2>2, <3>1, ResolveToResolves
    <3> QED
      BY <3>2, <3>3
  <2>3. CASE Sub(c).event = NoEvent /\ txn[c].prior # NoEvent
    <3>1. ResolveTo(c, txn[c].prior)
      BY <2>3 DEF ResolveEvent
    <3> QED
      BY <1>0, <1>2, <2>3, <3>1, ResolveToResolves
  <2>4. CASE Sub(c).event = NoEvent /\ txn[c].prior = NoEvent
    <3>1. CreateEvent(c, {}) \/ MatchOrCreate(c)
      BY <2>4 DEF ResolveEvent
    <3>2. \E t : Resolved(c, t)
      BY <1>0, <3>1, CreateResolves, MatchResolves
    <3> QED
      BY <2>4, <3>2
  <2> QED
    BY <2>1, <2>2, <2>3, <2>4
<1>4. PICK t : Resolved(c, t) /\ (Sub(c).record # {} /\ txn[c].prior # NoEvent => t.event = txn[c].prior)
  BY <1>3
<1>5. Local(t)
  BY <1>0, <1>4 DEF Resolved, Local, Labels, Sub
<1>6. Sub(c).record # {} => PriorKept(mergedInto, claims, t)
  BY <1>2, <1>4 DEF PriorKept, Resolved
<1> QED
  BY <1>1, <1>2, <1>4, <1>5, <1>6, Inside DEF Resolved, Sub, Run, Past

LEMMA DoCommit ==
    ASSUME IInv, NEW c \in Clients, CommitIngestion(c)
    PROVE  IInv'
<1> DEFINE e == txn[c].event
           new == NewSnapshot(c)
           a == [sub |-> Sub(c), result |-> IngestionResult(c)]
           x == <<Run(c), Sub(c).record, e>>
<1>0. /\ Local(txn[c]) /\ Tables /\ txn[c].pc = "write" /\ Working(c)
      /\ Keys(mergedInto, claims, snapshots, answers) /\ Continuous(mergedInto, claims)
      /\ \A q \in Clients : Working(q)
  BY DEF IInv, Working, CommitIngestion, At
<1>1. /\ stored' = stored \cup {e} /\ claims' = claims \cup {x}
      /\ snapshots' = snapshots \cup {new} /\ answers' = answers \cup {a}
      /\ UNCHANGED <<mergedInto, workload>> /\ End(c)
  BY DEF CommitIngestion, Answer
<1>2. e \in Events /\ txn[c].created \in BOOLEAN /\ txn[c].against \subseteq Events
      /\ (Sub(c).record # {} /\ txn[c].prior # NoEvent => e = txn[c].prior)
  BY <1>0 DEF Local, Sub
<1>3. IngestionResult(c) \in StoredIngestionResult /\ IngestionResult(c) # NoResult /\ IngestionResult(c).event = e
  <2>1. {{d, txn[c].event} : d \in txn[c].against} \in SUBSET SUBSET Events
    BY <1>2
  <2>2. IngestionResult(c) \in StoredIngestionResult
    BY <1>2, <2>1 DEF IngestionResult, StoredIngestionResult
  <2>3. IngestionResult(c).event = e
    BY DEF IngestionResult
  <2> QED
    BY <2>2, <2>3, IngestionAssumption DEF IngestionAssumption
<1>4. /\ new.result = IngestionResult(c) /\ new.run = Run(c) /\ new.record = Sub(c).record
      /\ new.legacy = FALSE /\ new.hash = SubmissionHash(Sub(c))
  BY DEF NewSnapshot
<1>5. a.result = IngestionResult(c) /\ a.sub = Sub(c) /\ Run(c) = derive_ingestion_run_id(Sub(c))
  BY DEF Run
<1>6. x = <<new.run, new.record, new.result.event>> /\ x[1] = Run(c) /\ x[2] = Sub(c).record /\ x[3] = e
  BY <1>3, <1>4
<1>7. x[1][1] = Sub(c).source
  BY <1>5, <1>6 DEF derive_ingestion_run_id
<1> HIDE DEF new, a, x, e
<1>8. Keys(mergedInto, claims, snapshots, answers)'
  <2>1. \A s \in snapshots : s.run # new.run
    BY <1>0, <1>4 DEF Working, Past
  <2>2. snapshot_hash_matches(new, a.sub)
    BY <1>4, <1>5 DEF snapshot_hash_matches
  <2>3. mergedInto \in Pointers
    BY <1>0 DEF Tables
  <2>4. Keys(mergedInto, claims \cup {x}, snapshots \cup {new}, answers \cup {a})
    BY <1>0, <1>3, <1>4, <1>5, <1>6, <2>1, <2>2, <2>3, CommitKeys
  <2> QED
    BY <1>1, <2>4 DEF Keys, Kept, Told
<1>9. Continuous(mergedInto, claims)'
  <2>1. ASSUME NEW y \in claims, y[1][1] = x[1][1], y[2] = x[2], x[2] # {}
        PROVE  Same(mergedInto, y[3], x[3])
    <3>1. y \in ClaimedFor(claims, Sub(c))
      BY <1>6, <1>7, <2>1 DEF ClaimedFor
    <3>2. PriorKept(mergedInto, claims, txn[c])
      BY <1>0, <1>6, <2>1 DEF Working, Past
    <3>3. txn[c].prior # NoEvent /\ Same(mergedInto, y[3], txn[c].prior)
      BY <3>1, <3>2 DEF PriorKept, Sub
    <3> QED
      BY <1>2, <1>6, <2>1, <3>3
  <2>2. Continuous(mergedInto, claims \cup {x})
    BY <1>0, <2>1 DEF Continuous, Same
  <2> QED
    BY <1>1, <2>2 DEF Continuous
<1>10. /\ DOMAIN txn' = Clients /\ \A q \in Clients \ {c} : txn'[q] = txn[q] /\ Keeps(q)
       /\ snapshotRow' \in [Runs -> Clients \cup {NoClient}]
       /\ recordLock' \in [Records -> Clients \cup {NoClient}]
       /\ Working(c)'
  BY <1>0, <1>1, Ended
<1>11. Tables'
  BY <1>0, <1>1, <1>2, <1>10 DEF Tables, Rooted
<1>12. ASSUME NEW q \in Clients \ {c} PROVE Working(q)'
  <2>1. ASSUME txn[q].pc \in Past("snapshot") PROVE \A s \in snapshots' : s.run # Run(q)
    <3>1. snapshotRow[Run(q)] = q /\ snapshotRow[Run(c)] = c /\ \A s \in snapshots : s.run # Run(q)
      BY <1>0, <2>1 DEF Working, Past
    <3> QED
      BY <1>1, <1>4, <3>1
  <2>2. ASSUME txn[q].pc \in Past("record"), Sub(q).record # {}
        PROVE  PriorKept(mergedInto', claims', txn[q])
    <3>1. recordLock[RecordOf(Sub(q))] = q /\ PriorKept(mergedInto, claims, txn[q])
      BY <1>0, <2>2 DEF Working
    <3>2. Sub(c).record # {} => recordLock[RecordOf(Sub(c))] = c
      BY <1>0 DEF Working, Past
    <3>3. ~(x[1][1] = Sub(q).source /\ x[2] = Sub(q).record)
      BY <1>6, <1>7, <2>2, <3>1, <3>2 DEF RecordOf
    <3>4. ClaimedFor(claims', txn[q].sub) = ClaimedFor(claims, txn[q].sub)
      BY <1>1, <3>3 DEF ClaimedFor, Sub
    <3> QED
      BY <1>1, <3>1, <3>4 DEF PriorKept
  <2> QED
    BY <1>0, <1>10, <2>1, <2>2, WorkingFrame
<1> QED
  BY <1>8, <1>9, <1>10, <1>11, <1>12 DEF IInv

LEMMA DoEnd ==
    ASSUME IInv, NEW c \in Clients, RefuseMerged(c) \/ Rollback(c)
    PROVE  IInv'
<1>1. End(c) /\ UNCHANGED <<stored, mergedInto, claims, snapshots, workload, answers>>
  BY DEF RefuseMerged, Rollback, eventVars, keyVars
<1>2. Keys(mergedInto, claims, snapshots, answers')
  BY <1>1 DEF IInv
<1> QED
  BY <1>1, <1>2, EndQuietly

LEMMA DoMerge ==
    ASSUME IInv, NEW s \in Events, NEW t \in Events, Merge(s, t)
    PROVE  IInv'
<1>0. /\ Tables /\ Keys(mergedInto, claims, snapshots, answers) /\ Continuous(mergedInto, claims)
      /\ \A q \in Clients : Working(q)
      /\ mergedInto \in Pointers /\ Rooted(mergedInto)
  BY DEF IInv, Tables
<1>1. /\ s # t /\ mergedInto[s] = NoEvent /\ mergedInto[t] = NoEvent
      /\ mergedInto' = [mergedInto EXCEPT ![s] = t]
      /\ claims' = Copied(claims, s, t)
      /\ UNCHANGED <<stored, snapshots, workload, answers, snapshotRow, recordLock, txn>>
  BY DEF Merge, Merged, Copied, keyVars, lockVars
<1>2. /\ mergedInto' \in Pointers /\ mergedInto'[s] = t
      /\ \A d \in Events : d # s => mergedInto'[d] = mergedInto[d]
  BY <1>0, <1>1 DEF Pointers
<1>3. Rooted(mergedInto') /\ MergesRoots(mergedInto, mergedInto', s, t)
  <2>1. s # t /\ mergedInto[s] = NoEvent /\ mergedInto[t] = NoEvent
    BY <1>1
  <2>2. PICK after \in Pointers : after = mergedInto'
    BY <1>2
  <2>3. after[s] = t /\ \A d \in Events : d # s => after[d] = mergedInto[d]
    BY <1>2, <2>2
  <2>4. /\ Rooted(after)
        /\ \A e \in Events : Root(after, e) = IF Root(mergedInto, e) = s THEN t ELSE Root(mergedInto, e)
    BY <1>0, <2>1, <2>3, MergeRoot
  <2>5. Root(mergedInto, s) = s /\ Root(mergedInto, t) = t
    BY <1>0, <2>1, RootOfRoot
  <2>6. Rooted(after) /\ MergesRoots(mergedInto, after, s, t)
    BY <2>1, <2>4, <2>5 DEF MergesRoots
  <2> QED
    BY <2>2, <2>6
<1>4. Keys(mergedInto, claims, snapshots, answers)'
  <2>1. Keys(mergedInto', Copied(claims, s, t), snapshots, answers)
    BY <1>0, <1>3, MergeKeys
  <2> QED
    BY <1>1, <2>1 DEF Keys, Kept, Told
<1>5. \A y \in claims : y[3] \in Events
  BY <1>0 DEF Keys
<1>6. Continuous(mergedInto, claims)'
  <2>1. Continuous(mergedInto', Copied(claims, s, t))
    BY <1>0, <1>3, <1>5, MergeContinuous
  <2> QED
    BY <1>1, <2>1 DEF Continuous
<1>7. Tables'
  BY <1>0, <1>1, <1>2, <1>3 DEF Tables, Rooted
<1>8. ASSUME NEW q \in Clients PROVE Working(q)'
  <2>1. Working(q) /\ txn'[q] = txn[q] /\ Keeps(q)
    BY <1>0, <1>1 DEF Keeps
  <2>2. txn[q].pc \in Past("snapshot") => \A r \in snapshots' : r.run # Run(q)
    BY <1>1, <2>1 DEF Working
  <2>3. ASSUME txn[q].pc \in Past("record"), Sub(q).record # {}
        PROVE  PriorKept(mergedInto', claims', txn[q])
    <3>1. PriorKept(mergedInto, claims, txn[q]) /\ txn[q].prior \in Events \cup {NoEvent}
      BY <2>1, <2>3 DEF Working, Local
    <3>2. PriorKept(mergedInto', Copied(claims, s, t), txn[q])
      BY <1>0, <1>3, <1>5, <3>1, MergePrior
    <3> QED
      BY <1>1, <3>2
  <2> QED
    BY <2>1, <2>2, <2>3, WorkingFrame
<1> QED
  BY <1>4, <1>6, <1>7, <1>8 DEF IInv

(* A step that touches none of what the invariant is about.                   *)
LEMMA Elsewhere ==
    ASSUME IInv,
           UNCHANGED <<stored, mergedInto, claims, snapshots, workload, answers, snapshotRow, recordLock, txn>>
    PROVE  IInv'
<1>1. Tables'
  BY DEF IInv, Tables, Rooted
<1>2. Keys(mergedInto, claims, snapshots, answers)'
  BY DEF IInv, Keys, Kept, Told
<1>3. Continuous(mergedInto, claims)'
  BY DEF IInv, Continuous
<1>4. ASSUME NEW q \in Clients PROVE Working(q)'
  <2>1. Working(q) /\ Keeps(q)
    BY DEF IInv, Keeps
  <2> QED
    BY <2>1, WorkingFrame DEF Working
<1> QED
  BY <1>1, <1>2, <1>3, <1>4 DEF IInv

--------------------------------------------------------------------------------
(* The specifications: clients alone, and with the importer.                  *)

Step ==
    \/ \E c \in Clients :
          \/ \E s \in Submissions : ReplayEarly(c, s) \/ Submit(c, s)
          \/ ensure_started(c) \/ ResolveRecord(c) \/ InsertSnapshot(c) \/ ResolveEvent(c)
          \/ CommitIngestion(c) \/ RefuseMerged(c) \/ Rollback(c)
    \/ \E s, t \in Events : Merge(s, t)
    \/ \E s, m : SetSourceFieldMapping(s, m)

LEMMA StepInvariant == IInv /\ [Step]_vars => IInv'
<1> SUFFICES ASSUME IInv, [Step]_vars PROVE IInv'
  OBVIOUS
<1>1. CASE UNCHANGED vars
  BY <1>1, Elsewhere DEF vars, eventVars, keyVars, lockVars
<1>2. ASSUME NEW c \in Clients, NEW s \in Submissions, ReplayEarly(c, s) \/ Submit(c, s) PROVE IInv'
  BY <1>2, DoReplay, DoSubmit
<1>3. ASSUME NEW c \in Clients,
             \/ ensure_started(c) \/ ResolveRecord(c) \/ InsertSnapshot(c) \/ ResolveEvent(c)
             \/ CommitIngestion(c) \/ RefuseMerged(c) \/ Rollback(c)
      PROVE  IInv'
  BY <1>3, DoStart, DoRecord, DoSnapshot, DoResolve, DoCommit, DoEnd
<1>4. ASSUME NEW s \in Events, NEW t \in Events, Merge(s, t) PROVE IInv'
  BY <1>4, DoMerge
<1>5. ASSUME NEW s, NEW m, SetSourceFieldMapping(s, m) PROVE IInv'
  BY <1>5, Elsewhere DEF SetSourceFieldMapping, eventVars, keyVars, lockVars
<1> QED
  BY <1>1, <1>2, <1>3, <1>4, <1>5 DEF Step

LEMMA InitInvariant == Init => IInv
<1> SUFFICES ASSUME Init PROVE IInv
  OBVIOUS
<1>1. /\ workload \in Workloads
      /\ snapshots = {l.snapshot : l \in workload.legacy}
      /\ claims = {<<l.snapshot.run, l.snapshot.record, l.event>> : l \in workload.legacy}
      /\ stored = {l.event : l \in workload.legacy}
  BY DEF Init
<1>2. /\ \A l \in workload.legacy : LegacyRun(l)
      /\ \A l, m \in workload.legacy :
            /\ l.snapshot.run = m.snapshot.run => l = m
            /\ (l.snapshot.run[1] = m.snapshot.run[1] /\ l.snapshot.record = m.snapshot.record
                /\ l.snapshot.record # {}) => l.event = m.event
  BY <1>1, IngestionAssumption DEF IngestionAssumption
<1>3. mergedInto \in Pointers /\ \A e \in Events : mergedInto[e] = NoEvent
  BY DEF Init, Pointers
<1>4. Rooted(mergedInto)
  <2> SUFFICES ASSUME NEW e \in Events
               PROVE  Ancestors(mergedInto)[Cardinality(Absorbed(mergedInto))][e] \in Events
    BY <1>3 DEF Rooted
  <2> QED
    BY <1>3, AncestorsDef, AbsorbedCount
<1>5. Tables
  <2>1. stored \subseteq Events
    BY <1>1, <1>2 DEF LegacyRun
  <2>2. /\ snapshotRow \in [Runs -> Clients \cup {NoClient}]
        /\ recordLock \in [Records -> Clients \cup {NoClient}]
        /\ DOMAIN txn = Clients
    BY DEF Init
  <2> QED
    BY <1>1, <1>3, <1>4, <2>1, <2>2 DEF Tables
<1>6. ASSUME NEW x \in claims
      PROVE  \E l \in workload.legacy : /\ x[1] = l.snapshot.run /\ x[2] = l.snapshot.record
                                        /\ x[3] = l.event /\ l.event \in Events
  <2>1. PICK l \in workload.legacy : x = <<l.snapshot.run, l.snapshot.record, l.event>>
    BY <1>1
  <2> QED
    BY <1>2, <2>1 DEF LegacyRun
<1>7. Keys(mergedInto, claims, snapshots, answers)
  <2>1. \A s, t \in snapshots : s.run = t.run => s = t
    BY <1>1, <1>2
  <2>2. ASSUME NEW s \in snapshots PROVE Kept(mergedInto, claims, s)
    <3>1. PICK l \in workload.legacy : s = l.snapshot
      BY <1>1
    <3>2. l.event \in Events /\ s.result = NoResult /\ <<s.run, s.record, l.event>> \in claims
      BY <1>1, <1>2, <3>1 DEF LegacyRun
    <3> QED
      BY <3>2 DEF Kept
  <2>3. \A x \in claims : x[3] \in Events /\ \E s \in snapshots : s.run = x[1]
    BY <1>1, <1>6
  <2>4. \A x, y \in claims : x[1] = y[1] => Same(mergedInto, x[3], y[3])
    BY <1>2, <1>6 DEF Same
  <2>5. answers = {}
    BY DEF Init
  <2> QED
    BY <2>1, <2>2, <2>3, <2>4, <2>5 DEF Keys
<1>8. Continuous(mergedInto, claims)
  <2> SUFFICES ASSUME NEW x \in claims, NEW y \in claims, x[1][1] = y[1][1], x[2] = y[2], x[2] # {}
               PROVE  x[3] = y[3]
    BY DEF Continuous, Same
  <2> QED
    BY <1>2, <1>6
<1>9. ASSUME NEW q \in Clients PROVE Working(q)
  <2>1. txn[q] = Idle /\ Idle.pc = "idle"
    BY DEF Init, Idle
  <2> QED
    BY <2>1, IdleLocal DEF Working, Past
<1> QED
  BY <1>5, <1>7, <1>8, <1>9 DEF IInv

LEMMA NextIsStep ==
    ASSUME IInv, [Next]_vars
    PROVE  [Step]_vars
<1>1. workload.submissions \subseteq Submissions
  BY IngestionAssumption DEF IngestionAssumption, IInv, Tables
<1> QED
  BY <1>1 DEF Next, Step, ingest_from_source

LEMMA Invariance == Spec => []IInv
<1>1. IInv /\ [Next]_vars => IInv'
  BY NextIsStep, StepInvariant
<1> QED
  BY <1>1, InitInvariant, PTL DEF Spec

(* The importer submits what build_event_record makes of its rows, in a run   *)
(* that has started.                                                          *)
LoadInv == IInv /\ loads \in 0 .. MaxLoads /\ (pending # {} => loads # 0)

LEMMA LoadIsStep ==
    ASSUME LoadInv, [LoadNext]_allVars
    PROVE  [Step]_vars
<1>1. CASE UNCHANGED allVars
  BY <1>1 DEF allVars
<1>2. CASE StartLoad \/ SettleRecord \/ RegisterSource
  BY <1>2 DEF StartLoad, SettleRecord, RegisterSource
<1>3. CASE Kill
  BY <1>3, NtsbAssumption DEF NtsbAssumption, Kill, Step
<1>4. ASSUME NEW r \in NtsbRows, FailRecord(r) \/ ReplayRecord(r) \/ SubmitRecord(r) \/ Export(r)
      PROVE  [Step]_vars
  <2>1. CASE FailRecord(r) \/ Export(r)
    BY <2>1 DEF FailRecord, Export
  <2>2. CASE ReplayRecord(r) \/ SubmitRecord(r)
    <3>1. loads \in 1 .. MaxLoads
      BY <2>2, NtsbAssumption DEF NtsbAssumption, LoadInv, ReplayRecord, SubmitRecord
    <3>2. build_event_record(r, loads) \in Submissions
      BY <3>1, NtsbAssumption DEF NtsbAssumption, NtsbSubmissions
    <3> QED
      BY <2>2, <3>2, NtsbAssumption DEF NtsbAssumption, ReplayRecord, SubmitRecord, Step
  <2> QED
    BY <1>4, <2>1, <2>2
<1>5. ASSUME NEW c \in Clients, NEW s \in Submissions, ingest_from_source(c, s) PROVE [Step]_vars
  BY <1>5 DEF ingest_from_source, Step
<1>6. ASSUME NEW c \in Clients,
             \/ ensure_started(c) \/ ResolveRecord(c) \/ InsertSnapshot(c) \/ ResolveEvent(c)
             \/ CommitIngestion(c) \/ RefuseMerged(c) \/ Rollback(c)
      PROVE  [Step]_vars
  BY <1>6 DEF Step
<1>7. ASSUME NEW s \in Events, NEW t \in Events, Merge(s, t) PROVE [Step]_vars
  BY <1>7 DEF Step
<1>8. ASSUME NEW s, NEW m, SetSourceFieldMapping(s, m) PROVE [Step]_vars
  BY <1>8 DEF Step
<1> QED
  BY <1>1, <1>2, <1>3, <1>4, <1>5, <1>6, <1>7, <1>8 DEF LoadNext

LEMMA LoadCounts ==
    ASSUME LoadInv, [LoadNext]_allVars
    PROVE  loads' \in 0 .. MaxLoads /\ (pending' # {} => loads' # 0)
<1> USE NtsbAssumption DEF NtsbAssumption, LoadInv
<1>1. CASE UNCHANGED loadVars
  BY <1>1 DEF loadVars
<1>2. CASE StartLoad
  BY <1>2 DEF StartLoad
<1>3. CASE SettleRecord \/ Kill \/ RegisterSource
  BY <1>3 DEF SettleRecord, Kill, RegisterSource
<1>4. ASSUME NEW r \in NtsbRows, FailRecord(r) \/ ReplayRecord(r) \/ SubmitRecord(r) \/ Export(r)
      PROVE  loads' \in 0 .. MaxLoads /\ (pending' # {} => loads' # 0)
  BY <1>4 DEF FailRecord, ReplayRecord, SubmitRecord, Export, Counted
<1> QED
  BY <1>1, <1>2, <1>3, <1>4 DEF LoadNext, allVars

LEMMA LoadInvariance == LoadSpec => []LoadInv
<1>1. LoadInit => LoadInv
  BY InitInvariant, NtsbAssumption DEF NtsbAssumption, LoadInit, LoadInv
<1>2. LoadInv /\ [LoadNext]_allVars => LoadInv'
  BY LoadIsStep, LoadCounts, StepInvariant DEF LoadInv
<1> QED
  BY <1>1, <1>2, PTL DEF LoadSpec

--------------------------------------------------------------------------------
(* Twins.  An event keeps the key it was created for as long as its row does;  *)
(* whoever is about to create one for a date and a registration holds the lock *)
(* of that key, so an event of that key that is stored by now was found.       *)

Dated(key) == key[1] > 0 /\ key[2] # NoMark

KeyOf(row) == <<row.event_date, row.registration>>

RowTyped(row) ==
    /\ row.event_date \in Int
    /\ IsFiniteSet(row.operator) /\ IsFiniteSet(row.location) /\ IsFiniteSet(row.aircraft_type)

FieldsTyped(fields) == \A f \in DOMAIN fields : IsValue(fields[f])

Resolving(c) ==
    /\ txn[c].pc # "idle" => FieldsTyped(txn[c].fields)
    /\ txn[c].pc # "write" => ~txn[c].created /\ ~txn[c].alias
    /\ txn[c].created => ~txn[c].alias

Announces(c) ==
    txn[c].created /\ Dated(IdentityKey(c)) =>
        /\ identityLock[c] = IdentityKey(c)
        /\ txn[c].against = {} => \A e \in Events : originKey[e] # IdentityKey(c)

KeysKept ==
    /\ DOMAIN entry = Events /\ DOMAIN originKey = Events
    /\ \A e \in Events : RowTyped(entry[e])
    /\ \A e \in Events : Dated(originKey[e]) => e \in stored /\ KeyOf(entry[e]) = originKey[e]

OneHolder ==
    /\ DOMAIN identityLock = Clients
    /\ \A c, d \in Clients : c # d /\ identityLock[c] = identityLock[d] => identityLock[c] = NoLock

TwinInv ==
    /\ KeysKept
    /\ OneHolder
    /\ \A c \in Clients : Resolving(c) /\ Announces(c)

LEMMA OverlapBounds ==
    ASSUME NEW a, NEW b, IsFiniteSet(a), IsFiniteSet(b)
    PROVE  _token_overlap(a, b) \in 0 .. 100
<1>1. CASE a = {} \/ b = {}
  BY <1>1 DEF _token_overlap
<1>2. CASE a # {} /\ b # {}
  <2> DEFINE x == Cardinality(a \cap b)
             y == Cardinality(a \cup b)
             q == (100 * x) \div y
  <2>1. IsFiniteSet(a \cup b) /\ a \cap b \subseteq a \cup b /\ a \cup b # {}
    BY <1>2, FS_Union
  <2>2. y \in Nat /\ x \in Nat /\ x <= y
    BY <2>1, FS_Subset, FS_CardinalityType
  <2>3. y # 0
    BY <2>1, FS_EmptySet
  <2> HIDE DEF x, y
  <2>4. 100 * x \in Nat /\ 100 * x <= 100 * y
    BY <2>2
  <2>5. q \in Nat /\ q * y <= 100 * x
    BY <2>2, <2>3, <2>4
  <2>6. q <= 100
    <3> SUFFICES ASSUME q >= 101 PROVE FALSE
      BY <2>5
    <3> HIDE DEF q
    <3>1. q * y >= 101 * y
      BY <2>2, <2>5
    <3> QED
      BY <2>2, <2>3, <2>4, <2>5, <3>1
  <2>7. _token_overlap(a, b) = q
    BY <1>2 DEF _token_overlap, x, y
  <2> HIDE DEF q
  <2> QED
    BY <2>5, <2>6, <2>7
<1> QED
  BY <1>1, <1>2

(* The score of a match on every field. *)
FullMarks == 10000

LEMMA ScoreBounds ==
    ASSUME NEW x, NEW y, RowTyped(x), RowTyped(y)
    PROVE  /\ score_match(x, y) \in 0 .. FullMarks
           /\ Dated(KeyOf(x)) /\ KeyOf(y) = KeyOf(x) => score_match(x, y) >= HIGH_CONFIDENCE
<1>1. /\ _token_overlap(x.operator, y.operator) \in 0 .. 100
      /\ _token_overlap(x.location, y.location) \in 0 .. 100
      /\ _token_overlap(x.aircraft_type, y.aircraft_type) \in 0 .. 100
  BY OverlapBounds DEF RowTyped
<1> DEFINE r == RegistrationScore(x.registration, y.registration)
           l == AliasScore(x, y)
           d == _date_score(x.event_date, y.event_date)
<1>2. r \in {0, 100} /\ l \in {0, 50} /\ (r = 100 => l = 0)
  BY DEF RegistrationScore, AliasScore
<1>3. d \in {0, 50, 100}
  BY DEF _date_score
<1>4. Dated(KeyOf(x)) /\ KeyOf(y) = KeyOf(x) => r = 100 /\ d = 100
  <2> SUFFICES ASSUME Dated(KeyOf(x)), KeyOf(y) = KeyOf(x) PROVE r = 100 /\ d = 100
    OBVIOUS
  <2>1. x.event_date > 0 /\ x.registration # NoMark
    BY DEF Dated, KeyOf
  <2>2. y.event_date = x.event_date /\ y.registration = x.registration
    BY DEF KeyOf
  <2>3. x.event_date \in Int
    BY DEF RowTyped
  <2> QED
    BY <2>1, <2>2, <2>3 DEF RegistrationScore, _date_score
<1>5. score_match(x, y) = 45 * (r + l) + 30 * d
          + 10 * _token_overlap(x.operator, y.operator)
          + 8 * _token_overlap(x.location, y.location)
          + 7 * _token_overlap(x.aircraft_type, y.aircraft_type)
  BY DEF score_match
<1> DEFINE o == _token_overlap(x.operator, y.operator)
           p == _token_overlap(x.location, y.location)
           q == _token_overlap(x.aircraft_type, y.aircraft_type)
<1>6. /\ o \in 0 .. 100 /\ p \in 0 .. 100 /\ q \in 0 .. 100
      /\ score_match(x, y) = 45 * (r + l) + 30 * d + 10 * o + 8 * p + 7 * q
  BY <1>1, <1>5
<1> HIDE DEF r, l, d, o, p, q
<1> DEFINE R == 45 * (r + l)
           D == 30 * d
           O == 10 * o
           P == 8 * p
           Q == 7 * q
<1>7. R \in 0 .. 4500 /\ (r = 100 => R = 4500)
  BY <1>2
<1>8. D \in 0 .. 3000 /\ (d = 100 => D = 3000)
  BY <1>3
<1>9. O \in 0 .. 1000 /\ P \in 0 .. 800 /\ Q \in 0 .. 700
  BY <1>6
<1>10. score_match(x, y) = R + D + O + P + Q
  BY <1>6
<1> HIDE DEF R, D, O, P, Q
<1> DEFINE total == R + D + O + P + Q
<1>11. total \in 0 .. FullMarks
  BY <1>7, <1>8, <1>9 DEF FullMarks
<1>12. r = 100 /\ d = 100 => total >= HIGH_CONFIDENCE
  BY <1>7, <1>8, <1>9 DEF HIGH_CONFIDENCE
<1> HIDE DEF total
<1>13. score_match(x, y) = total
  BY <1>10 DEF total
<1> QED
  BY <1>4, <1>11, <1>12, <1>13

LEMMA TopScore ==
    ASSUME NEW C, NEW bound \in Nat, NEW sc \in [C -> 0 .. bound], C # {}
    PROVE  \E top \in C : \A e \in C : sc[e] <= sc[top]
<1> DEFINE T == {n \in Nat : \E e \in C : sc[e] + n = bound}
<1>1. \A e \in C : bound - sc[e] \in T
  OBVIOUS
<1>2. PICK n \in T : \A m \in T : n <= m
  <2>1. T \in SUBSET Nat /\ T # {}
    BY <1>1
  <2> HIDE DEF T
  <2> QED
    BY <2>1, Least
<1>3. PICK top \in C : n \in Nat /\ sc[top] + n = bound
  BY <1>2
<1>4. ASSUME NEW e \in C PROVE sc[e] <= sc[top]
  <2>1. n <= bound - sc[e]
    BY <1>1, <1>2
  <2> QED
    BY <1>3, <2>1
<1> QED
  BY <1>4

Sure(x, y) == score_match(x, y) >= HIGH_CONFIDENCE

(* A candidate of high confidence is attached to, or a curator is asked about  *)
(* the best ones.                                                              *)
LEMMA NeverNew ==
    ASSUME NEW x, RowTyped(x), NEW C \in SUBSET Events, \A e \in Events : RowTyped(entry[e]),
           NEW f \in C, Sure(x, entry[f])
    PROVE  /\ decide(x, entry, C).action \in {"attach", "review"}
           /\ decide(x, entry, C).events # {}
           /\ decide(x, entry, C).events \subseteq C
<1> DEFINE sc == [e \in C |-> score_match(x, entry[e])]
           best == best_match(x, entry, C)
           one == CHOOSE e \in best : TRUE
           score == IF best = {} THEN 0 ELSE score_match(x, entry[one])
<1>1. FullMarks \in Nat /\ sc \in [C -> 0 .. FullMarks]
  <2>1. FullMarks \in Nat
    BY DEF FullMarks
  <2>2. ASSUME NEW e \in C PROVE score_match(x, entry[e]) \in 0 .. FullMarks
    <3>1. RowTyped(entry[e])
      OBVIOUS
    <3> QED
      BY <3>1, ScoreBounds
  <2> QED
    BY <2>1, <2>2
<1>2. decide(x, entry, C) = [action |-> IF score >= HIGH_CONFIDENCE /\ Cardinality(best) = 1 THEN "attach"
                                       ELSE IF score >= UNCERTAIN_LOW THEN "review" ELSE "new",
                            events |-> best]
  BY DEF decide
<1>3. best = {e \in C : sc[e] > 0 /\ \A d \in C : sc[d] <= sc[e]}
  BY DEF best_match
<1>4. sc[f] >= HIGH_CONFIDENCE
  BY DEF Sure
<1>0. /\ HIGH_CONFIDENCE \in Nat /\ UNCERTAIN_LOW \in Nat /\ HIGH_CONFIDENCE >= UNCERTAIN_LOW
      /\ UNCERTAIN_LOW > 0
  BY DEF HIGH_CONFIDENCE, UNCERTAIN_LOW
<1>5. best # {} => score = sc[one]
  BY <1>3
<1> HIDE DEF sc, score, best
<1>6. PICK top \in C : \A e \in C : sc[e] <= sc[top]
  BY <1>1, TopScore
<1>7. sc[top] > 0
  <2>1. sc[top] \in 0 .. FullMarks /\ sc[f] \in 0 .. FullMarks /\ sc[f] <= sc[top]
    BY <1>1, <1>6
  <2> QED
    BY <1>0, <1>1, <1>4, <2>1
<1>8. best # {} /\ best \subseteq C
  BY <1>3, <1>6, <1>7
<1>9. one \in best
  BY <1>8
<1>10. score >= HIGH_CONFIDENCE /\ score \in Nat
  <2>1. sc[one] \in 0 .. FullMarks /\ sc[f] \in 0 .. FullMarks /\ sc[f] <= sc[one]
    BY <1>1, <1>3, <1>9
  <2> QED
    BY <1>0, <1>1, <1>4, <1>5, <1>8, <2>1
<1>11. score >= HIGH_CONFIDENCE /\ score >= UNCERTAIN_LOW
  BY <1>0, <1>10
<1> HIDE DEF one
<1> QED
  BY <1>2, <1>8, <1>11

LEMMA WholePage ==
    ASSUME NEW rows, IsFiniteSet(rows), NEW limit \in Nat, Cardinality(rows) <= limit,
           NEW page \in FirstRows(rows, limit)
    PROVE  page = rows
<1>1. page \subseteq rows
  BY DEF FirstRows
<1>2. Cardinality(rows) \in Nat
  BY FS_CardinalityType
<1>3. Cardinality(page) = Cardinality(rows)
  BY <1>2 DEF FirstRows
<1> QED
  BY <1>1, <1>3, FS_Subset

LEMMA SomeReview ==
    ASSUME Tables, NEW S \in SUBSET Events, S # {}, NEW page \in ReviewedEvents(S)
    PROVE  page # {}
<1> DEFINE canonical == {Canonical(e) : e \in S}
<1>1. IsFiniteSet(canonical)
  <2>1. canonical \subseteq Events
    BY CanonicalType
  <2> HIDE DEF canonical
  <2> QED
    BY <2>1, FS_Subset, IngestionAssumption DEF IngestionAssumption
<1>2. canonical # {}
  OBVIOUS
<1>3. Cardinality(page) = IF Cardinality(canonical) < MaxDuplicateReviews
                          THEN Cardinality(canonical) ELSE MaxDuplicateReviews
  BY DEF ReviewedEvents
<1> HIDE DEF canonical
<1>4. Cardinality(canonical) \in Nat \ {0}
  BY <1>1, <1>2, FS_CardinalityType, FS_EmptySet
<1>5. Cardinality(page) # 0
  BY <1>3, <1>4, IngestionAssumption DEF IngestionAssumption
<1> QED
  BY <1>5, FS_EmptySet

LEMMA EntryTyped ==
    ASSUME NEW fields, FieldsTyped(fields), NEW record
    PROVE  RowTyped(_build_identity_entry(fields, record))
<1>1. ASSUME NEW f PROVE IsValue(Get(fields, f))
  BY DEF FieldsTyped, Get, IsValue, Null
<1>2. ASSUME NEW v, IsValue(v) PROVE _norm_date(v) \in Int /\ IsFiniteSet(_norm(v))
  BY <1>2, FS_EmptySet DEF IsValue, _norm_date, Unread, _norm
<1> DEFINE row == _build_identity_entry(fields, record)
<1>3. /\ row.event_date = _norm_date(Get(fields, "event_date"))
      /\ row.operator = _norm(Get(fields, "operator"))
      /\ row.location = _norm(Get(fields, "location"))
      /\ row.aircraft_type = _norm(Get(fields, "aircraft_type"))
  BY DEF _build_identity_entry
<1> HIDE DEF row
<1>4. RowTyped(row)
  BY <1>1, <1>2, <1>3 DEF RowTyped
<1> QED
  BY <1>4 DEF row

LEMMA CoalesceKeeps ==
    ASSUME NEW x, NEW y, RowTyped(x), RowTyped(y), NEW norms
    PROVE  LET row == [Coalesce(x, y) EXCEPT !.registration_norms = norms] IN
           RowTyped(row) /\ (Dated(KeyOf(x)) => KeyOf(row) = KeyOf(x))
<1> DEFINE row == [Coalesce(x, y) EXCEPT !.registration_norms = norms]
<1>1. /\ row.event_date = IF x.event_date # 0 THEN x.event_date ELSE y.event_date
      /\ row.registration = IF x.registration # NoMark THEN x.registration ELSE y.registration
      /\ row.operator = IF x.operator # {} THEN x.operator ELSE y.operator
      /\ row.location = IF x.location # {} THEN x.location ELSE y.location
      /\ row.aircraft_type = IF x.aircraft_type # {} THEN x.aircraft_type ELSE y.aircraft_type
  BY DEF Coalesce
<1> HIDE DEF row
<1>2. RowTyped(row)
  BY <1>1 DEF RowTyped
<1>3. ASSUME Dated(KeyOf(x)) PROVE KeyOf(row) = KeyOf(x)
  <2>1. x.event_date > 0 /\ x.event_date \in Int /\ x.registration # NoMark
    BY <1>3 DEF Dated, KeyOf, RowTyped
  <2> QED
    BY <1>1, <2>1 DEF KeyOf
<1> QED
  BY <1>2, <1>3 DEF row

LEMMA WrittenRows ==
    ASSUME NEW x, NEW y, RowTyped(x), RowTyped(y)
    PROVE  /\ RowTyped(upsert(x, y)) /\ (Dated(KeyOf(y)) => KeyOf(upsert(x, y)) = KeyOf(y))
           /\ RowTyped(enrich_identity_index_from_alias(x, y))
           /\ Dated(KeyOf(x)) => KeyOf(enrich_identity_index_from_alias(x, y)) = KeyOf(x)
<1>1. RowTyped(upsert(x, y)) /\ (Dated(KeyOf(y)) => KeyOf(upsert(x, y)) = KeyOf(y))
  BY CoalesceKeeps DEF upsert
<1>2. /\ RowTyped(enrich_identity_index_from_alias(x, y))
      /\ Dated(KeyOf(x)) => KeyOf(enrich_identity_index_from_alias(x, y)) = KeyOf(x)
  BY CoalesceKeeps DEF enrich_identity_index_from_alias
<1> QED
  BY <1>1, <1>2

LEMMA FieldsAreTyped ==
    ASSUME NEW s \in Submissions
    PROVE  FieldsTyped(NormalisedFields(s))
<1> DEFINE kind == SourceKind[s.source]
           map == mapping[s.source]
           fields == {FieldName(kind, map, n) : n \in DOMAIN s.claims}
           Of(f) == CHOOSE n \in DOMAIN s.claims : FieldName(kind, map, n) = f
<1>1. NormalisedFields(s) =
          [f \in fields |-> IF kind = "EXTERNAL" THEN Coerced(f, s.claims[Of(f)]) ELSE s.claims[Of(f)]]
  BY DEF NormalisedFields, normalise_claims
<1>2. ASSUME NEW f \in fields PROVE IsValue(s.claims[Of(f)])
  <2>1. Of(f) \in DOMAIN s.claims
    OBVIOUS
  <2> HIDE DEF Of
  <2> QED
    BY <2>1, IngestionAssumption DEF IngestionAssumption
<1>3. ASSUME NEW f, NEW v, IsValue(v) PROVE IsValue(Coerced(f, v))
  <2>1. IsValue(Null)
    BY DEF IsValue, Null
  <2>2. Coerced(f, v) \in {v, Null}
    BY DEF Coerced, coerce_string
  <2> QED
    BY <1>3, <2>1, <2>2
<1> HIDE DEF fields, Of, kind, map
<1> QED
  BY <1>1, <1>2, <1>3 DEF FieldsTyped

LEMMA Created ==
    ASSUME NEW c \in Clients, DOMAIN txn = Clients, Local(txn[c]), NEW against, CreateEvent(c, against)
    PROVE  /\ txn'[c].against = against
           /\ \E e \in Events : e \notin stored
<1>1. PICK e \in FreshEvent : txn' = [txn EXCEPT ![c].pc = "write", ![c].event = e, ![c].created = TRUE,
                                                 ![c].against = against]
  BY DEF CreateEvent
<1>2. e \in Events /\ e \notin stored
  BY DEF FreshEvent
<1>3. txn'[c].against = against
  BY <1>1 DEF Local
<1> QED
  BY <1>2, <1>3

LEMMA TwinFound ==
    ASSUME RegistrationsFit, Tables, KeysKept, NEW c \in Clients, At(c, "resolve"),
           Local(txn[c]), FieldsTyped(txn[c].fields),
           ~txn[c].created, MatchOrCreate(c), txn'[c].created, txn'[c].against = {},
           Dated(IdentityKey(c)),
           NEW twin \in Events, originKey[twin] = IdentityKey(c)
    PROVE  FALSE
<1> DEFINE incoming == IdentityEntry(c)
           key == IdentityKey(c)
<1>0. DOMAIN txn = Clients /\ stored \subseteq Events
  BY DEF Tables
<1>1. PICK near \in find_candidates(key[1]),
           same \in (IF key[2] = NoMark THEN {{}} ELSE find_by_registration(key[2], key[1])) :
          LET decision == decide(incoming, entry, near \cup same) IN
          \/ /\ decision.action = "attach"
             /\ \E e \in decision.events :
                   txn' = [txn EXCEPT ![c].pc = "write", ![c].event = Canonical(e),
                                      ![c].alias = Merged(e)]
          \/ /\ decision.action = "review"
             /\ \E against \in ReviewedEvents(decision.events) : CreateEvent(c, against)
          \/ /\ decision.action = "new"
             /\ CreateEvent(c, {})
  BY DEF MatchOrCreate
<1> DEFINE decision == decide(incoming, entry, near \cup same)
<1>2. \/ /\ decision.action = "review"
         /\ \E against \in ReviewedEvents(decision.events) : CreateEvent(c, against)
      \/ /\ decision.action = "new"
         /\ CreateEvent(c, {})
  <2>1. ASSUME NEW e, txn' = [txn EXCEPT ![c].pc = "write", ![c].event = Canonical(e), ![c].alias = Merged(e)]
        PROVE  FALSE
    <3>1. txn'[c].created = txn[c].created
      BY <1>0, <2>1 DEF Local
    <3> QED
      BY <3>1
  <2> HIDE DEF incoming, key
  <2> QED
    BY <1>1, <2>1
<1>4. RowTyped(incoming) /\ KeyOf(incoming) = key
  BY EntryTyped DEF IdentityEntry, IdentityKey, KeyOf
<1>5. twin \in stored /\ KeyOf(entry[twin]) = key /\ RowTyped(entry[twin])
  BY DEF KeysKept
<1>6. key[1] > 0 /\ key[2] # NoMark /\ entry[twin].event_date = key[1] /\ entry[twin].registration = key[2]
  BY <1>5 DEF Dated, KeyOf
<1> HIDE DEF incoming, key
<1>7. Sure(incoming, entry[twin])
  BY <1>4, <1>5, ScoreBounds DEF Sure, key
<1>8. twin \in same
  <2> DEFINE rows == RegistrationRows(key[2], key[1])
  <2>1. twin \in rows
    BY <1>5, <1>6 DEF WithinADay, RowTyped, RegistrationRows
  <2>2. rows \subseteq stored
    BY DEF WithinADay, RegistrationRows
  <2>3. same \in FirstRows(rows, RegistrationLimit)
    BY <1>6 DEF find_by_registration
  <2>4. Cardinality(rows) <= RegistrationLimit
    BY <1>6 DEF RegistrationsFit, key
  <2> HIDE DEF rows
  <2>5. IsFiniteSet(Events) /\ RegistrationLimit \in Nat
    BY IngestionAssumption DEF IngestionAssumption
  <2>6. IsFiniteSet(rows)
    BY <1>0, <2>2, <2>5, FS_Subset
  <2> QED
    BY <2>1, <2>3, <2>4, <2>5, <2>6, WholePage
<1>9. near \cup same \subseteq Events
  BY <1>0 DEF find_candidates, find_by_registration, RegistrationRows, FirstRows, WithinADay
<1>10. decision.action \in {"attach", "review"} /\ decision.events # {} /\ decision.events \subseteq Events
  BY <1>4, <1>7, <1>8, <1>9, NeverNew DEF KeysKept
<1> HIDE DEF decision
<1>11. PICK against \in ReviewedEvents(decision.events) : CreateEvent(c, against)
  BY <1>2, <1>10
<1> QED
  BY <1>0, <1>10, <1>11, Created, SomeReview

(* A step of one client, or of none.                                           *)
LEMMA OthersAnnounce ==
    ASSUME TwinInv, KeysKept', OneHolder',
           NEW Q \in SUBSET Clients,
           \A q \in Q : txn'[q] = txn[q] /\ identityLock'[q] = identityLock[q],
           \A q \in Q : txn[q].created /\ Dated(IdentityKey(q)) =>
               \A e \in Events : originKey'[e] = IdentityKey(q) => originKey[e] = IdentityKey(q),
           \A q \in Clients \ Q : Resolving(q)' /\ Announces(q)'
    PROVE  TwinInv'
<1>1. ASSUME NEW q \in Q PROVE Resolving(q)' /\ Announces(q)'
  <2>1. Resolving(q) /\ Announces(q)
    BY DEF TwinInv
  <2>2. IdentityKey(q)' = IdentityKey(q)
    BY DEF IdentityKey, IdentityEntry, Sub
  <2>3. Resolving(q)'
    BY <2>1 DEF Resolving
  <2>4. Announces(q)'
    BY <2>1, <2>2 DEF Announces
  <2> QED
    BY <2>3, <2>4
<1> QED
  BY <1>1 DEF TwinInv

LEMMA RowsAlone ==
    ASSUME KeysKept, UNCHANGED <<stored, entry, originKey>>
    PROVE  KeysKept'
BY DEF KeysKept

(* A step inside the transaction that keeps what was submitted and locked.     *)
LEMMA TwinInside ==
    ASSUME TwinInv, Tables, NEW c \in Clients, NEW t, txn' = [txn EXCEPT ![c] = t],
           UNCHANGED <<stored, entry, originKey, identityLock>>,
           FieldsTyped(t.fields), ~t.created, t.pc # "write" => ~t.alias
    PROVE  TwinInv'
<1>1. DOMAIN txn' = Clients /\ txn'[c] = t /\ \A q \in Clients \ {c} : txn'[q] = txn[q]
  BY Updated DEF Tables
<1>2. KeysKept' /\ OneHolder'
  BY RowsAlone DEF TwinInv, OneHolder
<1>3. Resolving(c)' /\ Announces(c)'
  BY <1>1 DEF Resolving, Announces
<1> QED
  BY <1>1, <1>2, <1>3, OthersAnnounce

LEMMA TwinEnd ==
    ASSUME TwinInv, Tables, NEW c \in Clients, End(c), KeysKept',
           \A q \in Clients \ {c} : txn[q].created /\ Dated(IdentityKey(q)) =>
               \A e \in Events : originKey'[e] = IdentityKey(q) => originKey[e] = IdentityKey(q)
    PROVE  TwinInv'
<1>1. DOMAIN txn' = Clients /\ txn'[c] = Idle /\ \A q \in Clients \ {c} : txn'[q] = txn[q]
  BY Updated DEF Tables, End
<1>2. /\ DOMAIN identityLock' = Clients /\ identityLock'[c] = NoLock
      /\ \A q \in Clients \ {c} : identityLock'[q] = identityLock[q]
  BY DEF TwinInv, OneHolder, End
<1>3. OneHolder'
  BY <1>2 DEF TwinInv, OneHolder
<1>4. Resolving(c)' /\ Announces(c)'
  BY <1>1 DEF Resolving, Announces, Idle
<1> QED
  BY <1>1, <1>2, <1>3, <1>4, OthersAnnounce

LEMMA TwinStutter ==
    ASSUME TwinInv, UNCHANGED <<stored, entry, originKey, identityLock, txn>>
    PROVE  TwinInv'
<1>1. KeysKept' /\ OneHolder'
  BY RowsAlone DEF TwinInv, OneHolder
<1> QED
  BY <1>1, OthersAnnounce

LEMMA TwinSubmit ==
    ASSUME TwinInv, Tables, NEW c \in Clients, NEW s \in Submissions, Submit(c, s)
    PROVE  TwinInv'
<1> DEFINE t == [Idle EXCEPT !.pc = "start", !.sub = s, !.fields = NormalisedFields(s)]
<1>1. txn' = [txn EXCEPT ![c] = t] /\ UNCHANGED <<stored, entry, originKey, identityLock>>
  BY DEF Submit, eventVars, lockVars
<1>2. t.fields = NormalisedFields(s) /\ ~t.created /\ ~t.alias
  BY DEF Idle
<1> HIDE DEF t
<1> QED
  BY <1>1, <1>2, FieldsAreTyped, TwinInside

(* Up to the resolution of the event.                                          *)
LEMMA TwinEarly ==
    ASSUME TwinInv, IInv, NEW c \in Clients, ensure_started(c) \/ ResolveRecord(c) \/ InsertSnapshot(c)
    PROVE  TwinInv'
<1>0. /\ Tables /\ Local(txn[c]) /\ txn[c].pc \notin {"idle", "write"}
      /\ FieldsTyped(txn[c].fields) /\ ~txn[c].created /\ ~txn[c].alias
  BY DEF IInv, Working, TwinInv, Resolving, ensure_started, ResolveRecord, InsertSnapshot, At
<1>1. UNCHANGED <<stored, entry, originKey>>
  BY DEF ensure_started, ResolveRecord, InsertSnapshot, eventVars
<1>2. ASSUME NEW pc, NEW prior, txn' = [txn EXCEPT ![c].pc = pc, ![c].prior = prior], UNCHANGED identityLock,
             pc # "write"
      PROVE  TwinInv'
  <2> DEFINE t == [txn[c] EXCEPT !.pc = pc, !.prior = prior]
  <2>1. txn' = [txn EXCEPT ![c] = t]
    BY <1>2
  <2>2. t.fields = txn[c].fields /\ t.created = txn[c].created /\ t.alias = txn[c].alias /\ t.pc = pc
    BY <1>0 DEF Local
  <2> HIDE DEF t
  <2> QED
    BY <1>0, <1>1, <1>2, <2>1, <2>2, TwinInside
<1>3. ASSUME NEW pc, txn' = [txn EXCEPT ![c].pc = pc], UNCHANGED identityLock, pc # "write"
      PROVE  TwinInv'
  <2>1. txn' = [txn EXCEPT ![c].pc = pc, ![c].prior = txn[c].prior]
    <3> DEFINE t == [txn[c] EXCEPT !.pc = pc]
               u == [txn[c] EXCEPT !.pc = pc, !.prior = txn[c].prior]
    <3>1. t = u
      BY <1>0 DEF Local
    <3>2. txn' = [txn EXCEPT ![c] = t] /\ [txn EXCEPT ![c].pc = pc, ![c].prior = txn[c].prior] = [txn EXCEPT ![c] = u]
      BY <1>3
    <3> QED
      BY <3>1, <3>2
  <2> QED
    BY <1>2, <1>3, <2>1
<1>4. CASE End(c)
  BY <1>0, <1>1, <1>4, RowsAlone, TwinEnd DEF TwinInv
<1>5. CASE ensure_started(c)
  BY <1>3, <1>5 DEF ensure_started
<1>6. CASE ResolveRecord(c)
  BY <1>2, <1>4, <1>6 DEF ResolveRecord
<1>7. CASE InsertSnapshot(c)
  BY <1>3, <1>4, <1>7 DEF InsertSnapshot, try_add_unique
<1> QED
  BY <1>5, <1>6, <1>7

(* What the resolution leaves in the transaction.                              *)
Chosen(c, t) ==
    /\ txn' = [txn EXCEPT ![c] = t]
    /\ t.pc = "write" /\ t.fields = txn[c].fields /\ t.sub = txn[c].sub
    /\ t.created => ~t.alias

LEMMA CreateChooses ==
    ASSUME NEW c \in Clients, DOMAIN txn = Clients, Local(txn[c]), ~txn[c].alias, NEW against,
           CreateEvent(c, against)
    PROVE  \E t : Chosen(c, t)
<1>1. PICK e : txn' = [txn EXCEPT ![c].pc = "write", ![c].event = e, ![c].created = TRUE,
                                  ![c].against = against]
  BY DEF CreateEvent
<1> DEFINE t == [txn[c] EXCEPT !.pc = "write", !.event = e, !.created = TRUE, !.against = against]
<1>2. txn' = [txn EXCEPT ![c] = t]
  BY <1>1
<1>3. t.pc = "write" /\ t.fields = txn[c].fields /\ t.sub = txn[c].sub /\ t.alias = txn[c].alias
  BY DEF Local
<1> HIDE DEF t
<1>4. Chosen(c, t)
  BY <1>2, <1>3 DEF Chosen
<1> QED
  BY <1>4

LEMMA MatchChooses ==
    ASSUME NEW c \in Clients, DOMAIN txn = Clients, Local(txn[c]), ~txn[c].created, ~txn[c].alias,
           MatchOrCreate(c)
    PROVE  \E t : Chosen(c, t)
<1>1. \/ \E e : txn' = [txn EXCEPT ![c].pc = "write", ![c].event = Canonical(e), ![c].alias = Merged(e)]
      \/ \E against : CreateEvent(c, against)
  <2>1. PICK near \in find_candidates(IdentityKey(c)[1]),
             same \in (IF IdentityKey(c)[2] = NoMark THEN {{}}
                       ELSE find_by_registration(IdentityKey(c)[2], IdentityKey(c)[1])) :
          LET decision == decide(IdentityEntry(c), entry, near \cup same) IN
          \/ /\ decision.action = "attach"
             /\ \E e \in decision.events :
                   txn' = [txn EXCEPT ![c].pc = "write", ![c].event = Canonical(e),
                                      ![c].alias = Merged(e)]
          \/ /\ decision.action = "review"
             /\ \E against \in ReviewedEvents(decision.events) : CreateEvent(c, against)
          \/ /\ decision.action = "new"
             /\ CreateEvent(c, {})
    BY DEF MatchOrCreate
  <2> QED
    BY <2>1
<1>2. ASSUME NEW e, txn' = [txn EXCEPT ![c].pc = "write", ![c].event = Canonical(e), ![c].alias = Merged(e)]
      PROVE  \E t : Chosen(c, t)
  <2> DEFINE t == [txn[c] EXCEPT !.pc = "write", !.event = Canonical(e), !.alias = Merged(e)]
  <2>1. txn' = [txn EXCEPT ![c] = t]
    BY <1>2
  <2>2. t.pc = "write" /\ t.fields = txn[c].fields /\ t.sub = txn[c].sub /\ t.created = txn[c].created
    BY DEF Local
  <2> HIDE DEF t
  <2>3. Chosen(c, t)
    BY <2>1, <2>2 DEF Chosen
  <2> QED
    BY <2>3
<1> QED
  BY <1>1, <1>2, CreateChooses

LEMMA TwinResolve ==
    ASSUME RegistrationsFit, TwinInv, IInv, NEW c \in Clients, ResolveEvent(c)
    PROVE  TwinInv'
<1>0. /\ Tables /\ Local(txn[c]) /\ txn[c].pc = "resolve" /\ DOMAIN txn = Clients
      /\ FieldsTyped(txn[c].fields) /\ ~txn[c].created /\ ~txn[c].alias
  BY DEF IInv, Working, Tables, TwinInv, Resolving, ResolveEvent, At
<1>1. UNCHANGED <<stored, entry, originKey>>
  BY DEF ResolveEvent, eventVars
<1>2. KeysKept /\ KeysKept'
  BY <1>1, RowsAlone DEF TwinInv
<1>3. ASSUME NEW e, ResolveTo(c, e) PROVE TwinInv'
  <2> DEFINE t == [txn[c] EXCEPT !.pc = "write", !.event = e]
  <2>1. txn' = [txn EXCEPT ![c] = t] /\ UNCHANGED identityLock
    BY <1>3 DEF ResolveTo
  <2>2. t.fields = txn[c].fields /\ t.created = txn[c].created /\ t.pc = "write"
    BY <1>0 DEF Local
  <2> HIDE DEF t
  <2> QED
    BY <1>0, <1>1, <2>1, <2>2, TwinInside
<1>4. ASSUME NEW t, Chosen(c, t), OneHolder',
             \A q \in Clients \ {c} : identityLock'[q] = identityLock[q],
             t.created /\ Dated(IdentityKey(c)) =>
                 /\ identityLock'[c] = IdentityKey(c)
                 /\ t.against = {} => \A e \in Events : originKey[e] # IdentityKey(c)
      PROVE  TwinInv'
  <2>1. txn'[c] = t /\ \A q \in Clients \ {c} : txn'[q] = txn[q]
    BY <1>0, <1>4, Updated DEF Chosen
  <2>2. IdentityKey(c)' = IdentityKey(c)
    BY <1>4, <2>1 DEF IdentityKey, IdentityEntry, Sub, Chosen
  <2>3. Resolving(c)'
    BY <1>0, <1>4, <2>1 DEF Resolving, Chosen
  <2>4. Announces(c)'
    BY <1>1, <1>4, <2>1, <2>2 DEF Announces
  <2> QED
    BY <1>1, <1>2, <1>4, <2>1, <2>3, <2>4, OthersAnnounce
<1>5. CASE CreateEvent(c, {}) /\ UNCHANGED identityLock /\ Get(txn[c].fields, "event_date").form = "null"
  <2>1. PICK t : Chosen(c, t)
    BY <1>0, <1>5, CreateChooses
  <2>2. ~Dated(IdentityKey(c))
    BY <1>5 DEF Dated, IdentityKey, IdentityEntry, _build_identity_entry, _norm_date
  <2>3. OneHolder'
    BY <1>5 DEF TwinInv, OneHolder
  <2> QED
    BY <1>4, <1>5, <2>1, <2>2, <2>3
<1>6. CASE MatchOrCreate(c)
  <2>1. PICK t : Chosen(c, t)
    BY <1>0, <1>6, MatchChooses
  <2>2. txn'[c] = t
    BY <1>0, <2>1, Updated DEF Chosen
  <2>3. /\ \A d \in Clients \ {c} : identityLock[d] # IdentityKey(c)
        /\ identityLock' = [identityLock EXCEPT ![c] = IdentityKey(c)]
    BY <1>6 DEF MatchOrCreate, lock_for_identity_resolution
  <2>4. DOMAIN identityLock = Clients
    BY DEF TwinInv, OneHolder
  <2>5. /\ identityLock'[c] = IdentityKey(c) /\ DOMAIN identityLock' = Clients
        /\ \A q \in Clients \ {c} : identityLock'[q] = identityLock[q]
    BY <2>3, <2>4
  <2>6. OneHolder'
    BY <2>3, <2>5 DEF TwinInv, OneHolder
  <2>7. ASSUME t.created, Dated(IdentityKey(c)), t.against = {}, NEW e \in Events PROVE originKey[e] # IdentityKey(c)
    BY <1>0, <1>2, <1>6, <2>2, <2>7, TwinFound DEF At
  <2> QED
    BY <1>4, <2>1, <2>5, <2>6, <2>7
<1> QED
  BY <1>3, <1>5, <1>6 DEF ResolveEvent

(* The write: the row has the key the event is created for, or the key is      *)
(* forgotten; the lock keeps other creators of the same key away.              *)
LEMMA TwinCommit ==
    ASSUME TwinInv, IInv, NEW c \in Clients, CommitIngestion(c)
    PROVE  /\ TwinInv'
           /\ txn[c].created \/ ~Dated(originKey'[txn[c].event]) \/ originKey'[txn[c].event] = originKey[txn[c].event]
           /\ txn[c].created => originKey'[txn[c].event] = IdentityKey(c)
           /\ \A e \in Events \ {txn[c].event} : originKey'[e] = originKey[e]
<1> DEFINE f == txn[c].event
<1>0. /\ Tables /\ Local(txn[c]) /\ txn[c].pc = "write" /\ f \in Events
      /\ FieldsTyped(txn[c].fields) /\ (txn[c].created => ~txn[c].alias)
  BY DEF IInv, Working, Local, TwinInv, Resolving, CommitIngestion, At
<1>1. /\ stored' = stored \cup {f} /\ entry' = [entry EXCEPT ![f] = NewEntry(c)]
      /\ originKey' = [originKey EXCEPT ![f] = KeptKey(f, c)] /\ End(c)
  BY DEF CommitIngestion
<1>2. /\ DOMAIN entry = Events /\ DOMAIN originKey = Events /\ \A e \in Events : RowTyped(entry[e])
      /\ \A e \in Events : Dated(originKey[e]) => e \in stored /\ KeyOf(entry[e]) = originKey[e]
  BY DEF TwinInv, KeysKept
<1>3. RowTyped(IdentityEntry(c)) /\ KeyOf(IdentityEntry(c)) = IdentityKey(c)
  BY <1>0, EntryTyped DEF IdentityEntry, IdentityKey, KeyOf
<1>4. RowTyped(NewEntry(c)) /\ (txn[c].created /\ Dated(IdentityKey(c)) => KeyOf(NewEntry(c)) = IdentityKey(c))
  BY <1>0, <1>2, <1>3, WrittenRows DEF NewEntry
<1>5. /\ txn[c].created => KeptKey(f, c) = IdentityKey(c)
      /\ ~txn[c].created => \/ KeptKey(f, c) = originKey[f] /\ KeyOf(NewEntry(c)) = originKey[f]
                            \/ KeptKey(f, c) = NoKey
  BY DEF KeptKey, KeyOf
<1>6. ~Dated(NoKey)
  BY DEF Dated, NoKey
<1>7. Dated(KeptKey(f, c)) => KeyOf(NewEntry(c)) = KeptKey(f, c)
  BY <1>4, <1>5, <1>6
<1>8. KeysKept'
  <2>1. DOMAIN entry' = Events /\ DOMAIN originKey' = Events
    BY <1>1, <1>2
  <2>2. ASSUME NEW e \in Events
        PROVE  RowTyped(entry'[e]) /\ (Dated(originKey'[e]) => e \in stored' /\ KeyOf(entry'[e]) = originKey'[e])
    <3>1. CASE e = f
      BY <1>1, <1>2, <1>4, <1>7, <3>1
    <3>2. CASE e # f
      BY <1>1, <1>2, <3>2
    <3> QED
      BY <3>1, <3>2
  <2> QED
    BY <2>1, <2>2 DEF KeysKept
<1>9. ASSUME NEW q \in Clients \ {c}, txn[q].created, Dated(IdentityKey(q)), NEW e \in Events,
             originKey'[e] = IdentityKey(q)
      PROVE  originKey[e] = IdentityKey(q)
  <2> SUFFICES ASSUME e = f, originKey[f] # IdentityKey(q) PROVE FALSE
    BY <1>1, <1>2, <1>9
  <2>1. KeptKey(f, c) = IdentityKey(q)
    BY <1>0, <1>1, <1>2, <1>9
  <2>2. txn[c].created /\ IdentityKey(c) = IdentityKey(q)
    BY <1>5, <1>6, <1>9, <2>1
  <2>3. identityLock[q] = IdentityKey(q) /\ identityLock[c] = IdentityKey(q)
    BY <1>9, <2>2 DEF TwinInv, Announces
  <2>4. IdentityKey(q) = NoLock
    BY <2>3 DEF TwinInv, OneHolder
  <2> QED
    BY <2>4 DEF IdentityKey, NoLock
<1>10. TwinInv'
  BY <1>0, <1>1, <1>8, <1>9, TwinEnd
<1> QED
  BY <1>0, <1>1, <1>2, <1>5, <1>6, <1>10

LEMMA TwinMerge ==
    ASSUME TwinInv, NEW s \in Events, NEW t \in Events, Merge(s, t)
    PROVE  TwinInv'
<1>1. /\ entry' = [entry EXCEPT ![t] = merge_identity_index(@, entry[s])]
      /\ UNCHANGED <<stored, originKey, identityLock, txn>>
  BY DEF Merge, lockVars
<1>2. /\ DOMAIN entry = Events /\ DOMAIN originKey = Events /\ \A e \in Events : RowTyped(entry[e])
      /\ \A e \in Events : Dated(originKey[e]) => e \in stored /\ KeyOf(entry[e]) = originKey[e]
  BY DEF TwinInv, KeysKept
<1>3. /\ RowTyped(merge_identity_index(entry[t], entry[s]))
      /\ Dated(KeyOf(entry[t])) => KeyOf(merge_identity_index(entry[t], entry[s])) = KeyOf(entry[t])
  BY <1>2, WrittenRows DEF merge_identity_index
<1>4. KeysKept'
  <2>1. ASSUME NEW e \in Events
        PROVE  RowTyped(entry'[e]) /\ (Dated(originKey'[e]) => e \in stored' /\ KeyOf(entry'[e]) = originKey'[e])
    <3>1. CASE e = t
      BY <1>1, <1>2, <1>3, <3>1
    <3>2. CASE e # t
      BY <1>1, <1>2, <3>2
    <3> QED
      BY <3>1, <3>2
  <2> QED
    BY <1>1, <1>2, <2>1 DEF KeysKept
<1>5. OneHolder'
  BY <1>1 DEF TwinInv, OneHolder
<1> QED
  BY <1>1, <1>4, <1>5, OthersAnnounce

LEMMA TwinStep ==
    ASSUME RegistrationsFit, TwinInv, IInv, [Step]_vars
    PROVE  TwinInv'
<1>0. Tables
  BY DEF IInv
<1>1. CASE UNCHANGED vars
  BY <1>1, TwinStutter DEF vars, eventVars, lockVars
<1>2. ASSUME NEW c \in Clients, NEW s \in Submissions, ReplayEarly(c, s) \/ Submit(c, s) PROVE TwinInv'
  BY <1>0, <1>2, TwinStutter, TwinSubmit DEF ReplayEarly, eventVars, lockVars
<1>3. ASSUME NEW c \in Clients, ensure_started(c) \/ ResolveRecord(c) \/ InsertSnapshot(c) PROVE TwinInv'
  BY <1>3, TwinEarly
<1>4. ASSUME NEW c \in Clients, ResolveEvent(c) \/ CommitIngestion(c) PROVE TwinInv'
  BY <1>4, TwinResolve, TwinCommit
<1>5. ASSUME NEW c \in Clients, RefuseMerged(c) \/ Rollback(c) PROVE TwinInv'
  <2>1. End(c) /\ UNCHANGED <<stored, entry, originKey>>
    BY <1>5 DEF RefuseMerged, Rollback, eventVars
  <2> QED
    BY <1>0, <2>1, RowsAlone, TwinEnd DEF TwinInv
<1>6. ASSUME NEW s \in Events, NEW t \in Events, Merge(s, t) PROVE TwinInv'
  BY <1>6, TwinMerge
<1>7. ASSUME NEW s, NEW m, SetSourceFieldMapping(s, m) PROVE TwinInv'
  BY <1>7, TwinStutter DEF SetSourceFieldMapping, eventVars, lockVars
<1> QED
  BY <1>1, <1>2, <1>3, <1>4, <1>5, <1>6, <1>7 DEF Step

LEMMA TwinInit == Init => TwinInv
<1> SUFFICES ASSUME Init PROVE TwinInv
  OBVIOUS
<1>1. KeysKept
  <2>1. RowTyped(NoEntry)
    BY FS_EmptySet DEF RowTyped, NoEntry
  <2>2. ~Dated(NoKey)
    BY DEF Dated, NoKey
  <2> QED
    BY <2>1, <2>2 DEF Init, KeysKept
<1>2. OneHolder
  BY DEF Init, OneHolder
<1>3. ASSUME NEW c \in Clients PROVE Resolving(c) /\ Announces(c)
  BY DEF Init, Resolving, Announces, Idle
<1> QED
  BY <1>1, <1>2, <1>3 DEF TwinInv

Announced ==
    \A f \in stored' \ stored : \A e \in stored :
        /\ originKey'[f] = originKey[e]
        /\ originKey[e][1] > 0
        /\ originKey[e][2] # NoMark
        => \E r \in reviews' : f \in r

LEMMA StepAnnounces ==
    ASSUME TwinInv, IInv, [Step]_vars
    PROVE  Announced
<1> SUFFICES ASSUME NEW f \in stored' \ stored, NEW e \in stored, originKey'[f] = originKey[e], Dated(originKey[e])
             PROVE  \E r \in reviews' : f \in r
  BY DEF Announced, Dated
<1>1. PICK c \in Clients : CommitIngestion(c)
  <2>1. stored' # stored
    OBVIOUS
  <2>2. ASSUME NEW c \in Clients,
               \/ \E s \in Submissions : ReplayEarly(c, s) \/ Submit(c, s)
               \/ ensure_started(c) \/ ResolveRecord(c) \/ InsertSnapshot(c) \/ ResolveEvent(c)
               \/ RefuseMerged(c) \/ Rollback(c)
        PROVE  stored' = stored
    BY <2>2 DEF ReplayEarly, Submit, ensure_started, ResolveRecord, InsertSnapshot, ResolveEvent,
                RefuseMerged, Rollback, eventVars
  <2>3. ASSUME NEW s, NEW t, Merge(s, t) \/ SetSourceFieldMapping(s, t) PROVE stored' = stored
    BY <2>3 DEF Merge, SetSourceFieldMapping, eventVars
  <2>4. UNCHANGED vars => stored' = stored
    BY DEF vars, eventVars
  <2> QED
    BY <2>1, <2>2, <2>3, <2>4 DEF Step
<1>2. f = txn[c].event /\ reviews' = reviews \cup {{x, f} : x \in txn[c].against}
  BY <1>1 DEF CommitIngestion, IngestionResult
<1>3. f \in Events /\ e \in Events
  BY <1>1, <1>2 DEF IInv, Tables, Working, Local, CommitIngestion, At
<1>4. txn[c].created
  <2>1. Dated(originKey'[f])
    OBVIOUS
  <2>2. ~Dated(originKey[f])
    BY <1>3 DEF TwinInv, KeysKept
  <2> QED
    BY <1>1, <1>2, <2>1, <2>2, TwinCommit
<1>5. originKey[e] = IdentityKey(c)
  BY <1>1, <1>2, <1>4, TwinCommit
<1>6. txn[c].against # {}
  BY <1>3, <1>4, <1>5 DEF TwinInv, Announces
<1>7. PICK x \in txn[c].against : TRUE
  BY <1>6
<1>8. {x, f} \in reviews'
  BY <1>2, <1>7
<1> QED
  BY <1>8

(* An idempotency key is used once: whatever clients retry, repeat or race,    *)
(* with merges between any two steps, raw_snapshots holds one row of a run and *)
(* every answer is the one the row keeps.                                      *)
THEOREM KeysAnswerOnce == Spec => []OnceAndForAll
BY Invariance, HoldsOnce, PTL

(* find_latest_event_id_by_source_record_id under the lock of the record keeps *)
(* every claim of a source record on one event, through concurrent corrections *)
(* and merges.                                                                 *)
THEOREM RecordsStayTogether == Spec => []RecordContinuity
BY Invariance, HoldsContinuity, PTL

(* The same with the NTSB importer running, being killed and run again among   *)
(* the clients.                                                                *)
THEOREM LoadKeepsBoth == LoadSpec => [](OnceAndForAll /\ RecordContinuity)
<1>1. LoadInv => OnceAndForAll /\ RecordContinuity
  BY HoldsOnce, HoldsContinuity DEF LoadInv
<1> QED
  BY <1>1, LoadInvariance, PTL

(* lock_for_identity_resolution and EventMatcher.decide together let no twin   *)
(* be added in silence, with any clients and merges and the importer among     *)
(* them and with any number of events, as long as the rows that carry one      *)
(* registration within a day of the accident fit on the page that              *)
(* find_by_registration reads when an ingestion looks for them.                *)
THEOREM TwinsAreAnnounced ==
    /\ Spec /\ []RegistrationsFit => TwinAnnounced
    /\ LoadSpec /\ []RegistrationsFit => TwinAnnounced
<1>1. RegistrationsFit /\ TwinInv /\ IInv /\ [Next]_vars => TwinInv' /\ [Announced]_vars
  BY NextIsStep, TwinStep, StepAnnounces
<1>2. RegistrationsFit /\ TwinInv /\ LoadInv /\ [LoadNext]_allVars => TwinInv' /\ [Announced]_vars
  BY LoadIsStep, TwinStep, StepAnnounces DEF LoadInv
<1>3. LoadInit => Init
  BY DEF LoadInit
<1>4. [][Announced]_vars => TwinAnnounced
  BY PTL DEF TwinAnnounced, Announced
<1>5. Spec /\ []RegistrationsFit => TwinAnnounced
  BY <1>1, <1>4, Invariance, TwinInit, PTL DEF Spec
<1>6. LoadSpec /\ []RegistrationsFit => TwinAnnounced
  BY <1>2, <1>3, <1>4, LoadInvariance, TwinInit, PTL DEF LoadSpec
<1> QED
  BY <1>5, <1>6
================================================================================
