----------------------------- MODULE DataProofs -----------------------------
(***************************************************************************)
(* The two modules that compute with data, MetricsSnapshot and             *)
(* JsonRedaction, for any size of it: lists of channels of any length,     *)
(* values of any depth.  Both are proved by induction over the naturals,   *)
(* on the length and on the depth, from the one lemma at the beginning.    *)
(***************************************************************************)
EXTENDS MetricsSnapshot, JsonRedaction, FiniteSetTheorems, WellFoundedInduction, TLAPS

(* Induction over the naturals, for a set of them.                         *)
Lt == {ss \in Nat \X Nat : ss[1] < ss[2]}

LEMMA SetInduction ==
    ASSUME NEW T, 0 \in T, \A n \in Nat : n \in T => n + 1 \in T
    PROVE  Nat \subseteq T
<1>. SUFFICES ASSUME Nat \ T # {} PROVE FALSE
  OBVIOUS
<1>1. IsWellFoundedOn(Lt, Nat)
  BY NatLessThanWellFounded DEF OpToRel, Lt
<1>2. PICK x \in Nat \ T : \A y \in Nat \ T : ~ (<<y, x>> \in Lt)
  BY <1>1, WFMin
<1>3. x - 1 \in Nat
  OBVIOUS
<1>4. <<x - 1, x>> \in Lt
  BY <1>3 DEF Lt
<1>5. x - 1 \in T
  BY <1>2, <1>3, <1>4
<1>. QED  BY <1>3, <1>5

-----------------------------------------------------------------------------
(***************************************************************************)
(* MetricsSnapshot.  The totals are sums over the values of a function:    *)
(* the first part is about them, whatever is summed.                       *)
(***************************************************************************)

(* Sums.  The library adds the values in the order in which it chooses     *)
(* elements of what is left of the domain.                                 *)
Chosen(s) == CHOOSE x \in s : TRUE

IsSum(g, f) ==
    g = [s \in SUBSET DOMAIN f |->
           IF s = {} THEN 0 ELSE f[Chosen(s)] + g[s \ {Chosen(s)}]]
TheSum(f) == CHOOSE g : IsSum(g, f)

Numeric(f) == IsFiniteSet(DOMAIN f) /\ \A x \in DOMAIN f : f[x] \in Nat

LEMMA TotalIsTheSum == ASSUME NEW f PROVE Total(f) = TheSum(f)[DOMAIN f]
  BY DEF Total, MapThenSumSet, MapThenFoldSet, TheSum, IsSum, Chosen

(* Taking the chosen element away leaves a smaller set.                    *)
LEMMA Smaller ==
    ASSUME NEW D, IsFiniteSet(D), NEW s \in SUBSET D, NEW n \in Nat, Cardinality(s) <= n + 1,
           NEW x \in s
    PROVE  s \ {x} \in SUBSET D /\ IsFiniteSet(s \ {x}) /\ Cardinality(s \ {x}) <= n
<1>1. IsFiniteSet(s)
  BY FS_Subset
<1>2. IsFiniteSet(s \ {x}) /\ Cardinality(s \ {x}) = Cardinality(s) - 1
  BY <1>1, FS_RemoveElement
<1>3. Cardinality(s) \in Nat
  BY <1>1, FS_CardinalityType
<1>. QED  BY <1>2, <1>3

LEMMA EmptyIfZero ==
    ASSUME NEW D, IsFiniteSet(D), NEW s \in SUBSET D, Cardinality(s) <= 0
    PROVE  s = {}
<1>1. IsFiniteSet(s)
  BY FS_Subset
<1>2. Cardinality(s) \in Nat
  BY <1>1, FS_CardinalityType
<1>. QED  BY <1>1, <1>2, FS_EmptySet

(* The recursion of the sum has a solution on every finite domain.         *)
Upto(f, n) == {s \in SUBSET DOMAIN f : Cardinality(s) <= n}
IsSumUpto(g, f, n) ==
    g = [s \in Upto(f, n) |-> IF s = {} THEN 0 ELSE f[Chosen(s)] + g[s \ {Chosen(s)}]]

LEMMA SumExists ==
    ASSUME NEW f, IsFiniteSet(DOMAIN f)
    PROVE  IsSum(TheSum(f), f)
<1>. DEFINE T == {n \in Nat : \E g : IsSumUpto(g, f, n)}
<1>1. 0 \in T
  <2>. DEFINE g == [s \in Upto(f, 0) |-> 0]
  <2>1. \A s \in Upto(f, 0) : s = {}
    BY EmptyIfZero DEF Upto
  <2>2. IsSumUpto(g, f, 0)
    BY <2>1 DEF IsSumUpto
  <2>. QED  BY <2>2
<1>2. ASSUME NEW n \in Nat, n \in T PROVE n + 1 \in T
  <2>1. PICK g : IsSumUpto(g, f, n)
    BY <1>2
  <2>. DEFINE h == [s \in Upto(f, n + 1) |->
                      IF s = {} THEN 0 ELSE f[Chosen(s)] + g[s \ {Chosen(s)}]]
  <2>2. ASSUME NEW t \in Upto(f, n) PROVE h[t] = g[t]
    <3>1. t \in Upto(f, n + 1)
      <4>1. IsFiniteSet(t)
        BY FS_Subset DEF Upto
      <4>2. Cardinality(t) \in Nat
        BY <4>1, FS_CardinalityType
      <4>. QED  BY <4>2 DEF Upto
    <3>2. g[t] = IF t = {} THEN 0 ELSE f[Chosen(t)] + g[t \ {Chosen(t)}]
      BY <2>1 DEF IsSumUpto
    <3>. QED  BY <3>1, <3>2
  <2>3. ASSUME NEW s \in Upto(f, n + 1), s # {}
        PROVE  h[s \ {Chosen(s)}] = g[s \ {Chosen(s)}]
    <3>1. Chosen(s) \in s
      BY <2>3 DEF Chosen
    <3>2. s \ {Chosen(s)} \in Upto(f, n)
      BY <3>1, Smaller DEF Upto
    <3>. QED  BY <2>2, <3>2
  <2>. HIDE DEF h
  <2>4. h = [s \in Upto(f, n + 1) |->
               IF s = {} THEN 0 ELSE f[Chosen(s)] + h[s \ {Chosen(s)}]]
    <3>1. h = [s \in Upto(f, n + 1) |->
                 IF s = {} THEN 0 ELSE f[Chosen(s)] + g[s \ {Chosen(s)}]]
      BY DEF h
    <3>. QED  BY <2>3, <3>1
  <2>5. IsSumUpto(h, f, n + 1)
    BY <2>4 DEF IsSumUpto
  <2>. QED  BY <2>5
<1>. HIDE DEF T
<1>3. Cardinality(DOMAIN f) \in T
  BY <1>1, <1>2, SetInduction, FS_CardinalityType
<1>4. PICK g : IsSumUpto(g, f, Cardinality(DOMAIN f))
  BY <1>3 DEF T
<1>5. Upto(f, Cardinality(DOMAIN f)) = SUBSET DOMAIN f
  BY FS_Subset DEF Upto
<1>6. IsSum(g, f)
  BY <1>4, <1>5 DEF IsSum, IsSumUpto
<1>. QED  BY <1>6 DEF TheSum

(* The order in which the values are added makes no difference: any        *)
(* element of the set may be the last one.                                 *)
LEMMA SumStep ==
    ASSUME NEW f, Numeric(f), NEW g, IsSum(g, f), NEW s \in SUBSET DOMAIN f
    PROVE  /\ g[s] \in Nat
           /\ s = {} => g[s] = 0
           /\ \A x \in s : g[s] = f[x] + g[s \ {x}]
<1>. DEFINE Good(t) == g[t] \in Nat /\ \A x \in t : g[t] = f[x] + g[t \ {x}]
            T == {n \in Nat : \A t \in SUBSET DOMAIN f : Cardinality(t) <= n => Good(t)}
<1>0. \A t \in SUBSET DOMAIN f :
        g[t] = IF t = {} THEN 0 ELSE f[Chosen(t)] + g[t \ {Chosen(t)}]
  BY DEF IsSum
<1>1. 0 \in T
  <2>1. ASSUME NEW t \in SUBSET DOMAIN f, Cardinality(t) <= 0 PROVE Good(t)
    <3>1. t = {}
      BY <2>1, EmptyIfZero DEF Numeric
    <3>2. g[t] = 0
      BY <1>0, <3>1
    <3>. QED  BY <3>1, <3>2
  <2>. HIDE DEF Good
  <2>. QED  BY <2>1
<1>2. ASSUME NEW n \in Nat, n \in T PROVE n + 1 \in T
  <2>1. ASSUME NEW t \in SUBSET DOMAIN f, Cardinality(t) <= n + 1 PROVE Good(t)
    <3>1. CASE t = {}
      <4>1. g[t] = 0
        BY <1>0, <3>1
      <4>. QED  BY <3>1, <4>1
    <3>2. CASE t # {}
      <4>. DEFINE c == Chosen(t)
      <4>1. c \in t
        BY <3>2 DEF Chosen
      <4>2. g[t] = f[c] + g[t \ {c}]
        BY <1>0, <3>2
      <4>. HIDE DEF c
      <4>3. ASSUME NEW x \in t
            PROVE  t \ {x} \in SUBSET DOMAIN f /\ Good(t \ {x}) /\ f[x] \in Nat
        <5>1. t \ {x} \in SUBSET DOMAIN f /\ Cardinality(t \ {x}) <= n
          BY <2>1, Smaller DEF Numeric
        <5>. HIDE DEF Good
        <5>. QED  BY <1>2, <5>1 DEF Numeric
      <4>4. g[t] \in Nat
        <5>1. f[c] \in Nat /\ g[t \ {c}] \in Nat
          BY <4>1, <4>3
        <5>. QED  BY <4>2, <5>1
      <4>5. ASSUME NEW x \in t, x # c PROVE g[t] = f[x] + g[t \ {x}]
        <5>. DEFINE w == (t \ {c}) \ {x}
        <5>1. g[t \ {c}] = f[x] + g[w]
          BY <4>1, <4>3, <4>5
        <5>2. w = (t \ {x}) \ {c} /\ c \in t \ {x}
          BY <4>1, <4>5
        <5>3. g[t \ {x}] = f[c] + g[w]
          BY <4>3, <5>2
        <5>4. g[w] \in Nat
          <6>1. w \in SUBSET DOMAIN f /\ Cardinality(w) <= n + 1
            <7>1. IsFiniteSet(t) /\ Cardinality(w) <= Cardinality(t) /\ Cardinality(t) \in Nat
                  /\ Cardinality(w) \in Nat
              BY FS_Subset, FS_CardinalityType DEF Numeric
            <7>. QED  BY <2>1, <7>1
          <6>2. Cardinality(w) <= n
            <7>1. IsFiniteSet(t \ {c}) /\ Cardinality(t \ {c}) <= n
              BY <2>1, <4>1, Smaller DEF Numeric
            <7>2. /\ Cardinality(w) <= Cardinality(t \ {c})
                  /\ Cardinality(w) \in Nat /\ Cardinality(t \ {c}) \in Nat
              BY <7>1, FS_Subset, FS_CardinalityType
            <7>. QED  BY <7>1, <7>2
          <6>. QED  BY <1>2, <6>1, <6>2
        <5>5. f[c] \in Nat /\ f[x] \in Nat
          BY <4>1, <4>3
        <5>. HIDE DEF w
        <5>6. g[t] = f[c] + (f[x] + g[w])
          BY <4>2, <5>1
        <5>. QED  BY <5>3, <5>4, <5>5, <5>6
      <4>. QED  BY <4>2, <4>4, <4>5
    <3>. QED  BY <3>1, <3>2
  <2>. HIDE DEF Good
  <2>. QED  BY <2>1
<1>3. IsFiniteSet(s) /\ Cardinality(s) \in Nat
  BY FS_Subset, FS_CardinalityType DEF Numeric
<1>4. Cardinality(s) \in T
  <2>. HIDE DEF T
  <2>. QED  BY <1>1, <1>2, <1>3, SetInduction
<1>5. Good(s)
  <2>. HIDE DEF Good
  <2>. QED  BY <1>3, <1>4
<1>. QED  BY <1>0, <1>5

(* Functions that agree on a set have the same sum over it.                *)
LEMMA SumAgree ==
    ASSUME NEW f, NEW g, Numeric(f), IsSum(g, f), NEW e, NEW h, Numeric(e), IsSum(h, e),
           NEW s \in SUBSET DOMAIN f, s \in SUBSET DOMAIN e, \A x \in s : f[x] = e[x]
    PROVE  g[s] = h[s]
<1>. DEFINE T == {n \in Nat : \A t \in SUBSET s : Cardinality(t) <= n => g[t] = h[t]}
<1>0. IsFiniteSet(s) /\ Cardinality(s) \in Nat
  BY FS_Subset, FS_CardinalityType DEF Numeric
<1>1. 0 \in T
  <2>1. ASSUME NEW t \in SUBSET s, Cardinality(t) <= 0 PROVE g[t] = h[t]
    <3>1. t = {}
      BY <1>0, <2>1, EmptyIfZero
    <3>. QED  BY <3>1, SumStep
  <2>. QED  BY <2>1
<1>2. ASSUME NEW n \in Nat, n \in T PROVE n + 1 \in T
  <2>1. ASSUME NEW t \in SUBSET s, Cardinality(t) <= n + 1 PROVE g[t] = h[t]
    <3>1. CASE t = {}
      BY <3>1, SumStep
    <3>2. CASE t # {}
      <4>1. PICK x \in t : TRUE
        BY <3>2
      <4>2. t \ {x} \in SUBSET s /\ Cardinality(t \ {x}) <= n
        BY <1>0, <2>1, Smaller
      <4>3. g[t \ {x}] = h[t \ {x}]
        BY <1>2, <4>2
      <4>4. g[t] = f[x] + g[t \ {x}]
        BY SumStep
      <4>5. h[t] = e[x] + h[t \ {x}]
        BY SumStep
      <4>. QED  BY <4>3, <4>4, <4>5
    <3>. QED  BY <3>1, <3>2
  <2>. QED  BY <2>1
<1>. HIDE DEF T
<1>3. Cardinality(s) \in T
  BY <1>0, <1>1, <1>2, SetInduction
<1>. QED  BY <1>0, <1>3 DEF T

-----------------------------------------------------------------------------
(* Totals.                                                                 *)

LEMMA TotalEmpty ==
    ASSUME NEW f, DOMAIN f = {}
    PROVE  Numeric(f) /\ Total(f) = 0
<1>1. Numeric(f)
  BY FS_EmptySet DEF Numeric
<1>2. IsSum(TheSum(f), f)
  BY <1>1, SumExists DEF Numeric
<1>. QED  BY <1>1, <1>2, SumStep, TotalIsTheSum

LEMMA TotalType == ASSUME NEW f, Numeric(f) PROVE Total(f) \in Nat
<1>1. IsSum(TheSum(f), f)
  BY SumExists DEF Numeric
<1>. QED  BY <1>1, SumStep, TotalIsTheSum

LEMMA WithType ==
    ASSUME NEW f, Numeric(f), NEW x, NEW v \in Nat
    PROVE  Numeric(With(f, x, v))
<1>1. DOMAIN With(f, x, v) = DOMAIN f \cup {x}
  BY DEF With
<1>2. IsFiniteSet(DOMAIN f \cup {x})
  BY FS_AddElement DEF Numeric
<1>3. \A y \in DOMAIN f \cup {x} : With(f, x, v)[y] \in Nat
  BY DEF With, Numeric
<1>. QED  BY <1>1, <1>2, <1>3 DEF Numeric

(* What an entry of a map, new or not, does to the total of the map.       *)
LEMMA TotalWith ==
    ASSUME NEW f, Numeric(f), NEW x, NEW v \in Nat
    PROVE  /\ Entry(f, x) \in Nat
           /\ Total(With(f, x, v)) + Entry(f, x) = Total(f) + v
           /\ Entry(f, x) <= Total(f)
<1>. DEFINE h == With(f, x, v)
            rest == DOMAIN f \ {x}
            F == TheSum(f)
            H == TheSum(h)
<1>1. /\ DOMAIN h = DOMAIN f \cup {x} /\ h[x] = v
      /\ \A y \in DOMAIN f : y # x => h[y] = f[y]
  BY DEF With
<1>2. Numeric(h)
  BY WithType
<1>. HIDE DEF h
<1>3. IsSum(F, f) /\ IsSum(H, h)
  BY <1>2, SumExists DEF Numeric
<1>. HIDE DEF F, H
<1>4. F[rest] = H[rest] /\ F[rest] \in Nat
  <2>1. rest \in SUBSET DOMAIN f /\ rest \in SUBSET DOMAIN h /\ \A y \in rest : f[y] = h[y]
    BY <1>1
  <2>. QED  BY <1>2, <1>3, <2>1, SumAgree, SumStep
<1>5. H[DOMAIN h] = v + H[rest]
  <2>1. x \in DOMAIN h /\ DOMAIN h \ {x} = rest
    BY <1>1
  <2>2. H[DOMAIN h] = h[x] + H[DOMAIN h \ {x}]
    BY <1>2, <1>3, <2>1, SumStep
  <2>. QED  BY <1>1, <2>1, <2>2
<1>6. F[DOMAIN f] = Entry(f, x) + F[rest] /\ Entry(f, x) \in Nat
  <2>1. CASE x \in DOMAIN f
    <3>1. F[DOMAIN f] = f[x] + F[rest]
      BY <1>3, <2>1, SumStep
    <3>. QED  BY <2>1, <3>1 DEF Entry, Numeric
  <2>2. CASE x \notin DOMAIN f
    <3>1. rest = DOMAIN f
      BY <2>2
    <3>. QED  BY <1>4, <2>2, <3>1 DEF Entry
  <2>. QED  BY <2>1, <2>2
<1>7. Total(f) = F[DOMAIN f] /\ Total(h) = H[DOMAIN h]
  BY TotalIsTheSum DEF F, H
<1>8. Total(h) + Entry(f, x) = Total(f) + v /\ Entry(f, x) <= Total(f)
  BY <1>4, <1>5, <1>6, <1>7
<1>. QED  BY <1>6, <1>8 DEF h

-----------------------------------------------------------------------------
(* The invariant.                                                          *)

(* How many channels fetch has turned into snapshots, and how many of them *)
(* are in the labelled families.                                           *)
Built == IF phase = "fetch" THEN k - 1 ELSE Len(list)
Shown == IF phase = "collect" THEN k - 1 ELSE IF phase = "done" THEN Len(list) ELSE 0

ListOK == list \in Seq(Channel) /\ Distinct(list)

PhaseOK ==
    /\ phase \in {"fetch", "scalars", "collect", "done"}
    /\ k \in 1 .. Len(list) + 1
    /\ phase = "scalars" => k = 1

(* The snapshots made of the first n channels of l.                        *)
Snapshot(c) ==
    [peer |-> c.peer, scid |-> ScidLabel(c), spendable |-> AmountOrZero(c.spendable),
     offered |-> c.offered]
SnapshotsOf(l, n) == [i \in 1 .. n |-> Snapshot(l[i])]

(* The map f counts the channels at the positions I of l by their peer.    *)
OfPeer(l, I, p) == {i \in I : l[i].peer = p}
CountsPeers(f, l, I) ==
    /\ Numeric(f)
    /\ DOMAIN f = {l[i].peer : i \in I}
    /\ \A p \in DOMAIN f : f[p] = Cardinality(OfPeer(l, I, p))
    /\ Total(f) = Cardinality(I)

Linked(l, n) == {i \in 1 .. n : l[i].connected}

FetchOK ==
    /\ channels = SnapshotsOf(list, Built)
    /\ CountsPeers(peerCount, list, 1 .. Built)
    /\ CountsPeers(connectedCount, list, Linked(list, Built))

AmountsOf(l, n)  == [i \in 1 .. n |-> AmountOrZero(l[i].spendable)]
PaymentsOf(l, n) == [i \in 1 .. n |-> l[i].offered]

TotalsOK ==
    phase \in {"collect", "done"} =>
        totals = [outbound |-> Total(AmountsOf(list, Len(list))),
                  peers    |-> Cardinality(DOMAIN peerCount),
                  channels |-> Len(list)]

Labels(c) == <<c.peer, ScidLabel(c)>>
LabelsApart(l, n) == \A i, j \in 1 .. n : Labels(l[i]) = Labels(l[j]) => i = j

(* The families f and g show the spendable amounts and the payments of the *)
(* first n channels of l.                                                  *)
ShowsAmounts(f, l, n) ==
    /\ DOMAIN f = {Labels(l[i]) : i \in 1 .. n}
    /\ Numeric(f)
    /\ \A i \in 1 .. n : HasId(l[i]) => f[Labels(l[i])] = AmountOrZero(l[i].spendable)
    /\ Total(f) <= Total(AmountsOf(l, n))
    /\ LabelsApart(l, n) => Total(f) = Total(AmountsOf(l, n))
ShowsPayments(g, l, n) ==
    /\ Numeric(g)
    /\ Total(g) = Total(PaymentsOf(l, n))

CollectOK == ShowsAmounts(spendable, list, Shown) /\ ShowsPayments(offered, list, Shown)

SnapInv == ListOK /\ PhaseOK /\ FetchOK /\ TotalsOK /\ CollectOK

-----------------------------------------------------------------------------
(* One channel more.                                                       *)

(* Counting one channel more by its peer.                                  *)
LEMMA CountStep ==
    ASSUME NEW f, NEW l, NEW I, IsFiniteSet(I), CountsPeers(f, l, I), NEW n, n \notin I
    PROVE  CountsPeers(With(f, l[n].peer, Entry(f, l[n].peer) + 1), l, I \cup {n})
<1>. DEFINE q == l[n].peer
            v == Entry(f, q) + 1
            h == With(f, q, v)
<1>1. Entry(f, q) \in Nat /\ v \in Nat
  BY TotalWith DEF CountsPeers
<1>2. Numeric(h) /\ Total(h) + Entry(f, q) = Total(f) + v
  BY <1>1, WithType, TotalWith DEF CountsPeers
<1>3. Cardinality(I \cup {n}) = Cardinality(I) + 1 /\ Cardinality(I) \in Nat
  BY FS_AddElement, FS_CardinalityType
<1>4. Total(h) = Cardinality(I \cup {n})
  <2>1. Total(h) \in Nat /\ Total(f) = Cardinality(I)
    BY <1>2, TotalType DEF CountsPeers
  <2>. QED  BY <1>1, <1>2, <1>3, <2>1
<1>5. DOMAIN h = {l[i].peer : i \in I \cup {n}}
  <2>1. DOMAIN h = DOMAIN f \cup {q}
    BY DEF With
  <2>. QED  BY <2>1 DEF CountsPeers
<1>6. ASSUME NEW p \in DOMAIN h PROVE h[p] = Cardinality(OfPeer(l, I \cup {n}, p))
  <2>1. CASE p # q
    <3>1. OfPeer(l, I \cup {n}, p) = OfPeer(l, I, p)
      BY <2>1 DEF OfPeer
    <3>2. p \in DOMAIN f /\ h[p] = f[p]
      BY <2>1 DEF With
    <3>. QED  BY <3>1, <3>2 DEF CountsPeers
  <2>2. CASE p = q
    <3>1. OfPeer(l, I \cup {n}, p) = OfPeer(l, I, p) \cup {n} /\ n \notin OfPeer(l, I, p)
      BY <2>2 DEF OfPeer
    <3>2. IsFiniteSet(OfPeer(l, I, p))
      BY FS_Subset DEF OfPeer
    <3>3. Cardinality(OfPeer(l, I \cup {n}, p)) = Cardinality(OfPeer(l, I, p)) + 1
      BY <3>1, <3>2, FS_AddElement
    <3>4. h[p] = v
      BY <2>2 DEF With
    <3>5. Entry(f, q) = Cardinality(OfPeer(l, I, p))
      <4>1. CASE q \in DOMAIN f
        BY <2>2, <4>1 DEF Entry, CountsPeers
      <4>2. CASE q \notin DOMAIN f
        <5>1. OfPeer(l, I, p) = {}
          BY <2>2, <4>2 DEF OfPeer, CountsPeers
        <5>. QED  BY <4>2, <5>1, FS_EmptySet DEF Entry
      <4>. QED  BY <4>1, <4>2
    <3>. QED  BY <3>3, <3>4, <3>5
  <2>. QED  BY <2>1, <2>2
<1>. QED  BY <1>2, <1>4, <1>5, <1>6 DEF CountsPeers

(* A list with one value more has that value more in total.                *)
LEMMA PrefixStep ==
    ASSUME NEW n \in Nat, NEW a, NEW b,
           a = [i \in 1 .. n |-> a[i]], b = [i \in 1 .. n + 1 |-> b[i]],
           \A i \in 1 .. n : b[i] = a[i], Numeric(a), b[n + 1] \in Nat
    PROVE  Numeric(b) /\ Total(b) = Total(a) + b[n + 1]
<1>. DEFINE h == With(a, n + 1, b[n + 1])
<1>1. DOMAIN a = 1 .. n /\ DOMAIN b = 1 .. n + 1 /\ n + 1 \notin 1 .. n
  OBVIOUS
<1>2. 1 .. n + 1 = (1 .. n) \cup {n + 1}
  OBVIOUS
<1>3. \A i \in 1 .. n + 1 : b[i] = IF i = n + 1 THEN b[n + 1] ELSE a[i]
  BY <1>2
<1>4. h = [i \in 1 .. n + 1 |-> IF i = n + 1 THEN b[n + 1] ELSE a[i]]
  BY <1>1, <1>2 DEF With
<1>5. h = b
  BY <1>3, <1>4
<1>6. Numeric(h)
  BY WithType
<1>7. Total(h) + Entry(a, n + 1) = Total(a) + b[n + 1]
  BY TotalWith
<1>8. Entry(a, n + 1) = 0
  BY <1>1 DEF Entry
<1>9. Total(h) \in Nat /\ Total(a) \in Nat
  BY <1>6, TotalType
<1>. HIDE DEF h
<1>. QED  BY <1>5, <1>6, <1>7, <1>8, <1>9

(* The figures of a channel, and what a channel more does to their sums.   *)
LEMMA Figures ==
    ASSUME NEW c \in Channel
    PROVE  AmountOrZero(c.spendable) \in Nat /\ c.offered \in Nat
  BY AmountsAssumption DEF Channel, AmountOrZero

LEMMA SumsType ==
    ASSUME NEW l \in Seq(Channel), NEW n \in Nat, n <= Len(l)
    PROVE  Numeric(AmountsOf(l, n)) /\ Numeric(PaymentsOf(l, n))
<1>1. IsFiniteSet(1 .. n)
  BY FS_Interval
<1>2. ASSUME NEW i \in 1 .. n PROVE AmountOrZero(l[i].spendable) \in Nat /\ l[i].offered \in Nat
  BY Figures
<1>. QED  BY <1>1, <1>2 DEF Numeric, AmountsOf, PaymentsOf

LEMMA SumsStep ==
    ASSUME NEW l \in Seq(Channel), NEW n \in Nat, n + 1 <= Len(l)
    PROVE  /\ Numeric(AmountsOf(l, n + 1)) /\ Numeric(PaymentsOf(l, n + 1))
           /\ Total(AmountsOf(l, n + 1))
                = Total(AmountsOf(l, n)) + AmountOrZero(l[n + 1].spendable)
           /\ Total(PaymentsOf(l, n + 1)) = Total(PaymentsOf(l, n)) + l[n + 1].offered
<1>1. AmountOrZero(l[n + 1].spendable) \in Nat /\ l[n + 1].offered \in Nat
  BY Figures
<1>2. n + 1 \in 1 .. n + 1 /\ 1 .. n \subseteq 1 .. n + 1 /\ n <= Len(l)
  OBVIOUS
<1>3. Numeric(AmountsOf(l, n + 1)) /\
      Total(AmountsOf(l, n + 1)) = Total(AmountsOf(l, n)) + AmountOrZero(l[n + 1].spendable)
  <2>. DEFINE a == AmountsOf(l, n)  b == AmountsOf(l, n + 1)
  <2>1. a = [i \in 1 .. n |-> a[i]] /\ b = [i \in 1 .. n + 1 |-> b[i]]
        /\ (\A i \in 1 .. n : b[i] = a[i]) /\ b[n + 1] = AmountOrZero(l[n + 1].spendable)
    BY <1>2 DEF AmountsOf
  <2>. HIDE DEF a, b
  <2>2. Numeric(a)
    BY <1>2, SumsType DEF a
  <2>3. Numeric(b) /\ Total(b) = Total(a) + b[n + 1]
    BY <1>1, <2>1, <2>2, PrefixStep
  <2>. QED  BY <2>1, <2>3 DEF a, b
<1>4. Numeric(PaymentsOf(l, n + 1)) /\
      Total(PaymentsOf(l, n + 1)) = Total(PaymentsOf(l, n)) + l[n + 1].offered
  <2>. DEFINE a == PaymentsOf(l, n)  b == PaymentsOf(l, n + 1)
  <2>1. a = [i \in 1 .. n |-> a[i]] /\ b = [i \in 1 .. n + 1 |-> b[i]]
        /\ (\A i \in 1 .. n : b[i] = a[i]) /\ b[n + 1] = l[n + 1].offered
    BY <1>2 DEF PaymentsOf
  <2>. HIDE DEF a, b
  <2>2. Numeric(a)
    BY <1>2, SumsType DEF a
  <2>3. Numeric(b) /\ Total(b) = Total(a) + b[n + 1]
    BY <1>1, <2>1, <2>2, PrefixStep
  <2>. QED  BY <2>1, <2>3 DEF a, b
<1>. QED  BY <1>3, <1>4

(* Two channels share their labels only when both are without an id.       *)
LEMMA LabelsCollide ==
    ASSUME NEW l \in Seq(Channel), Distinct(l), NEW i \in DOMAIN l, NEW j \in DOMAIN l,
           i # j, Labels(l[i]) = Labels(l[j])
    PROVE  l[i].peer = l[j].peer /\ ~HasId(l[i]) /\ ~HasId(l[j])
<1>1. l[i] \in Channel /\ l[j] \in Channel
  OBVIOUS
<1>2. l[i].peer = l[j].peer /\ ScidLabel(l[i]) = ScidLabel(l[j])
  BY DEF Labels
<1>3. /\ l[i].scid = l[j].scid => l[i].scid = None
      /\ l[i].id = l[j].id => l[i].id = None
  BY DEF Distinct
<1>4. /\ l[i].scid \in Scids \cup {None} /\ l[i].id \in ChannelIds \cup {None}
      /\ l[j].scid \in Scids \cup {None} /\ l[j].id \in ChannelIds \cup {None}
  BY <1>1 DEF Channel
<1>5. ~HasId(l[i]) \/ ~HasId(l[j]) => ~HasId(l[i]) /\ ~HasId(l[j])
  BY <1>2, <1>4, LabelsAssumption, NoneAssumption DEF ScidLabel, HasId
<1>6. ~(HasId(l[i]) /\ HasId(l[j]))
  BY <1>2, <1>3, <1>4, LabelsAssumption, NoneAssumption DEF ScidLabel, HasId
<1>. QED  BY <1>2, <1>5, <1>6

(* A family with the amount of one channel more set.                       *)
LEMMA ShowAmount ==
    ASSUME NEW l \in Seq(Channel), Distinct(l), NEW n \in Nat, n + 1 <= Len(l),
           NEW f, ShowsAmounts(f, l, n)
    PROVE  ShowsAmounts(With(f, Labels(l[n + 1]), AmountOrZero(l[n + 1].spendable)), l, n + 1)
<1>. DEFINE q == Labels(l[n + 1])
            v == AmountOrZero(l[n + 1].spendable)
            h == With(f, q, v)
<1>1. 1 .. n + 1 = (1 .. n) \cup {n + 1} /\ n + 1 \notin 1 .. n /\ 1 .. n + 1 \subseteq DOMAIN l
  OBVIOUS
<1>2. v \in Nat
  BY Figures
<1>3. /\ Numeric(h) /\ Entry(f, q) \in Nat
      /\ Total(h) + Entry(f, q) = Total(f) + v
  BY <1>2, WithType, TotalWith DEF ShowsAmounts
<1>4. Total(AmountsOf(l, n + 1)) = Total(AmountsOf(l, n)) + v
  BY SumsStep
<1>5. Total(h) \in Nat /\ Total(f) \in Nat /\ Total(AmountsOf(l, n)) \in Nat
  <2>1. n <= Len(l)
    OBVIOUS
  <2>2. Numeric(AmountsOf(l, n)) /\ Numeric(f)
    BY <2>1, SumsType DEF ShowsAmounts
  <2>. QED  BY <1>3, <2>2, TotalType
<1>6. DOMAIN h = {Labels(l[i]) : i \in 1 .. n + 1}
  <2>1. DOMAIN h = DOMAIN f \cup {q}
    BY DEF With
  <2>. QED  BY <1>1, <2>1 DEF ShowsAmounts
<1>7. ASSUME NEW i \in 1 .. n + 1, HasId(l[i])
      PROVE  h[Labels(l[i])] = AmountOrZero(l[i].spendable)
  <2>1. CASE i = n + 1
    BY <2>1 DEF With
  <2>2. CASE i \in 1 .. n
    <3>1. Labels(l[i]) # q
      BY <1>1, <1>7, <2>2, LabelsCollide
    <3>2. Labels(l[i]) \in DOMAIN f
      BY <2>2 DEF ShowsAmounts
    <3>3. h[Labels(l[i])] = f[Labels(l[i])]
      BY <3>1, <3>2 DEF With
    <3>. QED  BY <1>7, <2>2, <3>3 DEF ShowsAmounts
  <2>. QED  BY <1>1, <2>1, <2>2
<1>8. Total(h) <= Total(AmountsOf(l, n + 1))
  <2>1. Total(f) <= Total(AmountsOf(l, n))
    BY DEF ShowsAmounts
  <2>. HIDE DEF h, v
  <2>. QED  BY <1>2, <1>3, <1>4, <1>5, <2>1
<1>9. ASSUME LabelsApart(l, n + 1) PROVE Total(h) = Total(AmountsOf(l, n + 1))
  <2>1. LabelsApart(l, n)
    BY <1>1, <1>9 DEF LabelsApart
  <2>2. Total(f) = Total(AmountsOf(l, n))
    BY <2>1 DEF ShowsAmounts
  <2>3. q \notin DOMAIN f
    BY <1>1, <1>9 DEF LabelsApart, ShowsAmounts
  <2>4. Entry(f, q) = 0
    BY <2>3 DEF Entry
  <2>. HIDE DEF h, v
  <2>. QED  BY <1>2, <1>3, <1>4, <1>5, <2>2, <2>4
<1>. HIDE DEF h
<1>10. ShowsAmounts(h, l, n + 1)
  BY <1>3, <1>6, <1>7, <1>8, <1>9 DEF ShowsAmounts
<1>. QED  BY <1>10 DEF h

(* A family with the payments of one channel more added.                   *)
LEMMA ShowPayments ==
    ASSUME NEW l \in Seq(Channel), NEW n \in Nat, n + 1 <= Len(l), NEW g, ShowsPayments(g, l, n)
    PROVE  ShowsPayments(Increased(g, Labels(l[n + 1]), l[n + 1].offered), l, n + 1)
<1>. DEFINE q == Labels(l[n + 1])
            e == Entry(g, q)
            v == l[n + 1].offered
            h == With(g, q, e + v)
<1>1. v \in Nat /\ e \in Nat
  <2>1. l[n + 1] \in Channel /\ Numeric(g)
    BY DEF ShowsPayments
  <2>2. e \in Nat
    <3>. HIDE DEF q, v
    <3>. QED  BY <2>1, TotalWith
  <2>. QED  BY <2>1, <2>2, Figures
<1>2. Numeric(h) /\ Total(h) + e = Total(g) + (e + v)
  BY <1>1, WithType, TotalWith DEF ShowsPayments
<1>3. Total(PaymentsOf(l, n + 1)) = Total(PaymentsOf(l, n)) + v
  BY SumsStep
<1>4. Total(h) \in Nat /\ Total(g) \in Nat /\ Total(g) = Total(PaymentsOf(l, n))
  BY <1>2, TotalType DEF ShowsPayments
<1>5. h = Increased(g, q, v)
  BY DEF Increased
<1>. HIDE DEF h, e, v
<1>6. Total(h) = Total(PaymentsOf(l, n + 1))
  BY <1>1, <1>2, <1>3, <1>4
<1>7. ShowsPayments(h, l, n + 1)
  BY <1>2, <1>6 DEF ShowsPayments
<1>. QED  BY <1>5, <1>7 DEF v

-----------------------------------------------------------------------------
(* The steps.                                                              *)

LEMMA InitSnap == Init => SnapInv
<1>. SUFFICES ASSUME Init PROVE SnapInv
  OBVIOUS
<1>1. PICK n \in 0 .. MaxChannels : list \in [1 .. n -> Channel] /\ Distinct(list)
  BY DEF Init
<1>2. n \in Nat
  BY BoundAssumption
<1>3. ListOK
  BY <1>1, <1>2 DEF ListOK
<1>4. Len(list) \in Nat /\ phase = "fetch" /\ k = 1 /\ Built = 0 /\ Shown = 0
  BY <1>3 DEF ListOK, Init, Built, Shown
<1>5. PhaseOK /\ TotalsOK
  BY <1>4 DEF PhaseOK, TotalsOK
<1>6. 1 .. 0 = {} /\ DOMAIN NoSeries = {}
  BY DEF NoSeries
<1>7. FetchOK
  <2>1. channels = SnapshotsOf(list, 0)
    BY DEF Init, SnapshotsOf
  <2>2. CountsPeers(NoSeries, list, {})
    BY <1>6, TotalEmpty, FS_EmptySet DEF CountsPeers
  <2>3. Linked(list, 0) = {}
    BY <1>6 DEF Linked
  <2>. QED  BY <1>4, <1>6, <2>1, <2>2, <2>3 DEF FetchOK, Init
<1>8. CollectOK
  <2>1. /\ Numeric(NoSeries) /\ Total(NoSeries) = 0
        /\ Total(AmountsOf(list, 0)) = 0 /\ Total(PaymentsOf(list, 0)) = 0
    BY <1>6, TotalEmpty DEF AmountsOf, PaymentsOf
  <2>2. ShowsAmounts(NoSeries, list, 0) /\ ShowsPayments(NoSeries, list, 0)
    BY <1>6, <2>1 DEF ShowsAmounts, ShowsPayments
  <2>. QED  BY <1>4, <2>2 DEF CollectOK, Init
<1>. QED  BY <1>3, <1>5, <1>7, <1>8 DEF SnapInv

(* One turn of the loop of fetch.                                          *)
LEMMA FetchStep == SnapInv /\ FetchChannel => SnapInv'
<1>. SUFFICES ASSUME SnapInv, FetchChannel PROVE SnapInv'
  OBVIOUS
<1>. DEFINE c == list[k]
<1>0. /\ phase = "fetch" /\ phase' = "fetch" /\ k' = k + 1 /\ k <= Len(list)
      /\ UNCHANGED <<list, totals, spendable, offered>>
  BY DEF FetchChannel
<1>1. list \in Seq(Channel) /\ Len(list) \in Nat /\ k \in 1 .. Len(list) /\ ListOK'
  BY <1>0 DEF SnapInv, ListOK, PhaseOK
<1>2. PhaseOK' /\ TotalsOK'
  BY <1>0, <1>1 DEF PhaseOK, TotalsOK
<1>3. Built = k - 1 /\ Built' = k /\ Shown = 0 /\ Shown' = 0 /\ k - 1 \in Nat
  BY <1>0, <1>1 DEF Built, Shown
<1>4. CollectOK'
  BY <1>0, <1>3 DEF SnapInv, CollectOK
<1>5. 1 .. k = (1 .. k - 1) \cup {k} /\ k \notin 1 .. k - 1
  BY <1>1
<1>6. channels' = SnapshotsOf(list, k)
  <2>. DEFINE S == {Snapshot(list[i]) : i \in 1 .. Len(list)}
  <2>1. channels = [i \in 1 .. k - 1 |-> Snapshot(list[i])]
    BY <1>3 DEF SnapInv, FetchOK, SnapshotsOf
  <2>2. Snapshot(c) \in S /\ \A i \in 1 .. k - 1 : Snapshot(list[i]) \in S
    BY <1>1
  <2>3. channels' = Append(channels, Snapshot(c))
    BY DEF FetchChannel, Snapshot
  <2>. HIDE DEF S, c
  <2>4. channels \in Seq(S) /\ Len(channels) = k - 1
    BY <1>1, <1>3, <2>1, <2>2
  <2>5. channels' = [i \in 1 .. k |-> IF i = k THEN Snapshot(c) ELSE channels[i]]
    <3>1. channels' \in Seq(S) /\ Len(channels') = k
      BY <1>1, <2>2, <2>3, <2>4
    <3>2. channels' = [i \in 1 .. k |-> channels'[i]]
      BY <3>1
    <3>3. \A i \in 1 .. k : channels'[i] = IF i = k THEN Snapshot(c) ELSE channels[i]
      BY <1>1, <2>2, <2>3, <2>4
    <3>. QED  BY <3>2, <3>3
  <2>6. \A i \in 1 .. k : (IF i = k THEN Snapshot(c) ELSE channels[i]) = Snapshot(list[i])
    BY <1>5, <2>1 DEF c
  <2>. QED  BY <2>5, <2>6 DEF SnapshotsOf
<1>7. CountsPeers(peerCount', list, 1 .. k)
  <2>1. CountsPeers(peerCount, list, 1 .. k - 1) /\ IsFiniteSet(1 .. k - 1)
    BY <1>1, <1>3, FS_Interval DEF SnapInv, FetchOK
  <2>2. peerCount' = With(peerCount, c.peer, Entry(peerCount, c.peer) + 1)
    BY DEF FetchChannel
  <2>3. CountsPeers(With(peerCount, c.peer, Entry(peerCount, c.peer) + 1), list,
                    (1 .. k - 1) \cup {k})
    BY <1>5, <2>1, CountStep
  <2>. QED  BY <1>5, <2>2, <2>3
<1>8. CountsPeers(connectedCount', list, Linked(list, k))
  <2>. DEFINE I == Linked(list, k - 1)
  <2>1. CountsPeers(connectedCount, list, I)
    BY <1>3 DEF SnapInv, FetchOK
  <2>2. IsFiniteSet(I) /\ k \notin I
    <3>1. IsFiniteSet(1 .. k - 1) /\ I \in SUBSET (1 .. k - 1)
      BY <1>3, FS_Interval DEF Linked
    <3>. QED  BY <1>5, <3>1, FS_Subset
  <2>3. connectedCount' = CountConnected(c)
    BY DEF FetchChannel
  <2>4. CASE c.connected
    <3>1. Linked(list, k) = I \cup {k}
      BY <1>5, <2>4 DEF Linked
    <3>2. connectedCount' = With(connectedCount, c.peer, Entry(connectedCount, c.peer) + 1)
      BY <2>3, <2>4 DEF CountConnected, CountedConnected
    <3>3. CountsPeers(With(connectedCount, c.peer, Entry(connectedCount, c.peer) + 1), list,
                      I \cup {k})
      <4>. HIDE DEF I
      <4>. QED  BY <2>1, <2>2, CountStep
    <3>. QED  BY <3>1, <3>2, <3>3
  <2>5. CASE ~c.connected
    <3>1. Linked(list, k) = I
      BY <1>5, <2>5 DEF Linked
    <3>. QED  BY <2>1, <2>3, <2>5, <3>1 DEF CountConnected
  <2>. QED  BY <2>4, <2>5
<1>9. FetchOK'
  BY <1>0, <1>3, <1>6, <1>7, <1>8 DEF FetchOK
<1>. QED  BY <1>1, <1>2, <1>4, <1>9 DEF SnapInv

(* The gauges without labels are set between the two loops.                *)
LEMMA ScalarsStep == SnapInv /\ CollectScalars => SnapInv'
<1>. SUFFICES ASSUME SnapInv, CollectScalars PROVE SnapInv'
  OBVIOUS
<1>1. /\ phase = "scalars" /\ phase' = "collect" /\ k = 1 /\ k' = 1
      /\ UNCHANGED <<list, channels, peerCount, connectedCount, spendable, offered>>
  BY DEF CollectScalars, SnapInv, PhaseOK
<1>2. ListOK' /\ list \in Seq(Channel) /\ Len(list) \in Nat
  BY <1>1 DEF SnapInv, ListOK
<1>3. Built = Len(list) /\ Built' = Len(list) /\ Shown = 0 /\ Shown' = 0
  BY <1>1 DEF Built, Shown
<1>4. PhaseOK' /\ CollectOK' /\ FetchOK'
  BY <1>1, <1>2, <1>3 DEF SnapInv, PhaseOK, CollectOK, FetchOK
<1>5. TotalsOK'
  <2>1. channels = [i \in 1 .. Len(list) |-> Snapshot(list[i])]
    BY <1>3 DEF SnapInv, FetchOK, SnapshotsOf
  <2>2. Len(channels) = Len(list) /\ DOMAIN channels = 1 .. Len(list)
    BY <1>2, <2>1
  <2>3. \A i \in 1 .. Len(list) : channels[i].spendable = AmountOrZero(list[i].spendable)
    BY <2>1 DEF Snapshot
  <2>4. [i \in DOMAIN channels |-> channels[i].spendable] = AmountsOf(list, Len(list))
    BY <2>2, <2>3 DEF AmountsOf
  <2>5. totals' = [outbound |-> Outbound, peers |-> Cardinality(DOMAIN peerCount),
                   channels |-> Len(channels)]
    BY DEF CollectScalars
  <2>. QED  BY <1>1, <2>2, <2>4, <2>5 DEF TotalsOK, Outbound
<1>. QED  BY <1>2, <1>4, <1>5 DEF SnapInv

(* One turn of the loop of collect.                                        *)
LEMMA CollectStep == SnapInv /\ CollectChannel => SnapInv'
<1>. SUFFICES ASSUME SnapInv, CollectChannel PROVE SnapInv'
  OBVIOUS
<1>1. /\ phase = "collect" /\ phase' = "collect" /\ k' = k + 1 /\ k <= Len(channels)
      /\ UNCHANGED <<list, channels, peerCount, connectedCount, totals>>
  BY DEF CollectChannel
<1>2. list \in Seq(Channel) /\ Len(list) \in Nat /\ Distinct(list) /\ ListOK'
  BY <1>1 DEF SnapInv, ListOK
<1>3. Built = Len(list) /\ Built' = Len(list) /\ Shown = k - 1 /\ Shown' = (k + 1) - 1
  BY <1>1 DEF Built, Shown
<1>4. channels = [i \in 1 .. Len(list) |-> Snapshot(list[i])]
  BY <1>3 DEF SnapInv, FetchOK, SnapshotsOf
<1>5. Len(channels) = Len(list) /\ k \in 1 .. Len(list)
  BY <1>1, <1>2, <1>4 DEF SnapInv, PhaseOK
<1>6. PhaseOK' /\ TotalsOK' /\ FetchOK'
  BY <1>1, <1>2, <1>3, <1>5 DEF SnapInv, PhaseOK, TotalsOK, FetchOK
<1>. DEFINE n == k - 1
<1>7. n \in Nat /\ n + 1 = k /\ Shown' = n + 1 /\ n + 1 <= Len(list)
  BY <1>3, <1>5
<1>8. /\ channels[k].peer = list[k].peer /\ channels[k].scid = ScidLabel(list[k])
      /\ channels[k].spendable = AmountOrZero(list[k].spendable)
      /\ channels[k].offered = list[k].offered
  BY <1>4, <1>5 DEF Snapshot
<1>9. /\ spendable' = With(spendable, Labels(list[k]), AmountOrZero(list[k].spendable))
      /\ offered' = Increased(offered, Labels(list[k]), list[k].offered)
  BY <1>8 DEF CollectChannel, Labels
<1>10. ShowsAmounts(spendable, list, n) /\ ShowsPayments(offered, list, n)
  BY <1>3 DEF SnapInv, CollectOK
<1>. HIDE DEF n
<1>11. ShowsAmounts(spendable', list, n + 1) /\ ShowsPayments(offered', list, n + 1)
  BY <1>2, <1>7, <1>9, <1>10, ShowAmount, ShowPayments
<1>12. CollectOK'
  BY <1>1, <1>7, <1>11 DEF CollectOK
<1>. QED  BY <1>2, <1>6, <1>12 DEF SnapInv

(* The ends of the loops.                                                  *)
LEMMA EndStep == SnapInv /\ (FetchEnds \/ CollectEnds) => SnapInv'
<1>. SUFFICES ASSUME SnapInv, FetchEnds \/ CollectEnds PROVE SnapInv'
  OBVIOUS
<1>1. UNCHANGED <<list, channels, peerCount, connectedCount, totals, spendable, offered>>
  BY DEF FetchEnds, CollectEnds
<1>2. ListOK' /\ list \in Seq(Channel) /\ Len(list) \in Nat /\ k \in 1 .. Len(list) + 1
  BY <1>1 DEF SnapInv, ListOK, PhaseOK
<1>3. CASE FetchEnds
  <2>1. /\ phase = "fetch" /\ phase' = "scalars" /\ k' = 1 /\ k > Len(list)
    BY <1>3 DEF FetchEnds
  <2>2. Built = Len(list) /\ Built' = Len(list) /\ Shown = 0 /\ Shown' = 0
    BY <1>1, <1>2, <2>1 DEF Built, Shown
  <2>. QED  BY <1>1, <1>2, <2>1, <2>2
            DEF SnapInv, PhaseOK, FetchOK, TotalsOK, CollectOK
<1>4. CASE CollectEnds
  <2>1. /\ phase = "collect" /\ phase' = "done" /\ k' = k /\ k > Len(channels)
    BY <1>4 DEF CollectEnds
  <2>2. Built = Len(list) /\ Built' = Len(list) /\ Shown = k - 1 /\ Shown' = Len(list)
    BY <1>1, <2>1 DEF Built, Shown
  <2>3. Len(channels) = Len(list)
    BY <1>2, <2>2 DEF SnapInv, FetchOK, SnapshotsOf
  <2>4. k - 1 = Len(list)
    BY <1>2, <2>1, <2>3
  <2>. QED  BY <1>1, <1>2, <2>1, <2>2, <2>4
            DEF SnapInv, PhaseOK, FetchOK, TotalsOK, CollectOK
<1>. QED  BY <1>3, <1>4

LEMMA StepSnap == SnapInv /\ [Next]_vars => SnapInv'
<1>1. SnapInv /\ UNCHANGED vars => SnapInv'
  BY DEF vars, SnapInv, ListOK, PhaseOK, FetchOK, TotalsOK, CollectOK, Built, Shown
<1>. QED  BY <1>1, FetchStep, ScalarsStep, CollectStep, EndStep DEF Next

(* After any number of turns of the loops the maps are what they would be  *)
(* if the node had only the channels seen so far.                          *)
THEOREM Invariance == Spec => []SnapInv
  BY InitSnap, StepSnap, PTL DEF Spec

-----------------------------------------------------------------------------
(* The properties.                                                         *)

(* For any list of channels every peer with a channel, and no other, has   *)
(* series; they count its channels and its connected channels.             *)
THEOREM PeersAreCounted == Spec => []PeerSeriesAreRight
<1>1. SnapInv => PeerSeriesAreRight
  <2>. SUFFICES ASSUME SnapInv, phase # "fetch" PROVE PeerSeriesAreRight
    BY DEF PeerSeriesAreRight
  <2>1. list \in Seq(Channel) /\ DOMAIN list = 1 .. Len(list) /\ Built = Len(list)
    BY DEF SnapInv, ListOK, Built
  <2>2. \A i \in DOMAIN list : list[i].peer \in Peers
    <3>1. \A i \in DOMAIN list : list[i] \in Channel
      BY <2>1
    <3>. QED  BY <3>1 DEF Channel
  <2>3. CountsPeers(peerCount, list, DOMAIN list)
    BY <2>1 DEF SnapInv, FetchOK
  <2>4. CountsPeers(connectedCount, list, Linked(list, Len(list)))
    BY <2>1 DEF SnapInv, FetchOK
  <2>5. DOMAIN peerCount = {p \in Peers : Of(p) # {}}
    BY <2>2, <2>3 DEF CountsPeers, Of
  <2>6. ASSUME NEW p \in DOMAIN peerCount
        PROVE  /\ PeerChannels(p) = Cardinality(Of(p))
               /\ PeerChannelConnected(p) = Cardinality(Connected(p))
               /\ PeerConnected(p) <=> Connected(p) # {}
    <3>1. PeerChannels(p) = Cardinality(Of(p))
      BY <2>3 DEF CountsPeers, PeerChannels, Of, OfPeer
    <3>2. OfPeer(list, Linked(list, Len(list)), p) = Connected(p)
      BY <2>1 DEF OfPeer, Linked, Connected, Of
    <3>3. IsFiniteSet(Connected(p)) /\ Cardinality(Connected(p)) \in Nat
      <4>1. IsFiniteSet(DOMAIN list)
        BY <2>1, FS_Interval
      <4>2. Connected(p) \subseteq DOMAIN list
        BY DEF Connected, Of
      <4>. QED  BY <4>1, <4>2, FS_Subset, FS_CardinalityType
    <3>4. PeerChannelConnected(p) = Cardinality(Connected(p))
      <4>1. CASE p \in DOMAIN connectedCount
        BY <2>4, <3>2, <4>1 DEF CountsPeers, PeerChannelConnected, Entry
      <4>2. CASE p \notin DOMAIN connectedCount
        <5>1. Connected(p) = {}
          BY <2>4, <3>2, <4>2 DEF CountsPeers, OfPeer
        <5>. QED  BY <4>2, <5>1, FS_EmptySet DEF PeerChannelConnected, Entry
      <4>. QED  BY <4>1, <4>2
    <3>5. PeerConnected(p) <=> Connected(p) # {}
      BY <3>3, <3>4, FS_EmptySet DEF PeerConnected
    <3>. QED  BY <3>1, <3>4, <3>5
  <2>. QED  BY <2>5, <2>6 DEF PeerSeriesAreRight
<1>. QED  BY <1>1, Invariance, PTL

(* For any list of channels the labelled families show what CLN reported:  *)
(* every channel with an id has its amount under its labels, an amount is  *)
(* hidden only where two channels of a peer are both without an id, and    *)
(* the counters lose nothing.                                              *)
THEOREM FamiliesShowAmounts == Spec => []AmountsAreShown
<1>1. SnapInv => AmountsAreShown
  <2>. SUFFICES ASSUME SnapInv, phase = "done" PROVE AmountsAreShown
    BY DEF AmountsAreShown
  <2>1. /\ list \in Seq(Channel) /\ DOMAIN list = 1 .. Len(list) /\ Shown = Len(list)
        /\ Distinct(list)
    BY DEF SnapInv, ListOK, Shown
  <2>2. ShowsAmounts(spendable, list, Len(list)) /\ ShowsPayments(offered, list, Len(list))
    BY <2>1 DEF SnapInv, CollectOK
  <2>3. totals.outbound = Total(AmountsOf(list, Len(list)))
    BY DEF SnapInv, TotalsOK
  <2>4. ASSUME NEW i \in DOMAIN list, HasId(list[i])
        PROVE  spendable[<<list[i].peer, ScidLabel(list[i])>>] = AmountOrZero(list[i].spendable)
    BY <2>1, <2>2, <2>4 DEF ShowsAmounts, Labels
  <2>5. Total(spendable) <= totals.outbound
    BY <2>2, <2>3 DEF ShowsAmounts
  <2>6. ASSUME \A i, j \in DOMAIN list : SameLabels(i, j) => i = j
        PROVE  Total(spendable) = totals.outbound
    <3>1. LabelsApart(list, Len(list))
      BY <2>1, <2>6, LabelsCollide DEF LabelsApart, SameLabels
    <3>. QED  BY <2>2, <2>3, <3>1 DEF ShowsAmounts
  <2>7. Total(offered) = Total([i \in DOMAIN list |-> list[i].offered])
    BY <2>1, <2>2 DEF ShowsPayments, PaymentsOf
  <2>. QED  BY <2>4, <2>5, <2>6, <2>7 DEF AmountsAreShown
<1>. QED  BY <1>1, Invariance, PTL

(* For any list of channels the totals count every channel, and agree with *)
(* the series of the peers.                                                *)
THEOREM NothingIsMissedInTotals == Spec => []TotalsCountAll
<1>1. SnapInv => TotalsCountAll
  <2>. SUFFICES ASSUME SnapInv, phase = "done" PROVE TotalsCountAll
    BY DEF TotalsCountAll
  <2>1. /\ list \in Seq(Channel) /\ DOMAIN list = 1 .. Len(list) /\ Len(list) \in Nat
        /\ Built = Len(list)
    BY DEF SnapInv, ListOK, Built
  <2>2. CountsPeers(peerCount, list, 1 .. Len(list))
    BY <2>1 DEF SnapInv, FetchOK
  <2>3. totals = [outbound |-> Total(AmountsOf(list, Len(list))),
                  peers |-> Cardinality(DOMAIN peerCount), channels |-> Len(list)]
    BY DEF SnapInv, TotalsOK
  <2>4. totals.outbound = Total([i \in DOMAIN list |-> AmountOrZero(list[i].spendable)])
    BY <2>1, <2>3 DEF AmountsOf
  <2>5. totals.channels = Total(peerCount)
    <3>. DEFINE n == Len(list)
    <3>1. Cardinality(1 .. n) = n
      <4>1. n \in Nat
        BY <2>1
      <4>. HIDE DEF n
      <4>2. Cardinality(1 .. n) = IF 1 > n THEN 0 ELSE n - 1 + 1
        BY <4>1, FS_Interval
      <4>. QED  BY <4>1, <4>2
    <3>. QED  BY <2>2, <2>3, <3>1 DEF CountsPeers
  <2>6. totals.peers = Cardinality({list[i].peer : i \in DOMAIN list})
    BY <2>1, <2>2, <2>3 DEF CountsPeers
  <2>. QED  BY <2>4, <2>5, <2>6 DEF TotalsCountAll
<1>. QED  BY <1>1, Invariance, PTL

-----------------------------------------------------------------------------
(***************************************************************************)
(* JsonRedaction.  Values, then the recursive functions over them, then    *)
(* paths and leaves, and what the functions do to the leaves.              *)
(***************************************************************************)

(* Values.                                                                 *)

Levels == 0 .. MaxDepth
Flat == [is : {"string"}, text : Texts \cup {Mark}] \cup {Scalar}
Next0(inner) == inner \cup Objects(inner) \cup Arrays(inner)
IsLevels(f, D) == f = [n \in D |-> IF n = 0 THEN Flat ELSE Next0(f[n - 1])]

LEMMA LevelsAre == IsLevels(ValuesUpto, Levels)
<1>. DEFINE T == {n \in Nat : \E g : IsLevels(g, 0 .. n)}
<1>1. 0 \in T
  <2>. DEFINE g == [n \in 0 .. 0 |-> Flat]
  <2>1. IsLevels(g, 0 .. 0)
    BY DEF IsLevels
  <2>. QED  BY <2>1
<1>2. ASSUME NEW n \in Nat, n \in T PROVE n + 1 \in T
  <2>1. PICK g : IsLevels(g, 0 .. n)
    BY <1>2
  <2>. DEFINE h == [m \in 0 .. n + 1 |-> IF m = 0 THEN Flat ELSE Next0(g[m - 1])]
  <2>2. \A m \in 0 .. n : h[m] = g[m]
    BY <2>1 DEF IsLevels
  <2>3. \A m \in 0 .. n + 1 : m # 0 => h[m - 1] = g[m - 1]
    <3>1. \A m \in 0 .. n + 1 : m # 0 => m - 1 \in 0 .. n
      OBVIOUS
    <3>. HIDE DEF h
    <3>. QED  BY <2>2, <3>1
  <2>4. h = [m \in 0 .. n + 1 |-> IF m = 0 THEN Flat ELSE Next0(g[m - 1])]
    OBVIOUS
  <2>. HIDE DEF h
  <2>5. IsLevels(h, 0 .. n + 1)
    BY <2>3, <2>4 DEF IsLevels
  <2>. QED  BY <2>5
<1>. HIDE DEF T
<1>3. MaxDepth \in T
  BY <1>1, <1>2, SetInduction, DepthAssumption
<1>4. PICK g : IsLevels(g, Levels)
  BY <1>3 DEF T, Levels
<1>. QED  BY <1>4 DEF IsLevels, ValuesUpto, Levels, Next0, Flat

LEMMA LevelStep ==
    ASSUME NEW n \in Levels
    PROVE  /\ n = 0 => ValuesUpto[n] = Flat
           /\ n # 0 => ValuesUpto[n] = Next0(ValuesUpto[n - 1])
  BY LevelsAre DEF IsLevels

(* A value of a level is flat, or its entries are of the level below.      *)
Deep(n) == Objects(ValuesUpto[n]) \cup Arrays(ValuesUpto[n])

LEMMA SeqGrows == ASSUME NEW A, NEW B, A \subseteq B PROVE Seq(A) \subseteq Seq(B)
<1>. SUFFICES ASSUME NEW q \in Seq(A) PROVE q \in Seq(B)
  OBVIOUS
<1>1. q = [i \in 1 .. Len(q) |-> q[i]] /\ Len(q) \in Nat /\ \A i \in 1 .. Len(q) : q[i] \in B
  OBVIOUS
<1>2. q \in [1 .. Len(q) -> B]
  BY <1>1
<1>. QED  BY <1>1, <1>2

LEMMA DeepGrows ==
    ASSUME NEW A, NEW B, A \subseteq B
    PROVE  Objects(A) \subseteq Objects(B) /\ Arrays(A) \subseteq Arrays(B)
<1>1. [key : Keys, value : A] \subseteq [key : Keys, value : B] /\ [value : A] \subseteq [value : B]
  OBVIOUS
<1>2. /\ Seq([key : Keys, value : A]) \subseteq Seq([key : Keys, value : B])
      /\ Seq([value : A]) \subseteq Seq([value : B])
  BY <1>1, SeqGrows
<1>. QED  BY <1>2 DEF Objects, Arrays

LEMMA Shape ==
    ASSUME NEW n \in Levels, NEW v \in ValuesUpto[n]
    PROVE  v \in Flat \/ (n # 0 /\ v \in Deep(n - 1))
<1>. DEFINE Good(m) ==
              m \in Levels => \A w \in ValuesUpto[m] : w \in Flat \/ (m # 0 /\ w \in Deep(m - 1))
            T == {m \in Nat : Good(m)}
<1>1. 0 \in T
  BY LevelStep
<1>2. ASSUME NEW m \in Nat, m \in T PROVE m + 1 \in T
  <2>. SUFFICES ASSUME m + 1 \in Levels, NEW w \in ValuesUpto[m + 1]
                PROVE  w \in Flat \/ w \in Deep(m)
    OBVIOUS
  <2>1. m \in Levels /\ (m + 1) - 1 = m /\ m + 1 # 0
    BY DepthAssumption DEF Levels
  <2>2. ValuesUpto[m + 1] = ValuesUpto[m] \cup Deep(m)
    BY <2>1, LevelStep DEF Next0, Deep
  <2>3. CASE w \in ValuesUpto[m]
    <3>1. CASE w \in Flat
      BY <3>1
    <3>2. CASE m # 0 /\ w \in Deep(m - 1)
      <4>1. m - 1 \in Levels /\ ValuesUpto[m - 1] \subseteq ValuesUpto[m]
        BY <2>1, <3>2, LevelStep, DepthAssumption DEF Levels, Next0
      <4>2. Deep(m - 1) \subseteq Deep(m)
        BY <4>1, DeepGrows DEF Deep
      <4>. QED  BY <3>2, <4>2
    <3>. QED  BY <1>2, <2>1, <2>3, <3>1, <3>2
  <2>. QED  BY <2>2, <2>3
<1>3. n \in T
  <2>1. n \in Nat
    BY DepthAssumption DEF Levels
  <2>. HIDE DEF T
  <2>. QED  BY <1>1, <1>2, <2>1, SetInduction
<1>. QED  BY <1>3

(* Sequences, in the form in which they are used here.                     *)
LEMMA SeqParts ==
    ASSUME NEW S, NEW q \in Seq(S)
    PROVE  /\ Len(q) \in Nat /\ DOMAIN q = 1 .. Len(q) /\ q = [i \in 1 .. Len(q) |-> q[i]]
           /\ \A i \in DOMAIN q : q[i] \in S
           /\ q = <<>> <=> Len(q) = 0
  OBVIOUS

LEMMA SeqMade ==
    ASSUME NEW S, NEW n \in Nat, NEW q, q = [i \in 1 .. n |-> q[i]], \A i \in 1 .. n : q[i] \in S
    PROVE  q \in Seq(S) /\ Len(q) = n
  OBVIOUS

LEMMA Parts ==
    ASSUME NEW n \in Levels, NEW v \in ValuesUpto[n], IsContainer(v)
    PROVE  /\ n # 0 /\ n - 1 \in Levels
           /\ v.entries = [i \in 1 .. Len(v.entries) |-> v.entries[i]] /\ Len(v.entries) \in Nat
           /\ DOMAIN v.entries = 1 .. Len(v.entries)
           /\ \A i \in DOMAIN v.entries :
                /\ v.entries[i].value \in ValuesUpto[n - 1]
                /\ \A key \in VisitedKeys : VisitKey(key, v, i) \in VisitedKeys
<1>1. v \notin Flat
  BY DEF IsContainer, Flat, Scalar
<1>2. n # 0 /\ v \in Deep(n - 1) /\ n - 1 \in Levels
  BY <1>1, Shape, DepthAssumption DEF Levels
<1>. DEFINE V == ValuesUpto[n - 1]
<1>3. CASE v \in Objects(V)
  <2>. DEFINE S == [key : Keys, value : V]
  <2>1. v.is = "object" /\ v.entries \in Seq(S)
    BY <1>3 DEF Objects
  <2>. HIDE DEF S
  <2>2. /\ v.entries = [i \in 1 .. Len(v.entries) |-> v.entries[i]] /\ Len(v.entries) \in Nat
        /\ DOMAIN v.entries = 1 .. Len(v.entries)
        /\ \A i \in DOMAIN v.entries : v.entries[i] \in S
    BY <2>1, SeqParts
  <2>3. \A i \in DOMAIN v.entries : v.entries[i].key \in Keys /\ v.entries[i].value \in V
    BY <2>2 DEF S
  <2>. QED  BY <1>2, <2>1, <2>2, <2>3 DEF VisitKey, VisitedKeys
<1>4. CASE v \in Arrays(V)
  <2>. DEFINE S == [value : V]
  <2>1. v.is = "array" /\ v.entries \in Seq(S)
    BY <1>4 DEF Arrays
  <2>. HIDE DEF S
  <2>2. /\ v.entries = [i \in 1 .. Len(v.entries) |-> v.entries[i]] /\ Len(v.entries) \in Nat
        /\ DOMAIN v.entries = 1 .. Len(v.entries)
        /\ \A i \in DOMAIN v.entries : v.entries[i] \in S
    BY <2>1, SeqParts
  <2>3. \A i \in DOMAIN v.entries : v.entries[i].value \in V
    BY <2>2 DEF S
  <2>. QED  BY <1>2, <2>1, <2>2, <2>3 DEF VisitKey, ElementKey, VisitedKeys
<1>. QED  BY <1>2, <1>3, <1>4 DEF Deep

LEMMA Rebuilt ==
    ASSUME NEW n \in Levels, NEW v \in ValuesUpto[n], IsContainer(v),
           NEW f, \A i \in DOMAIN v.entries : f[i] \in ValuesUpto[n - 1]
    PROVE  /\ WithValues(v, f) \in ValuesUpto[n]
           /\ WithValues(v, f).is = v.is
           /\ DOMAIN WithValues(v, f).entries = DOMAIN v.entries
           /\ WithValues(v, f).entries = <<>> <=> v.entries = <<>>
           /\ v.entries = <<>> => WithValues(v, f) = v
           /\ \A i \in DOMAIN v.entries :
                /\ WithValues(v, f).entries[i].value = f[i]
                /\ StepAt(WithValues(v, f), i) = StepAt(v, i)
<1>1. v \notin Flat
  BY DEF IsContainer, Flat, Scalar
<1>2. n # 0 /\ v \in Deep(n - 1)
  BY <1>1, Shape
<1>. DEFINE V == ValuesUpto[n - 1]
            w == WithValues(v, f)
            es == [i \in DOMAIN v.entries |-> [v.entries[i] EXCEPT !.value = f[i]]]
<1>3. ValuesUpto[n] = V \cup Objects(V) \cup Arrays(V)
  BY <1>2, LevelStep DEF Next0
<1>4. CASE v \in Objects(V)
  <2>. DEFINE S == [key : Keys, value : V]
  <2>1. v = [is |-> "object", entries |-> v.entries] /\ v.entries \in Seq(S) /\ v.is = "object"
    BY <1>4 DEF Objects
  <2>2. w = [is |-> "object", entries |-> es]
    <3>1. w = [v EXCEPT !.entries = es]
      BY DEF WithValues
    <3>. HIDE DEF w, es
    <3>. QED  BY <2>1, <3>1
  <2>. HIDE DEF S
  <2>3. /\ v.entries = [i \in 1 .. Len(v.entries) |-> v.entries[i]] /\ Len(v.entries) \in Nat
        /\ DOMAIN v.entries = 1 .. Len(v.entries)
        /\ \A i \in DOMAIN v.entries : v.entries[i] \in S
        /\ v.entries = <<>> <=> Len(v.entries) = 0
    BY <2>1, SeqParts
  <2>4. \A i \in DOMAIN v.entries :
          es[i] = [key |-> v.entries[i].key, value |-> f[i]] /\ v.entries[i].key \in Keys
    BY <2>3 DEF S
  <2>. HIDE DEF es
  <2>5. es = [i \in 1 .. Len(v.entries) |-> es[i]]
    BY <2>3 DEF es
  <2>6. ASSUME NEW i \in 1 .. Len(v.entries) PROVE es[i] \in S
    <3>1. f[i] \in V /\ i \in DOMAIN v.entries
      BY <2>3
    <3>2. es[i] = [key |-> v.entries[i].key, value |-> f[i]] /\ v.entries[i].key \in Keys
      BY <2>4, <3>1
    <3>. HIDE DEF V
    <3>. QED  BY <3>1, <3>2 DEF S
  <2>7. es \in Seq(S) /\ Len(es) = Len(v.entries)
    BY <2>3, <2>5, <2>6, SeqMade
  <2>8. w \in Objects(V)
    BY <2>2, <2>7 DEF Objects, S
  <2>9. w.entries = es /\ w.is = "object"
    BY <2>2
  <2>10. (es = <<>> <=> v.entries = <<>>) /\ DOMAIN es = DOMAIN v.entries
    BY <2>3, <2>7, SeqParts
  <2>12. v.entries = <<>> => w = v
    BY <2>1, <2>2, <2>10
  <2>11. ASSUME NEW i \in DOMAIN v.entries
         PROVE  es[i].value = f[i] /\ es[i].key = v.entries[i].key
    <3>1. es[i] = [key |-> v.entries[i].key, value |-> f[i]]
      BY <2>4
    <3>. QED  BY <3>1
  <2>. HIDE DEF w
  <2>. QED  BY <1>3, <2>1, <2>8, <2>9, <2>10, <2>11, <2>12 DEF StepAt, w
<1>5. CASE v \in Arrays(V)
  <2>. DEFINE S == [value : V]
  <2>1. v = [is |-> "array", entries |-> v.entries] /\ v.entries \in Seq(S) /\ v.is = "array"
    BY <1>5 DEF Arrays
  <2>2. w = [is |-> "array", entries |-> es]
    <3>1. w = [v EXCEPT !.entries = es]
      BY DEF WithValues
    <3>. HIDE DEF w, es
    <3>. QED  BY <2>1, <3>1
  <2>. HIDE DEF S
  <2>3. /\ v.entries = [i \in 1 .. Len(v.entries) |-> v.entries[i]] /\ Len(v.entries) \in Nat
        /\ DOMAIN v.entries = 1 .. Len(v.entries)
        /\ \A i \in DOMAIN v.entries : v.entries[i] \in S
        /\ v.entries = <<>> <=> Len(v.entries) = 0
    BY <2>1, SeqParts
  <2>4. \A i \in DOMAIN v.entries : es[i] = [value |-> f[i]]
    BY <2>3 DEF S
  <2>. HIDE DEF es
  <2>5. es = [i \in 1 .. Len(v.entries) |-> es[i]]
    BY <2>3 DEF es
  <2>6. ASSUME NEW i \in 1 .. Len(v.entries) PROVE es[i] \in S
    <3>1. f[i] \in V /\ i \in DOMAIN v.entries
      BY <2>3
    <3>2. es[i] = [value |-> f[i]]
      BY <2>4, <3>1
    <3>. HIDE DEF V
    <3>. QED  BY <3>1, <3>2 DEF S
  <2>7. es \in Seq(S) /\ Len(es) = Len(v.entries)
    BY <2>3, <2>5, <2>6, SeqMade
  <2>8. w \in Arrays(V)
    BY <2>2, <2>7 DEF Arrays, S
  <2>9. w.entries = es /\ w.is = "array"
    BY <2>2
  <2>10. (es = <<>> <=> v.entries = <<>>) /\ DOMAIN es = DOMAIN v.entries
    BY <2>3, <2>7, SeqParts
  <2>12. v.entries = <<>> => w = v
    BY <2>1, <2>2, <2>10
  <2>11. ASSUME NEW i \in DOMAIN v.entries PROVE es[i].value = f[i]
    <3>1. es[i] = [value |-> f[i]]
      BY <2>4
    <3>. QED  BY <3>1
  <2>. HIDE DEF w
  <2>. QED  BY <1>3, <2>1, <2>8, <2>9, <2>10, <2>11, <2>12 DEF StepAt, w
<1>. QED  BY <1>2, <1>4, <1>5 DEF Deep

-----------------------------------------------------------------------------
(* The recursive functions.                                                *)

LevelVisits(n) == Visits(ValuesUpto[n])

LEMMA VisitParts ==
    ASSUME NEW n \in Levels, NEW visit \in LevelVisits(n), IsContainer(visit[2])
    PROVE  /\ n # 0 /\ n - 1 \in Levels
           /\ \A i \in DOMAIN visit[2].entries : EntryVisit(visit, i) \in LevelVisits(n - 1)
<1>1. visit[1] \in VisitedKeys /\ visit[2] \in ValuesUpto[n]
  BY DEF LevelVisits, Visits
<1>. DEFINE v == visit[2]
<1>. HIDE DEF v
<1>2. /\ n # 0 /\ n - 1 \in Levels
      /\ \A i \in DOMAIN v.entries :
                /\ v.entries[i].value \in ValuesUpto[n - 1]
                /\ \A key \in VisitedKeys : VisitKey(key, v, i) \in VisitedKeys
  BY <1>1, Parts DEF v
<1>3. \A i \in DOMAIN v.entries : VisitKey(visit[1], v, i) \in VisitedKeys
  BY <1>1, <1>2
<1>. QED  BY <1>2, <1>3 DEF EntryVisit, LevelVisits, Visits, v

SanitizedBy(f, visit) ==
    LET key == visit[1]  value == visit[2]
    IN  IF is_sensitive_key(key) THEN String(Mark)
        ELSE IF IsContainer(value)
             THEN WithValues(value, [i \in DOMAIN value.entries |-> f[EntryVisit(visit, i)]])
             ELSE value
IsSanitizer(f, D) == f = [visit \in D |-> SanitizedBy(f, visit)]

LEMMA SanitizerIs == IsSanitizer(sanitize_json_value, Visits(Values))
<1>. DEFINE T == {n \in Nat : n \in Levels => \E g : IsSanitizer(g, LevelVisits(n))}
<1>1. 0 \in T
  <2>. DEFINE g == [visit \in LevelVisits(0) |-> SanitizedBy(<<>>, visit)]
  <2>1. ASSUME NEW visit \in LevelVisits(0), 0 \in Levels PROVE ~IsContainer(visit[2])
    BY <2>1, VisitParts
  <2>2. ASSUME 0 \in Levels PROVE IsSanitizer(g, LevelVisits(0))
    BY <2>1, <2>2 DEF IsSanitizer, SanitizedBy
  <2>. QED  BY <2>2
<1>2. ASSUME NEW n \in Nat, n \in T PROVE n + 1 \in T
  <2>. SUFFICES ASSUME n + 1 \in Levels PROVE \E g : IsSanitizer(g, LevelVisits(n + 1))
    OBVIOUS
  <2>0. n \in Levels /\ (n + 1) - 1 = n /\ LevelVisits(n) \subseteq LevelVisits(n + 1)
    <3>1. n \in Levels /\ (n + 1) - 1 = n /\ n + 1 # 0
      BY DepthAssumption DEF Levels
    <3>. QED  BY <3>1, LevelStep DEF Next0, LevelVisits, Visits
  <2>1. PICK g : IsSanitizer(g, LevelVisits(n))
    BY <1>2, <2>0
  <2>. DEFINE h == [visit \in LevelVisits(n + 1) |-> SanitizedBy(g, visit)]
  <2>2. ASSUME NEW visit \in LevelVisits(n) PROVE h[visit] = g[visit]
    <3>1. h[visit] = SanitizedBy(g, visit)
      BY <2>0
    <3>2. g[visit] = SanitizedBy(g, visit)
      BY <2>1 DEF IsSanitizer
    <3>. QED  BY <3>1, <3>2
  <2>3. h = [visit \in LevelVisits(n + 1) |-> SanitizedBy(g, visit)]
    OBVIOUS
  <2>. HIDE DEF h
  <2>4. ASSUME NEW visit \in LevelVisits(n + 1)
        PROVE  SanitizedBy(h, visit) = SanitizedBy(g, visit)
    <3>1. CASE ~IsContainer(visit[2])
      BY <3>1 DEF SanitizedBy
    <3>2. CASE IsContainer(visit[2])
      <4>1. \A i \in DOMAIN visit[2].entries : EntryVisit(visit, i) \in LevelVisits(n)
        BY <2>0, <3>2, VisitParts
      <4>2. [i \in DOMAIN visit[2].entries |-> h[EntryVisit(visit, i)]]
              = [i \in DOMAIN visit[2].entries |-> g[EntryVisit(visit, i)]]
        BY <2>2, <4>1
      <4>. QED  BY <4>2 DEF SanitizedBy
    <3>. QED  BY <3>1, <3>2
  <2>5. IsSanitizer(h, LevelVisits(n + 1))
    BY <2>3, <2>4 DEF IsSanitizer
  <2>. QED  BY <2>5
<1>. HIDE DEF T
<1>3. MaxDepth \in T
  BY <1>1, <1>2, SetInduction, DepthAssumption
<1>4. PICK g : IsSanitizer(g, Visits(Values))
  BY <1>3, DepthAssumption DEF T, Levels, Values, LevelVisits
<1>. QED  BY <1>4 DEF IsSanitizer, SanitizedBy, sanitize_json_value

FoundBy(f, visit) ==
    LET key == visit[1]  value == visit[2]
    IN  IF IsContainer(value)
        THEN FirstFound([i \in DOMAIN value.entries |-> f[EntryVisit(visit, i)]])
        ELSE OwnTag(key, value)
IsFinder(f, D) == f = [visit \in D |-> FoundBy(f, visit)]

LEMMA FinderIs == IsFinder(rune_from_json_value, Visits(Values))
<1>. DEFINE T == {n \in Nat : n \in Levels => \E g : IsFinder(g, LevelVisits(n))}
<1>1. 0 \in T
  <2>. DEFINE g == [visit \in LevelVisits(0) |-> FoundBy(<<>>, visit)]
  <2>1. ASSUME NEW visit \in LevelVisits(0), 0 \in Levels PROVE ~IsContainer(visit[2])
    BY <2>1, VisitParts
  <2>2. ASSUME 0 \in Levels PROVE IsFinder(g, LevelVisits(0))
    BY <2>1, <2>2 DEF IsFinder, FoundBy
  <2>. QED  BY <2>2
<1>2. ASSUME NEW n \in Nat, n \in T PROVE n + 1 \in T
  <2>. SUFFICES ASSUME n + 1 \in Levels PROVE \E g : IsFinder(g, LevelVisits(n + 1))
    OBVIOUS
  <2>0. n \in Levels /\ (n + 1) - 1 = n /\ LevelVisits(n) \subseteq LevelVisits(n + 1)
    <3>1. n \in Levels /\ (n + 1) - 1 = n /\ n + 1 # 0
      BY DepthAssumption DEF Levels
    <3>. QED  BY <3>1, LevelStep DEF Next0, LevelVisits, Visits
  <2>1. PICK g : IsFinder(g, LevelVisits(n))
    BY <1>2, <2>0
  <2>. DEFINE h == [visit \in LevelVisits(n + 1) |-> FoundBy(g, visit)]
  <2>2. ASSUME NEW visit \in LevelVisits(n) PROVE h[visit] = g[visit]
    <3>1. h[visit] = FoundBy(g, visit)
      BY <2>0
    <3>2. g[visit] = FoundBy(g, visit)
      BY <2>1 DEF IsFinder
    <3>. QED  BY <3>1, <3>2
  <2>3. h = [visit \in LevelVisits(n + 1) |-> FoundBy(g, visit)]
    OBVIOUS
  <2>. HIDE DEF h
  <2>4. ASSUME NEW visit \in LevelVisits(n + 1)
        PROVE  FoundBy(h, visit) = FoundBy(g, visit)
    <3>1. CASE ~IsContainer(visit[2])
      BY <3>1 DEF FoundBy
    <3>2. CASE IsContainer(visit[2])
      <4>1. \A i \in DOMAIN visit[2].entries : EntryVisit(visit, i) \in LevelVisits(n)
        BY <2>0, <3>2, VisitParts
      <4>2. [i \in DOMAIN visit[2].entries |-> h[EntryVisit(visit, i)]]
              = [i \in DOMAIN visit[2].entries |-> g[EntryVisit(visit, i)]]
        BY <2>2, <4>1
      <4>. QED  BY <4>2 DEF FoundBy
    <3>. QED  BY <3>1, <3>2
  <2>5. IsFinder(h, LevelVisits(n + 1))
    BY <2>3, <2>4 DEF IsFinder
  <2>. QED  BY <2>5
<1>. HIDE DEF T
<1>3. MaxDepth \in T
  BY <1>1, <1>2, SetInduction, DepthAssumption
<1>4. PICK g : IsFinder(g, Visits(Values))
  BY <1>3, DepthAssumption DEF T, Levels, Values, LevelVisits
<1>. QED  BY <1>4 DEF IsFinder, FoundBy, rune_from_json_value

LeavesBy(f, value) ==
    IF IsContainer(value) /\ value.entries # <<>>
    THEN UNION {Below(StepAt(value, i), f[value.entries[i].value]) : i \in DOMAIN value.entries}
    ELSE {[path |-> <<>>, leaf |-> value]}
AreLeaves(f, D) == f = [value \in D |-> LeavesBy(f, value)]

LEMMA LeavesAre == AreLeaves(Leaves, Values)
<1>. DEFINE T == {n \in Nat : n \in Levels => \E g : AreLeaves(g, ValuesUpto[n])}
<1>1. 0 \in T
  <2>. DEFINE g == [value \in ValuesUpto[0] |-> LeavesBy(<<>>, value)]
  <2>1. ASSUME NEW value \in ValuesUpto[0], 0 \in Levels PROVE ~IsContainer(value)
    BY <2>1, Parts
  <2>2. ASSUME 0 \in Levels PROVE AreLeaves(g, ValuesUpto[0])
    BY <2>1, <2>2 DEF AreLeaves, LeavesBy
  <2>. QED  BY <2>2
<1>2. ASSUME NEW n \in Nat, n \in T PROVE n + 1 \in T
  <2>. SUFFICES ASSUME n + 1 \in Levels PROVE \E g : AreLeaves(g, ValuesUpto[n + 1])
    OBVIOUS
  <2>0. n \in Levels /\ (n + 1) - 1 = n /\ ValuesUpto[n] \subseteq ValuesUpto[n + 1]
    <3>1. n \in Levels /\ (n + 1) - 1 = n /\ n + 1 # 0
      BY DepthAssumption DEF Levels
    <3>. QED  BY <3>1, LevelStep DEF Next0
  <2>1. PICK g : AreLeaves(g, ValuesUpto[n])
    BY <1>2, <2>0
  <2>. DEFINE h == [value \in ValuesUpto[n + 1] |-> LeavesBy(g, value)]
  <2>2. ASSUME NEW value \in ValuesUpto[n] PROVE h[value] = g[value]
    <3>1. h[value] = LeavesBy(g, value)
      BY <2>0
    <3>2. g[value] = LeavesBy(g, value)
      BY <2>1 DEF AreLeaves
    <3>. QED  BY <3>1, <3>2
  <2>3. h = [value \in ValuesUpto[n + 1] |-> LeavesBy(g, value)]
    OBVIOUS
  <2>. HIDE DEF h
  <2>4. ASSUME NEW value \in ValuesUpto[n + 1]
        PROVE  LeavesBy(h, value) = LeavesBy(g, value)
    <3>1. CASE ~IsContainer(value)
      BY <3>1 DEF LeavesBy
    <3>2. CASE IsContainer(value)
      <4>1. \A i \in DOMAIN value.entries : value.entries[i].value \in ValuesUpto[n]
        BY <2>0, <3>2, Parts
      <4>2. \A i \in DOMAIN value.entries :
              Below(StepAt(value, i), h[value.entries[i].value])
                = Below(StepAt(value, i), g[value.entries[i].value])
        BY <2>2, <4>1
      <4>. QED  BY <4>2 DEF LeavesBy
    <3>. QED  BY <3>1, <3>2
  <2>5. AreLeaves(h, ValuesUpto[n + 1])
    BY <2>3, <2>4 DEF AreLeaves
  <2>. QED  BY <2>5
<1>. HIDE DEF T
<1>3. MaxDepth \in T
  BY <1>1, <1>2, SetInduction, DepthAssumption
<1>4. PICK g : AreLeaves(g, Values)
  BY <1>3, DepthAssumption DEF T, Levels, Values
<1>. QED  BY <1>4 DEF AreLeaves, LeavesBy, Leaves

(* Every level is among the values.                                        *)
LEMMA LevelsGrow ==
    ASSUME NEW m \in Levels, NEW n \in Levels, m <= n
    PROVE  ValuesUpto[m] \subseteq ValuesUpto[n]
<1>. DEFINE T == {d \in Nat : m + d \in Levels => ValuesUpto[m] \subseteq ValuesUpto[m + d]}
<1>0. m \in Nat /\ n \in Nat /\ n - m \in Nat /\ m + (n - m) = n
  BY DepthAssumption DEF Levels
<1>1. 0 \in T
  BY <1>0
<1>2. ASSUME NEW d \in Nat, d \in T PROVE d + 1 \in T
  <2>. SUFFICES ASSUME m + (d + 1) \in Levels PROVE ValuesUpto[m] \subseteq ValuesUpto[m + (d + 1)]
    OBVIOUS
  <2>1. m + d \in Levels /\ (m + (d + 1)) - 1 = m + d /\ m + (d + 1) # 0
    BY <1>0, DepthAssumption DEF Levels
  <2>2. ValuesUpto[m + d] \subseteq ValuesUpto[m + (d + 1)]
    BY <2>1, LevelStep DEF Next0
  <2>. QED  BY <1>2, <2>1, <2>2
<1>. HIDE DEF T
<1>3. n - m \in T
  BY <1>0, <1>1, <1>2, SetInduction
<1>. QED  BY <1>0, <1>3 DEF T

(* What the functions do at a value of a level.                            *)
LEMMA Unfold ==
    ASSUME NEW n \in Levels, NEW v \in ValuesUpto[n], NEW key \in VisitedKeys
    PROVE  /\ sanitize_json_value[<<key, v>>] = SanitizedBy(sanitize_json_value, <<key, v>>)
           /\ rune_from_json_value[<<key, v>>] = FoundBy(rune_from_json_value, <<key, v>>)
           /\ Leaves[v] = LeavesBy(Leaves, v)
<1>1. v \in Values
  BY LevelsGrow, DepthAssumption DEF Levels, Values
<1>2. <<key, v>> \in Visits(Values)
  BY <1>1 DEF Visits
<1>. QED  BY <1>1, <1>2, SanitizerIs, FinderIs, LeavesAre DEF IsSanitizer, IsFinder, AreLeaves

-----------------------------------------------------------------------------
(* Paths.                                                                  *)

LEMMA LeastOf ==
    ASSUME NEW S, S \subseteq Nat, S # {}
    PROVE  /\ (CHOOSE i \in S : \A j \in S : i <= j) \in S
           /\ \A j \in S : (CHOOSE i \in S : \A x \in S : i <= x) <= j
<1>1. IsWellFoundedOn(Lt, Nat)
  BY NatLessThanWellFounded DEF OpToRel, Lt
<1>2. PICK i \in S : \A j \in S : ~ (<<j, i>> \in Lt)
  BY <1>1, WFMin
<1>3. ASSUME NEW j \in S PROVE i <= j
  <2>1. i \in Nat /\ j \in Nat
    OBVIOUS
  <2>2. ~ (j < i)
    BY <1>2, <2>1 DEF Lt
  <2>. QED  BY <2>1, <2>2
<1>4. \E x \in S : \A j \in S : x <= j
  BY <1>3
<1>. QED  BY <1>4

(* The least one is the only one.                                          *)
LEMMA OnlyLeast ==
    ASSUME NEW S, S \subseteq Nat, NEW f \in S, \A j \in S : f <= j
    PROVE  (CHOOSE i \in S : \A j \in S : i <= j) = f
<1>1. ASSUME NEW i \in S, \A j \in S : i <= j PROVE i = f
  <2>1. i <= f /\ f <= i /\ i \in Nat /\ f \in Nat
    BY <1>1
  <2>. QED  BY <2>1
<1>. QED  BY <1>1

Steps == [key : VisitedKeys, at : Nat]

(* A step in front of a path.                                              *)
LEMMA Prefixed ==
    ASSUME NEW s \in Steps, NEW p \in Seq(Steps)
    PROVE  /\ <<s>> \o p \in Seq(Steps)
           /\ Len(<<s>> \o p) = Len(p) + 1 /\ Len(p) \in Nat
           /\ DOMAIN p = 1 .. Len(p) /\ DOMAIN (<<s>> \o p) = 1 .. Len(p) + 1
           /\ (<<s>> \o p)[1] = s
           /\ \A i \in 1 .. Len(p) : (<<s>> \o p)[i + 1] = p[i]
           /\ p = <<>> <=> Len(p) = 0
  OBVIOUS

LEMMA SensitivePrefixed ==
    ASSUME NEW s \in Steps, NEW p \in Seq(Steps)
    PROVE  /\ Sensitive(s) => 1 \in SensitiveSteps(<<s>> \o p)
           /\ ~Sensitive(s) => SensitiveSteps(<<s>> \o p) = {i + 1 : i \in SensitiveSteps(p)}
<1>. DEFINE q == <<s>> \o p
<1>1. /\ DOMAIN p = 1 .. Len(p) /\ DOMAIN q = 1 .. Len(p) + 1 /\ Len(p) \in Nat
      /\ q[1] = s /\ \A i \in 1 .. Len(p) : q[i + 1] = p[i]
  BY Prefixed
<1>. HIDE DEF q
<1>2. Sensitive(s) => 1 \in SensitiveSteps(q)
  BY <1>1 DEF SensitiveSteps
<1>3. ASSUME ~Sensitive(s) PROVE SensitiveSteps(q) = {i + 1 : i \in SensitiveSteps(p)}
  <2>1. ASSUME NEW j \in SensitiveSteps(q) PROVE \E i \in SensitiveSteps(p) : j = i + 1
    <3>1. j \in 1 .. Len(p) + 1 /\ Sensitive(q[j]) /\ j # 1
      BY <1>1, <1>3, <2>1 DEF SensitiveSteps
    <3>2. j - 1 \in 1 .. Len(p) /\ j = (j - 1) + 1
      BY <1>1, <3>1
    <3>3. q[j] = p[j - 1]
      BY <1>1, <3>2
    <3>4. j - 1 \in SensitiveSteps(p)
      BY <1>1, <3>1, <3>2, <3>3 DEF SensitiveSteps
    <3>. QED  BY <3>2, <3>4
  <2>2. ASSUME NEW i \in SensitiveSteps(p) PROVE i + 1 \in SensitiveSteps(q)
    <3>1. i \in 1 .. Len(p) /\ Sensitive(p[i])
      BY <1>1, <2>2 DEF SensitiveSteps
    <3>2. i + 1 \in 1 .. Len(p) + 1 /\ q[i + 1] = p[i]
      BY <1>1, <3>1
    <3>. QED  BY <1>1, <3>1, <3>2 DEF SensitiveSteps
  <2>. QED  BY <2>1, <2>2
<1>. QED  BY <1>2, <1>3 DEF q

(* The first sensitive step, and the path up to it.                        *)
FirstSensitive(p) ==
    CHOOSE i \in SensitiveSteps(p) : \A j \in SensitiveSteps(p) : i <= j

LEMMA CutIs ==
    ASSUME NEW p \in Seq(Steps), SensitiveSteps(p) # {}
    PROVE  /\ FirstSensitive(p) \in 1 .. Len(p) /\ Len(p) \in Nat
           /\ CutAtFirst(p) = [i \in 1 .. FirstSensitive(p) |-> p[i]]
           /\ CutAtFirst(p) \in Seq(Steps) /\ Len(CutAtFirst(p)) = FirstSensitive(p)
           /\ SensitiveSteps(CutAtFirst(p)) = {FirstSensitive(p)}
<1>. DEFINE f == FirstSensitive(p)
            c == CutAtFirst(p)
<1>1. DOMAIN p = 1 .. Len(p) /\ Len(p) \in Nat /\ \A i \in DOMAIN p : p[i] \in Steps
  BY SeqParts
<1>2. SensitiveSteps(p) \subseteq 1 .. Len(p) /\ SensitiveSteps(p) \subseteq Nat
  BY <1>1 DEF SensitiveSteps
<1>3. f \in SensitiveSteps(p) /\ \A j \in SensitiveSteps(p) : f <= j
  BY <1>2, LeastOf DEF FirstSensitive
<1>4. c = SubSeq(p, 1, f)
  BY DEF CutAtFirst, FirstSensitive
<1>. HIDE DEF f, c
<1>5. f \in 1 .. Len(p) /\ f \in Nat
  BY <1>2, <1>3
<1>6. c = [i \in 1 .. f |-> p[i]]
  BY <1>1, <1>4, <1>5
<1>7. \A i \in 1 .. f : c[i] = p[i] /\ c[i] \in Steps /\ i \in DOMAIN p
  BY <1>1, <1>5, <1>6
<1>8. c \in Seq(Steps) /\ Len(c) = f
  <2>1. c = [i \in 1 .. f |-> c[i]]
    BY <1>6
  <2>. QED  BY <1>5, <1>7, <2>1, SeqMade
<1>9. SensitiveSteps(c) = {f}
  <2>1. DOMAIN c = 1 .. f
    BY <1>6
  <2>2. f \in SensitiveSteps(c)
    BY <1>3, <1>5, <1>7, <2>1 DEF SensitiveSteps
  <2>3. ASSUME NEW i \in SensitiveSteps(c) PROVE i = f
    <3>1. i \in 1 .. f /\ i \in SensitiveSteps(p)
      BY <1>7, <2>1, <2>3 DEF SensitiveSteps
    <3>. QED  BY <1>3, <1>5, <3>1
  <2>. QED  BY <2>2, <2>3
<1>. QED  BY <1>1, <1>5, <1>6, <1>8, <1>9 DEF f, c

LEMMA CutPrefixed ==
    ASSUME NEW s \in Steps, NEW p \in Seq(Steps)
    PROVE  /\ Sensitive(s) => CutAtFirst(<<s>> \o p) = <<s>>
           /\ ~Sensitive(s) /\ SensitiveSteps(p) # {} =>
                CutAtFirst(<<s>> \o p) = <<s>> \o CutAtFirst(p)
<1>. DEFINE q == <<s>> \o p
<1>1. /\ DOMAIN p = 1 .. Len(p) /\ DOMAIN q = 1 .. Len(p) + 1 /\ Len(p) \in Nat
      /\ q[1] = s /\ (\A i \in 1 .. Len(p) : q[i + 1] = p[i]) /\ q \in Seq(Steps)
  BY Prefixed
<1>2. /\ Sensitive(s) => 1 \in SensitiveSteps(q)
      /\ ~Sensitive(s) => SensitiveSteps(q) = {i + 1 : i \in SensitiveSteps(p)}
  BY SensitivePrefixed
<1>. HIDE DEF q
<1>3. SensitiveSteps(q) \subseteq Nat \ {0} /\ SensitiveSteps(p) \subseteq 1 .. Len(p)
  BY <1>1 DEF SensitiveSteps
<1>4. ASSUME Sensitive(s) PROVE CutAtFirst(q) = <<s>>
  <2>1. FirstSensitive(q) = 1
    <3>1. \A j \in SensitiveSteps(q) : 1 <= j
      BY <1>3
    <3>. QED  BY <1>2, <1>3, <1>4, <3>1, OnlyLeast DEF FirstSensitive
  <2>2. CutAtFirst(q) = [i \in 1 .. 1 |-> q[i]]
    BY <1>1, <1>2, <1>4, <2>1, CutIs
  <2>. QED  BY <1>1, <2>2
<1>5. ASSUME ~Sensitive(s), SensitiveSteps(p) # {} PROVE CutAtFirst(q) = <<s>> \o CutAtFirst(p)
  <2>. DEFINE f == FirstSensitive(p)
              c == CutAtFirst(p)
  <2>1. /\ f \in 1 .. Len(p) /\ c = [i \in 1 .. f |-> p[i]]
        /\ c \in Seq(Steps) /\ Len(c) = f
    BY <1>5, CutIs
  <2>2. f \in SensitiveSteps(p) /\ \A j \in SensitiveSteps(p) : f <= j
    <3>1. SensitiveSteps(p) \subseteq Nat
      BY <1>1, <1>3
    <3>. QED  BY <1>5, <3>1, LeastOf DEF FirstSensitive
  <2>. HIDE DEF f, c
  <2>3. FirstSensitive(q) = f + 1
    <3>1. f + 1 \in SensitiveSteps(q) /\ SensitiveSteps(q) \subseteq Nat
      BY <1>2, <1>3, <1>5, <2>2
    <3>2. \A j \in SensitiveSteps(q) : f + 1 <= j
      <4>1. \A j \in SensitiveSteps(p) : f + 1 <= j + 1
        BY <1>1, <1>3, <2>1, <2>2
      <4>. QED  BY <1>2, <1>5, <4>1
    <3>. QED  BY <3>1, <3>2, OnlyLeast DEF FirstSensitive
  <2>4. CutAtFirst(q) = [i \in 1 .. f + 1 |-> q[i]]
    <3>1. SensitiveSteps(q) # {}
      BY <1>2, <1>5, <2>2
    <3>. QED  BY <1>1, <2>3, <3>1, CutIs
  <2>5. /\ <<s>> \o c = [i \in 1 .. f + 1 |-> (<<s>> \o c)[i]]
        /\ (<<s>> \o c)[1] = s /\ \A i \in 1 .. f : (<<s>> \o c)[i + 1] = c[i]
    <3>1. /\ <<s>> \o c \in Seq(Steps) /\ Len(<<s>> \o c) = f + 1
          /\ (<<s>> \o c)[1] = s /\ \A i \in 1 .. f : (<<s>> \o c)[i + 1] = c[i]
      BY <2>1, Prefixed
    <3>. QED  BY <3>1, SeqParts
  <2>6. \A j \in 1 .. f + 1 : q[j] = (<<s>> \o c)[j]
    <3>1. ASSUME NEW j \in 1 .. f + 1, j # 1 PROVE q[j] = (<<s>> \o c)[j]
      <4>1. j - 1 \in 1 .. f /\ j - 1 \in 1 .. Len(p) /\ j = (j - 1) + 1
        BY <1>1, <2>1, <3>1
      <4>2. q[j] = p[j - 1] /\ (<<s>> \o c)[j] = c[j - 1] /\ c[j - 1] = p[j - 1]
        BY <1>1, <2>1, <2>5, <4>1
      <4>. QED  BY <4>2
    <3>. QED  BY <1>1, <2>5, <3>1
  <2>. QED  BY <2>4, <2>5, <2>6 DEF c
<1>. QED  BY <1>4, <1>5 DEF q

-----------------------------------------------------------------------------
(* Leaves, and what redaction makes of them.                               *)

IsLeaf(l) == l = [path |-> l.path, leaf |-> l.leaf] /\ l.path \in Seq(Steps)

LEMMA StepIs ==
    ASSUME NEW n \in Levels, NEW v \in ValuesUpto[n], IsContainer(v),
           NEW i \in DOMAIN v.entries, NEW key
    PROVE  /\ StepAt(v, i) \in Steps /\ StepAt(v, i).at = i
           /\ VisitKey(key, v, i) = StepAt(v, i).key
<1>1. VisitKey(key, v, i) = StepAt(v, i).key /\ VisitKey(NoKey, v, i) = StepAt(v, i).key
  BY DEF VisitKey, StepAt, ElementKey
<1>2. i \in Nat /\ VisitKey(NoKey, v, i) \in VisitedKeys
  <2>1. DOMAIN v.entries = 1 .. Len(v.entries) /\ Len(v.entries) \in Nat
    BY Parts
  <2>2. i \in Nat
    BY <2>1
  <2>3. NoKey \in VisitedKeys
    BY DEF VisitedKeys
  <2>. QED  BY <2>2, <2>3, Parts
<1>3. StepAt(v, i) = [key |-> StepAt(v, i).key, at |-> i]
  BY DEF StepAt
<1>. QED  BY <1>1, <1>2, <1>3 DEF Steps

LEMMA LeavesType ==
    ASSUME NEW n \in Levels, NEW v \in ValuesUpto[n]
    PROVE  /\ Leaves[v] # {}
           /\ \A l \in Leaves[v] : IsLeaf(l) /\ (l.path = <<>> => l.leaf = v)
<1>. DEFINE Good(m) ==
              m \in Levels => \A w \in ValuesUpto[m] :
                /\ Leaves[w] # {}
                /\ \A l \in Leaves[w] : IsLeaf(l) /\ (l.path = <<>> => l.leaf = w)
            T == {m \in Nat : Good(m)}
<1>1. ASSUME NEW m \in Levels, NEW w \in ValuesUpto[m], ~IsContainer(w) \/ w.entries = <<>>
      PROVE  /\ Leaves[w] # {}
             /\ \A l \in Leaves[w] : IsLeaf(l) /\ (l.path = <<>> => l.leaf = w)
  <2>1. Leaves[w] = {[path |-> <<>>, leaf |-> w]}
    BY <1>1, Unfold DEF LeavesBy, VisitedKeys
  <2>. QED  BY <2>1 DEF IsLeaf
<1>2. 0 \in T
  <2>. SUFFICES ASSUME 0 \in Levels, NEW w \in ValuesUpto[0] PROVE ~IsContainer(w)
    BY <1>1
  <2>. QED  BY Parts
<1>3. ASSUME NEW m \in Nat, m \in T PROVE m + 1 \in T
  <2>. SUFFICES ASSUME m + 1 \in Levels, NEW w \in ValuesUpto[m + 1],
                       IsContainer(w), w.entries # <<>>
                PROVE  /\ Leaves[w] # {}
                       /\ \A l \in Leaves[w] : IsLeaf(l) /\ (l.path = <<>> => l.leaf = w)
    BY <1>1
  <2>0. (m + 1) - 1 = m /\ m \in Levels
    BY DepthAssumption DEF Levels
  <2>1. /\ DOMAIN w.entries = 1 .. Len(w.entries) /\ Len(w.entries) \in Nat
        /\ w.entries = [i \in 1 .. Len(w.entries) |-> w.entries[i]]
    BY Parts
  <2>2. \A i \in DOMAIN w.entries : w.entries[i].value \in ValuesUpto[m]
    BY <2>0, Parts
  <2>3. Leaves[w] = UNION {Below(StepAt(w, i), Leaves[w.entries[i].value]) : i \in DOMAIN w.entries}
    BY Unfold DEF LeavesBy, VisitedKeys
  <2>4. \A i \in DOMAIN w.entries :
          /\ Leaves[w.entries[i].value] # {}
          /\ \A l \in Leaves[w.entries[i].value] : IsLeaf(l)
    BY <1>3, <2>0, <2>2
  <2>5. Leaves[w] # {}
    <3>1. 1 \in DOMAIN w.entries
      <4>1. Len(w.entries) # 0
        <5>. SUFFICES ASSUME Len(w.entries) = 0 PROVE FALSE
          OBVIOUS
        <5>1. w.entries = [i \in 1 .. 0 |-> w.entries[i]]
          BY <2>1
        <5>. QED  BY <5>1
      <4>. QED  BY <2>1, <4>1
    <3>2. PICK l : l \in Leaves[w.entries[1].value]
      BY <2>4, <3>1
    <3>3. [path |-> <<StepAt(w, 1)>> \o l.path, leaf |-> l.leaf]
            \in Below(StepAt(w, 1), Leaves[w.entries[1].value])
      BY <3>2 DEF Below
    <3>. QED  BY <2>3, <3>1, <3>3
  <2>6. ASSUME NEW l \in Leaves[w] PROVE IsLeaf(l) /\ l.path # <<>>
    <3>1. PICK i \in DOMAIN w.entries : l \in Below(StepAt(w, i), Leaves[w.entries[i].value])
      BY <2>3
    <3>2. PICK x \in Leaves[w.entries[i].value] :
            l = [path |-> <<StepAt(w, i)>> \o x.path, leaf |-> x.leaf]
      BY <3>1 DEF Below
    <3>3. StepAt(w, i) \in Steps /\ x.path \in Seq(Steps)
      BY <2>4, StepIs DEF IsLeaf
    <3>4. /\ <<StepAt(w, i)>> \o x.path \in Seq(Steps)
          /\ Len(<<StepAt(w, i)>> \o x.path) = Len(x.path) + 1 /\ Len(x.path) \in Nat
      BY <3>3, Prefixed
    <3>5. <<StepAt(w, i)>> \o x.path # <<>>
      BY <3>4, SeqParts
    <3>. QED  BY <3>2, <3>4, <3>5 DEF IsLeaf
  <2>. QED  BY <2>5, <2>6
<1>. HIDE DEF T
<1>4. n \in T
  <2>1. n \in Nat
    BY DepthAssumption DEF Levels
  <2>. QED  BY <1>2, <1>3, <2>1, SetInduction
<1>. QED  BY <1>4 DEF T

LEMMA SanitizedType ==
    ASSUME NEW n \in Levels, NEW v \in ValuesUpto[n], NEW key \in VisitedKeys
    PROVE  sanitize_json_value[<<key, v>>] \in ValuesUpto[n]
<1>. DEFINE T == {m \in Nat : m \in Levels => \A w \in ValuesUpto[m], x \in VisitedKeys :
                                sanitize_json_value[<<x, w>>] \in ValuesUpto[m]}
<1>1. ASSUME NEW m \in Levels, NEW w \in ValuesUpto[m], NEW x \in VisitedKeys,
             is_sensitive_key(x) \/ ~IsContainer(w)
      PROVE  sanitize_json_value[<<x, w>>] \in ValuesUpto[m]
  <2>1. sanitize_json_value[<<x, w>>] = IF is_sensitive_key(x) THEN String(Mark) ELSE w
    <3>1. sanitize_json_value[<<x, w>>] = SanitizedBy(sanitize_json_value, <<x, w>>)
      BY Unfold
    <3>2. CASE is_sensitive_key(x)
      BY <3>1, <3>2 DEF SanitizedBy
    <3>3. CASE ~is_sensitive_key(x)
      BY <1>1, <3>1, <3>3 DEF SanitizedBy
    <3>. QED  BY <3>2, <3>3
  <2>2. String(Mark) \in ValuesUpto[0]
    BY LevelStep, DepthAssumption DEF Flat, String, Levels
  <2>3. ValuesUpto[0] \subseteq ValuesUpto[m]
    BY LevelsGrow, DepthAssumption DEF Levels
  <2>. QED  BY <2>1, <2>2, <2>3
<1>2. 0 \in T
  <2>. SUFFICES ASSUME 0 \in Levels, NEW w \in ValuesUpto[0] PROVE ~IsContainer(w)
    BY <1>1
  <2>. QED  BY Parts
<1>3. ASSUME NEW m \in Nat, m \in T PROVE m + 1 \in T
  <2>. SUFFICES ASSUME m + 1 \in Levels, NEW w \in ValuesUpto[m + 1], NEW x \in VisitedKeys,
                       ~is_sensitive_key(x), IsContainer(w)
                PROVE  sanitize_json_value[<<x, w>>] \in ValuesUpto[m + 1]
    BY <1>1
  <2>. DEFINE f == [i \in DOMAIN w.entries |-> sanitize_json_value[EntryVisit(<<x, w>>, i)]]
  <2>1. sanitize_json_value[<<x, w>>] = WithValues(w, f)
    BY Unfold DEF SanitizedBy
  <2>2. (m + 1) - 1 = m /\ m \in Levels
    BY DepthAssumption DEF Levels
  <2>3. ASSUME NEW i \in DOMAIN w.entries PROVE f[i] \in ValuesUpto[m]
    <3>1. w.entries[i].value \in ValuesUpto[m] /\ VisitKey(x, w, i) \in VisitedKeys
      BY <2>2, Parts
    <3>2. f[i] = sanitize_json_value[<<VisitKey(x, w, i), w.entries[i].value>>]
      BY DEF EntryVisit
    <3>. QED  BY <1>3, <2>2, <3>1, <3>2
  <2>. HIDE DEF f
  <2>. QED  BY <2>1, <2>2, <2>3, Rebuilt
<1>. HIDE DEF T
<1>4. n \in T
  <2>1. n \in Nat
    BY DepthAssumption DEF Levels
  <2>. QED  BY <1>2, <1>3, <2>1, SetInduction
<1>. QED  BY <1>4 DEF T

-----------------------------------------------------------------------------
(* Redaction.                                                              *)

Redacted(l) ==
    IF SensitiveSteps(l.path) = {} THEN l
    ELSE [path |-> CutAtFirst(l.path), leaf |-> String(Mark)]

(* A leaf that lies below another step.                                    *)
Under(s, l) == [path |-> <<s>> \o l.path, leaf |-> l.leaf]

LEMMA RedactedUnder ==
    ASSUME NEW s \in Steps, NEW l, IsLeaf(l)
    PROVE  /\ Sensitive(s) => Redacted(Under(s, l)) = [path |-> <<s>>, leaf |-> String(Mark)]
           /\ ~Sensitive(s) => Redacted(Under(s, l)) = Under(s, Redacted(l))
<1>. DEFINE p == l.path
            q == <<s>> \o l.path
<1>1. l = [path |-> p, leaf |-> l.leaf] /\ p \in Seq(Steps)
  BY DEF IsLeaf
<1>2. /\ Sensitive(s) => 1 \in SensitiveSteps(q)
      /\ ~Sensitive(s) => SensitiveSteps(q) = {i + 1 : i \in SensitiveSteps(p)}
  BY <1>1, SensitivePrefixed
<1>3. /\ Sensitive(s) => CutAtFirst(q) = <<s>>
      /\ ~Sensitive(s) /\ SensitiveSteps(p) # {} => CutAtFirst(q) = <<s>> \o CutAtFirst(p)
  BY <1>1, CutPrefixed
<1>4. Under(s, l) = [path |-> q, leaf |-> l.leaf] /\ Under(s, l).path = q
  BY DEF Under
<1>. HIDE DEF q
<1>5. CASE Sensitive(s)
  BY <1>2, <1>3, <1>4, <1>5 DEF Redacted
<1>6. CASE ~Sensitive(s)
  <2>1. CASE SensitiveSteps(p) = {}
    <3>1. SensitiveSteps(q) = {}
      BY <1>2, <1>6, <2>1
    <3>. QED  BY <1>4, <1>6, <2>1, <3>1 DEF Redacted
  <2>2. CASE SensitiveSteps(p) # {}
    <3>1. SensitiveSteps(q) # {}
      BY <1>2, <1>6, <2>2
    <3>2. Redacted(Under(s, l)) = [path |-> CutAtFirst(q), leaf |-> String(Mark)]
      BY <1>4, <3>1 DEF Redacted
    <3>3. Redacted(l) = [path |-> CutAtFirst(p), leaf |-> String(Mark)]
      BY <2>2 DEF Redacted
    <3>4. Under(s, Redacted(l)) = [path |-> <<s>> \o CutAtFirst(p), leaf |-> String(Mark)]
      BY <3>3 DEF Under
    <3>. QED  BY <1>3, <1>6, <2>2, <3>2, <3>4
  <2>. QED  BY <2>1, <2>2
<1>. QED  BY <1>5, <1>6

(* The leaves of what the sanitizer returns are those of its argument,     *)
(* each kept or cut.                                                       *)
RedactsTo(key, v) ==
    Leaves[sanitize_json_value[<<key, v>>]] = {Redacted(l) : l \in Leaves[v]}

LEMMA SensitiveKey == ASSUME NEW s PROVE is_sensitive_key(s.key) <=> Sensitive(s)
  BY DEF is_sensitive_key, Sensitive

LEMMA RedactsFlat ==
    ASSUME NEW n \in Levels, NEW v \in ValuesUpto[n], NEW key \in VisitedKeys,
           ~is_sensitive_key(key), ~IsContainer(v) \/ v.entries = <<>>
    PROVE  RedactsTo(key, v)
<1>. DEFINE san == sanitize_json_value[<<key, v>>]
<1>1. san = v
  <2>. DEFINE f == [i \in DOMAIN v.entries |-> sanitize_json_value[EntryVisit(<<key, v>>, i)]]
  <2>1. san = IF IsContainer(v) THEN WithValues(v, f) ELSE v
    BY Unfold DEF SanitizedBy
  <2>2. ASSUME IsContainer(v), v.entries = <<>> PROVE WithValues(v, f) = v
    <3>1. \A i \in DOMAIN v.entries : f[i] \in ValuesUpto[n - 1]
      BY <2>2
    <3>. HIDE DEF f
    <3>. QED  BY <2>2, <3>1, Rebuilt
  <2>. HIDE DEF f, san
  <2>. QED  BY <2>1, <2>2
<1>2. Leaves[v] = {[path |-> <<>>, leaf |-> v]}
  BY Unfold DEF LeavesBy
<1>3. Redacted([path |-> <<>>, leaf |-> v]) = [path |-> <<>>, leaf |-> v]
  BY DEF Redacted, SensitiveSteps
<1>. QED  BY <1>1, <1>2, <1>3 DEF RedactsTo

(* What the entry at a step becomes.                                       *)
LEMMA RedactsBelow ==
    ASSUME NEW n \in Levels, NEW v \in ValuesUpto[n], NEW s \in Steps,
           ~Sensitive(s) => RedactsTo(s.key, v)
    PROVE  Below(s, Leaves[sanitize_json_value[<<s.key, v>>]])
             = {Redacted(l) : l \in Below(s, Leaves[v])}
<1>. DEFINE san == sanitize_json_value[<<s.key, v>>]
<1>0. s.key \in VisitedKeys
  BY DEF Steps
<1>1. Leaves[v] # {} /\ \A l \in Leaves[v] : IsLeaf(l)
  BY LeavesType
<1>2. \A ls : Below(s, ls) = {Under(s, l) : l \in ls}
  BY DEF Below, Under
<1>3. {Redacted(l) : l \in Below(s, Leaves[v])} = {Redacted(Under(s, l)) : l \in Leaves[v]}
  BY <1>2
<1>4. CASE Sensitive(s)
  <2>1. san = String(Mark)
    <3>1. is_sensitive_key(s.key)
      BY <1>4, SensitiveKey
    <3>2. san = SanitizedBy(sanitize_json_value, <<s.key, v>>)
      BY <1>0, Unfold
    <3>. QED  BY <3>1, <3>2 DEF SanitizedBy
  <2>2. String(Mark) \in ValuesUpto[0] /\ 0 \in Levels /\ ~IsContainer(String(Mark))
    BY LevelStep, DepthAssumption DEF Flat, String, Levels, IsContainer
  <2>3. Leaves[san] = {[path |-> <<>>, leaf |-> String(Mark)]}
    BY <1>0, <2>1, <2>2, Unfold DEF LeavesBy
  <2>4. Under(s, [path |-> <<>>, leaf |-> String(Mark)]) = [path |-> <<s>>, leaf |-> String(Mark)]
    BY DEF Under
  <2>5. Below(s, Leaves[san]) = {[path |-> <<s>>, leaf |-> String(Mark)]}
    BY <1>2, <2>3, <2>4
  <2>6. \A l \in Leaves[v] : Redacted(Under(s, l)) = [path |-> <<s>>, leaf |-> String(Mark)]
    BY <1>1, <1>4, RedactedUnder
  <2>7. {Redacted(Under(s, l)) : l \in Leaves[v]} = {[path |-> <<s>>, leaf |-> String(Mark)]}
    BY <1>1, <2>6
  <2>. QED  BY <1>3, <2>5, <2>7
<1>5. CASE ~Sensitive(s)
  <2>1. Leaves[san] = {Redacted(l) : l \in Leaves[v]}
    BY <1>5 DEF RedactsTo
  <2>. HIDE DEF san
  <2>2. Below(s, Leaves[san]) = {Under(s, Redacted(l)) : l \in Leaves[v]}
    BY <1>2, <2>1
  <2>3. \A l \in Leaves[v] : Redacted(Under(s, l)) = Under(s, Redacted(l))
    BY <1>1, <1>5, RedactedUnder
  <2>4. {Redacted(Under(s, l)) : l \in Leaves[v]} = {Under(s, Redacted(l)) : l \in Leaves[v]}
    BY <2>3
  <2>. QED  BY <1>3, <2>2, <2>4 DEF san
<1>. QED  BY <1>4, <1>5

LEMMA RedactsAll ==
    ASSUME NEW n \in Levels, NEW v \in ValuesUpto[n], NEW key \in VisitedKeys,
           ~is_sensitive_key(key)
    PROVE  RedactsTo(key, v)
<1>. DEFINE T == {m \in Nat : m \in Levels => \A w \in ValuesUpto[m], x \in VisitedKeys :
                                ~is_sensitive_key(x) => RedactsTo(x, w)}
<1>1. 0 \in T
  <2>. SUFFICES ASSUME 0 \in Levels, NEW w \in ValuesUpto[0] PROVE ~IsContainer(w)
    BY RedactsFlat
  <2>. QED  BY Parts
<1>2. ASSUME NEW m \in Nat, m \in T PROVE m + 1 \in T
  <2>. SUFFICES ASSUME m + 1 \in Levels, NEW w \in ValuesUpto[m + 1], NEW x \in VisitedKeys,
                       ~is_sensitive_key(x), IsContainer(w), w.entries # <<>>
                PROVE  RedactsTo(x, w)
    BY RedactsFlat
  <2>. DEFINE I == DOMAIN w.entries
              f == [i \in I |-> sanitize_json_value[EntryVisit(<<x, w>>, i)]]
              ls(i) == Leaves[w.entries[i].value]
  <2>1. (m + 1) - 1 = m /\ m \in Levels
    BY DepthAssumption DEF Levels
  <2>2. \A i \in I : w.entries[i].value \in ValuesUpto[m]
    BY <2>1, Parts
  <2>3. ASSUME NEW i \in I
        PROVE  /\ StepAt(w, i) \in Steps /\ StepAt(w, i).key \in VisitedKeys
               /\ f[i] = sanitize_json_value[<<StepAt(w, i).key, w.entries[i].value>>]
    <3>1. StepAt(w, i) \in Steps /\ VisitKey(x, w, i) = StepAt(w, i).key
      BY StepIs
    <3>2. StepAt(w, i).key \in VisitedKeys
      BY <3>1 DEF Steps
    <3>. QED  BY <3>1, <3>2 DEF EntryVisit
  <2>4. \A i \in I : f[i] \in ValuesUpto[m]
    BY <2>1, <2>2, <2>3, SanitizedType
  <2>5. sanitize_json_value[<<x, w>>] = WithValues(w, f)
    BY Unfold DEF SanitizedBy
  <2>. DEFINE san == WithValues(w, f)
  <2>. HIDE DEF f
  <2>6. /\ san \in ValuesUpto[m + 1] /\ IsContainer(san) /\ san.entries # <<>>
        /\ DOMAIN san.entries = I
        /\ \A i \in I : san.entries[i].value = f[i] /\ StepAt(san, i) = StepAt(w, i)
    BY <2>1, <2>4, Rebuilt DEF IsContainer
  <2>. HIDE DEF san
  <2>7. Leaves[san] = UNION {Below(StepAt(san, i), Leaves[san.entries[i].value]) :
                               i \in DOMAIN san.entries}
    BY <2>6, Unfold DEF LeavesBy
  <2>8. Leaves[w] = UNION {Below(StepAt(w, i), ls(i)) : i \in I}
    BY Unfold DEF LeavesBy
  <2>9. ASSUME NEW i \in I
        PROVE  Below(StepAt(san, i), Leaves[san.entries[i].value])
                 = {Redacted(l) : l \in Below(StepAt(w, i), ls(i))}
    <3>. DEFINE s == StepAt(w, i)
    <3>1. ~Sensitive(s) => RedactsTo(s.key, w.entries[i].value)
      BY <1>2, <2>1, <2>2, <2>3, SensitiveKey
    <3>2. Below(s, Leaves[sanitize_json_value[<<s.key, w.entries[i].value>>]])
             = {Redacted(l) : l \in Below(s, Leaves[w.entries[i].value])}
      BY <2>1, <2>2, <2>3, <3>1, RedactsBelow
    <3>. QED  BY <2>3, <2>6, <3>2
  <2>. HIDE DEF I, ls
  <2>10. Leaves[san] = UNION {{Redacted(l) : l \in Below(StepAt(w, i), ls(i))} : i \in I}
    <3>. DEFINE A(i) == Below(StepAt(san, i), Leaves[san.entries[i].value])
                B(i) == {Redacted(l) : l \in Below(StepAt(w, i), ls(i))}
    <3>1. Leaves[san] = UNION {A(i) : i \in I}
      BY <2>6, <2>7
    <3>2. \A i \in I : A(i) = B(i)
      BY <2>9
    <3>. HIDE DEF A, B
    <3>3. {A(i) : i \in I} = {B(i) : i \in I}
      BY <3>2
    <3>4. Leaves[san] = UNION {B(i) : i \in I}
      BY <3>1, <3>3
    <3>. QED  BY <3>4 DEF B
  <2>11. Leaves[san] = {Redacted(l) : l \in Leaves[w]}
    <3>. DEFINE A(i) == Below(StepAt(w, i), ls(i))
    <3>1. Leaves[san] = UNION {{Redacted(l) : l \in A(i)} : i \in I}
      BY <2>10
    <3>2. Leaves[w] = UNION {A(i) : i \in I}
      BY <2>8
    <3>. HIDE DEF A
    <3>. QED  BY <3>1, <3>2
  <2>. QED  BY <2>5, <2>11 DEF RedactsTo, san
<1>. HIDE DEF T
<1>3. n \in T
  <2>1. n \in Nat
    BY DepthAssumption DEF Levels
  <2>. QED  BY <1>1, <1>2, <2>1, SetInduction
<1>. QED  BY <1>3 DEF T

(* The body of the record.                                                 *)
LEMMA BodyLeaves ==
    ASSUME NEW r \in Requests
    PROVE  /\ Leaves[sanitize_json_array(r)] = {Redacted(l) : l \in Leaves[r]}
           /\ \A l \in Leaves[r] : IsLeaf(l)
<1>1. r \in ValuesUpto[MaxDepth] /\ MaxDepth \in Levels
  BY RequestsAssumption, DepthAssumption DEF Values, Levels
<1>2. NoKey \in VisitedKeys /\ ~is_sensitive_key(NoKey)
  BY DEF VisitedKeys, is_sensitive_key, TermsOf
<1>3. RedactsTo(NoKey, r)
  BY <1>1, <1>2, RedactsAll
<1>4. \A l \in Leaves[r] : IsLeaf(l)
  BY <1>1, LeavesType
<1>. QED  BY <1>3, <1>4 DEF RedactsTo, sanitize_json_array

(* A leaf is cut exactly when its path has a sensitive step.               *)
LEMMA RedactedLeaf ==
    ASSUME NEW l, IsLeaf(l)
    PROVE  /\ SensitiveSteps(l.path) = {} => Redacted(l) = l
           /\ SensitiveSteps(l.path) # {} =>
                /\ Redacted(l).path = CutAtFirst(l.path)
                /\ Redacted(l).leaf = String(Mark)
                /\ SensitiveSteps(Redacted(l).path) = {Len(Redacted(l).path)}
<1>1. ASSUME SensitiveSteps(l.path) # {}
      PROVE  /\ Redacted(l).path = CutAtFirst(l.path)
             /\ Redacted(l).leaf = String(Mark)
             /\ SensitiveSteps(Redacted(l).path) = {Len(Redacted(l).path)}
  <2>1. Redacted(l) = [path |-> CutAtFirst(l.path), leaf |-> String(Mark)]
    BY <1>1 DEF Redacted
  <2>2. SensitiveSteps(CutAtFirst(l.path)) = {Len(CutAtFirst(l.path))}
    BY <1>1, CutIs DEF IsLeaf
  <2>. QED  BY <2>1, <2>2
<1>. QED  BY <1>1 DEF Redacted

LEMMA RedactedBody ==
    ASSUME NEW r \in Requests, NEW b, b = sanitize_json_array(r)
    PROVE  /\ \A l \in Leaves[b] : \A i \in SensitiveSteps(l.path) :
                 i = Len(l.path) /\ l.leaf = String(Mark)
           /\ Clean(Leaves[b]) = Clean(Leaves[r])
           /\ {l.path : l \in Leaves[b] \ Clean(Leaves[b])} =
                {CutAtFirst(l.path) : l \in Leaves[r] \ Clean(Leaves[r])}
<1>. DEFINE L == Leaves[r]
            B == Leaves[b]
            Hit(l) == SensitiveSteps(l.path) # {}
<1>1. B = {Redacted(l) : l \in L} /\ \A l \in L : IsLeaf(l)
  BY BodyLeaves
<1>. HIDE DEF L, B
<1>2. \A l \in L : ~Hit(l) => Redacted(l) = l
  BY <1>1, RedactedLeaf
<1>3. \A l \in L : Hit(l) => /\ Redacted(l).path = CutAtFirst(l.path)
                             /\ Redacted(l).leaf = String(Mark)
                             /\ SensitiveSteps(Redacted(l).path) = {Len(Redacted(l).path)}
  BY <1>1, RedactedLeaf
<1>4. \A ls : Clean(ls) = {l \in ls : ~Hit(l)}
  BY DEF Clean
<1>5. \A l \in L : Hit(Redacted(l)) <=> Hit(l)
  BY <1>2, <1>3
<1>6. ASSUME NEW l \in B, NEW i \in SensitiveSteps(l.path)
      PROVE  i = Len(l.path) /\ l.leaf = String(Mark)
  <2>1. PICK m \in L : l = Redacted(m)
    BY <1>1
  <2>2. Hit(m)
    BY <1>5, <1>6, <2>1
  <2>. QED  BY <1>3, <1>6, <2>1, <2>2
<1>7. Clean(B) = Clean(L)
  <2>1. ASSUME NEW l \in B, ~Hit(l) PROVE l \in L
    BY <1>1, <1>2, <1>5, <2>1
  <2>2. ASSUME NEW l \in L, ~Hit(l) PROVE l \in B
    BY <1>1, <1>2, <2>2
  <2>. HIDE DEF Hit
  <2>. QED  BY <1>4, <2>1, <2>2
<1>8. {l.path : l \in B \ Clean(B)} = {CutAtFirst(l.path) : l \in L \ Clean(L)}
  <2>1. B \ Clean(B) = {l \in B : Hit(l)} /\ L \ Clean(L) = {l \in L : Hit(l)}
    BY <1>4
  <2>. HIDE DEF Hit
  <2>2. B \ Clean(B) = {Redacted(l) : l \in L \ Clean(L)}
    BY <1>1, <1>5, <2>1
  <2>3. \A l \in L \ Clean(L) : Redacted(l).path = CutAtFirst(l.path)
    BY <1>3, <2>1
  <2>4. {l.path : l \in B \ Clean(B)} = {Redacted(l).path : l \in L \ Clean(L)}
    BY <2>2
  <2>. QED  BY <2>3, <2>4
<1>. QED  BY <1>6, <1>7, <1>8 DEF L, B

-----------------------------------------------------------------------------
(* The caller.                                                             *)

LEMMA FirstFoundIs ==
    ASSUME NEW n \in Nat, NEW r, DOMAIN r = 1 .. n
    PROVE  /\ (\A i \in 1 .. n : r[i] = NoOperator) => FirstFound(r) = NoOperator
           /\ (\E i \in 1 .. n : r[i] # NoOperator) =>
                \E f \in 1 .. n :
                    /\ r[f] # NoOperator /\ \A j \in 1 .. f - 1 : r[j] = NoOperator
                    /\ FirstFound(r) = r[f]
<1>1. ASSUME \E i \in 1 .. n : r[i] # NoOperator
      PROVE  \E f \in 1 .. n :
                /\ r[f] # NoOperator /\ \A j \in 1 .. f - 1 : r[j] = NoOperator
                /\ FirstFound(r) = r[f]
  <2>. DEFINE S == {i \in 1 .. n : r[i] # NoOperator}
              P(i) == r[i] # NoOperator /\ \A j \in 1 .. i - 1 : r[j] = NoOperator
  <2>1. S \subseteq Nat /\ S # {}
    BY <1>1
  <2>2. PICK x \in S : \A j \in S : x <= j
    BY <2>1, LeastOf
  <2>3. x \in 1 .. n /\ P(x)
    <3>1. x \in 1 .. n /\ r[x] # NoOperator
      OBVIOUS
    <3>2. ASSUME NEW j \in 1 .. x - 1 PROVE r[j] = NoOperator
      <4>1. j \in 1 .. n /\ ~ (x <= j)
        BY <3>1
      <4>. QED  BY <2>2, <4>1
    <3>. QED  BY <3>1, <3>2
  <2>4. FirstFound(r) = r[CHOOSE i \in 1 .. n : P(i)]
    BY <1>1 DEF FirstFound
  <2>. DEFINE f == CHOOSE i \in 1 .. n : P(i)
  <2>5. f \in 1 .. n /\ P(f)
    BY <2>3
  <2>. QED  BY <2>4, <2>5
<1>. QED  BY <1>1 DEF FirstFound

(* The tag of a rune is the first of its restrictions that is one.         *)
LEMMA RuneTagIs ==
    ASSUME NEW l, l.leaf.text \in DOMAIN RuneParts
    PROVE  /\ Tags(l) = {} => rune_tag(l.leaf.text) = NoOperator
           /\ Tags(l) # {} => rune_tag(l.leaf.text) = NameIn(l) /\ NameIn(l) \in Operators
<1>. DEFINE P == RuneParts[l.leaf.text]
            r == [i \in DOMAIN P |-> Tag(P[i])]
<1>1. P \in Seq(STRING)
  BY RedactionAssumption
<1>2. rune_tag(l.leaf.text) = FirstFound(r)
  BY DEF rune_tag
<1>3. Tags(l) = {i \in DOMAIN P : P[i] \in Operators}
  BY DEF Tags
<1>4. NameIn(l) = P[CHOOSE i \in Tags(l) : \A j \in Tags(l) : i <= j]
  BY DEF NameIn
<1>. HIDE DEF P
<1>5. Len(P) \in Nat /\ DOMAIN P = 1 .. Len(P)
  BY <1>1, SeqParts
<1>6. DOMAIN r = 1 .. Len(P) /\ \A i \in 1 .. Len(P) : r[i] = Tag(P[i])
  BY <1>5
<1>. HIDE DEF r
<1>7. \A i \in 1 .. Len(P) :
        /\ r[i] # NoOperator <=> i \in Tags(l)
        /\ i \in Tags(l) => r[i] = P[i] /\ P[i] \in Operators
  BY <1>3, <1>5, <1>6, OperatorsAssumption DEF Tag
<1>8. CASE Tags(l) = {}
  <2>1. \A i \in 1 .. Len(P) : r[i] = NoOperator
    BY <1>7, <1>8
  <2>. QED  BY <1>2, <1>5, <1>6, <1>8, <2>1, FirstFoundIs
<1>9. CASE Tags(l) # {}
  <2>1. \E i \in 1 .. Len(P) : r[i] # NoOperator
    BY <1>3, <1>5, <1>7, <1>9
  <2>2. PICK f \in 1 .. Len(P) :
            /\ r[f] # NoOperator /\ \A j \in 1 .. f - 1 : r[j] = NoOperator
            /\ FirstFound(r) = r[f]
    BY <1>5, <1>6, <2>1, FirstFoundIs
  <2>3. f \in Tags(l) /\ r[f] = P[f] /\ P[f] \in Operators
    BY <1>7, <2>2
  <2>4. ASSUME NEW j \in Tags(l) PROVE f <= j
    <3>1. j \in 1 .. Len(P) /\ r[j] # NoOperator
      BY <1>3, <1>5, <1>7
    <3>. QED  BY <1>5, <2>2, <3>1
  <2>5. Tags(l) \subseteq Nat
    BY <1>3, <1>5
  <2>6. (CHOOSE i \in Tags(l) : \A j \in Tags(l) : i <= j) = f
    BY <2>3, <2>4, <2>5, OnlyLeast
  <2>. QED  BY <1>2, <1>4, <1>9, <2>2, <2>3, <2>6
<1>. QED  BY <1>8, <1>9

(* The leaves that name an operator in a value that is visited under a     *)
(* key, which is that of the value itself.                                 *)
LastKey(key, path) == IF path = <<>> THEN key ELSE path[Len(path)].key
NamesUnder(key, l) ==
    /\ l.leaf.is = "string" /\ l.leaf.text \in DOMAIN RuneParts
    /\ "rune" \in TermsOf(LastKey(key, l.path))
    /\ Tags(l) # {}
NamedIn(key, v) == {l \in Leaves[v] : NamesUnder(key, l)}

(* The caller that is found is the first of them.                          *)
IsFirst(l, ls) == l \in ls /\ \A m \in ls : m = l \/ Earlier(l.path, m.path)
FindsFirst(key, v) ==
    IF NamedIn(key, v) = {} THEN rune_from_json_value[<<key, v>>] = NoOperator
    ELSE \E l \in NamedIn(key, v) :
            IsFirst(l, NamedIn(key, v)) /\ rune_from_json_value[<<key, v>>] = NameIn(l)

LEMMA NamesUnderStep ==
    ASSUME NEW s \in Steps, NEW l, IsLeaf(l), NEW key
    PROVE  /\ NamesUnder(key, Under(s, l)) <=> NamesUnder(s.key, l)
           /\ NameIn(Under(s, l)) = NameIn(l)
<1>1. Under(s, l).leaf = l.leaf /\ Under(s, l).path = <<s>> \o l.path
  BY DEF Under
<1>2. Tags(Under(s, l)) = Tags(l)
  BY <1>1 DEF Tags
<1>3. LastKey(key, <<s>> \o l.path) = LastKey(s.key, l.path)
  <2>. DEFINE p == l.path
              q == <<s>> \o l.path
  <2>1. /\ Len(q) = Len(p) + 1 /\ Len(p) \in Nat /\ q[1] = s /\ q \in Seq(Steps)
        /\ \A i \in 1 .. Len(p) : q[i + 1] = p[i]
        /\ p = <<>> <=> Len(p) = 0
    BY Prefixed DEF IsLeaf
  <2>2. q # <<>>
    BY <2>1, SeqParts
  <2>. HIDE DEF q
  <2>3. CASE p = <<>>
    BY <2>1, <2>2, <2>3 DEF LastKey
  <2>4. CASE p # <<>>
    <3>1. Len(p) \in 1 .. Len(p)
      BY <2>1, <2>4
    <3>2. q[Len(q)] = p[Len(p)]
      BY <2>1, <3>1
    <3>. QED  BY <2>2, <2>4, <3>2 DEF LastKey
  <2>. QED  BY <2>3, <2>4 DEF q
<1>. QED  BY <1>1, <1>2, <1>3 DEF NamesUnder, NameIn

LEMMA EarlierUnder ==
    ASSUME NEW s \in Steps, NEW t \in Steps, NEW l, IsLeaf(l), NEW m, IsLeaf(m)
    PROVE  /\ s.at < t.at => Earlier(Under(s, l).path, Under(t, m).path)
           /\ s = t /\ Earlier(l.path, m.path) => Earlier(Under(s, l).path, Under(t, m).path)
<1>. DEFINE p == l.path
            q == m.path
            ps == <<s>> \o p
            qt == <<t>> \o q
<1>1. Under(s, l).path = ps /\ Under(t, m).path = qt
  BY DEF Under
<1>2. /\ Len(p) \in Nat /\ DOMAIN p = 1 .. Len(p) /\ DOMAIN ps = 1 .. Len(p) + 1
      /\ ps[1] = s /\ \A i \in 1 .. Len(p) : ps[i + 1] = p[i]
  BY Prefixed DEF IsLeaf
<1>3. /\ Len(q) \in Nat /\ DOMAIN q = 1 .. Len(q) /\ DOMAIN qt = 1 .. Len(q) + 1
      /\ qt[1] = t /\ \A i \in 1 .. Len(q) : qt[i + 1] = q[i]
  BY Prefixed DEF IsLeaf
<1>. HIDE DEF p, q, ps, qt
<1>4. ASSUME s.at < t.at PROVE Earlier(ps, qt)
  <2>1. 1 \in DOMAIN ps \cap DOMAIN qt /\ ps[1].at < qt[1].at
    BY <1>2, <1>3, <1>4
  <2>2. \A j \in 1 .. 1 - 1 : ps[j].at = qt[j].at
    OBVIOUS
  <2>. QED  BY <2>1, <2>2 DEF Earlier
<1>5. ASSUME s = t, Earlier(p, q) PROVE Earlier(ps, qt)
  <2>1. PICK i \in DOMAIN p \cap DOMAIN q :
            p[i].at < q[i].at /\ \A j \in 1 .. i - 1 : p[j].at = q[j].at
    BY <1>5 DEF Earlier
  <2>2. i \in 1 .. Len(p) /\ i \in 1 .. Len(q)
    BY <1>2, <1>3
  <2>3. i + 1 \in DOMAIN ps \cap DOMAIN qt /\ ps[i + 1] = p[i] /\ qt[i + 1] = q[i]
    BY <1>2, <1>3, <2>2
  <2>4. ASSUME NEW j \in 1 .. (i + 1) - 1 PROVE ps[j].at = qt[j].at
    <3>1. CASE j = 1
      BY <1>2, <1>3, <1>5, <3>1
    <3>2. CASE j # 1
      <4>1. j - 1 \in 1 .. i - 1 /\ j - 1 \in 1 .. Len(p) /\ j - 1 \in 1 .. Len(q)
            /\ j = (j - 1) + 1
        BY <1>2, <1>3, <2>2, <3>2
      <4>2. ps[j] = p[j - 1] /\ qt[j] = q[j - 1]
        BY <1>2, <1>3, <4>1
      <4>. QED  BY <2>1, <4>1, <4>2
    <3>. QED  BY <3>1, <3>2
  <2>. QED  BY <2>1, <2>3, <2>4 DEF Earlier
<1>. QED  BY <1>1, <1>4, <1>5 DEF p, q

LEMMA NameIsOperator ==
    ASSUME NEW key, NEW l, NamesUnder(key, l)
    PROVE  /\ NameIn(l) # NoOperator
           /\ rune_tag(l.leaf.text) = NameIn(l)
  BY RuneTagIs, OperatorsAssumption DEF NamesUnder

LEMMA FindsInFlat ==
    ASSUME NEW n \in Levels, NEW v \in ValuesUpto[n], NEW key \in VisitedKeys,
           ~IsContainer(v) \/ v.entries = <<>>
    PROVE  FindsFirst(key, v)
<1>. DEFINE l == [path |-> <<>>, leaf |-> v]
            found == rune_from_json_value[<<key, v>>]
<1>0. found = FoundBy(rune_from_json_value, <<key, v>>)
  BY Unfold
<1>1. Leaves[v] = {l}
  BY Unfold DEF LeavesBy
<1>2. NamedIn(key, v) = IF NamesUnder(key, l) THEN {l} ELSE {}
  BY <1>1 DEF NamedIn
<1>3. /\ l.leaf = v /\ l.path = <<>> /\ LastKey(key, l.path) = key
  BY DEF LastKey
<1>. HIDE DEF l, found
<1>4. CASE IsContainer(v)
  <2>1. ~NamesUnder(key, l)
    BY <1>3, <1>4 DEF NamesUnder, IsContainer
  <2>2. found = NoOperator
    <3>. DEFINE r == [i \in DOMAIN v.entries |-> rune_from_json_value[EntryVisit(<<key, v>>, i)]]
    <3>1. found = FirstFound(r)
      BY <1>0, <1>4 DEF FoundBy
    <3>2. DOMAIN r = 1 .. 0
      BY <1>4
    <3>. HIDE DEF r
    <3>. QED  BY <3>1, <3>2, FirstFoundIs
  <2>. QED  BY <1>2, <2>1, <2>2 DEF FindsFirst, found
<1>5. CASE ~IsContainer(v)
  <2>1. found = OwnTag(key, v)
    BY <1>0, <1>5 DEF FoundBy
  <2>2. CASE NamesUnder(key, l)
    <3>1. found = rune_tag(v.text)
      BY <1>3, <2>1, <2>2 DEF OwnTag, NamesUnder
    <3>2. found = NameIn(l)
      BY <1>3, <2>2, <3>1, NameIsOperator
    <3>. QED  BY <1>2, <2>2, <3>2 DEF FindsFirst, IsFirst, found
  <2>3. CASE ~NamesUnder(key, l)
    <3>1. found = NoOperator
      <4>1. CASE ~("rune" \in TermsOf(key) /\ v.is = "string")
        BY <2>1, <4>1 DEF OwnTag
      <4>2. CASE "rune" \in TermsOf(key) /\ v.is = "string" /\ v.text \notin DOMAIN RuneParts
        BY <2>1, <4>2 DEF OwnTag, rune_tag
      <4>3. CASE "rune" \in TermsOf(key) /\ v.is = "string" /\ v.text \in DOMAIN RuneParts
        <5>1. Tags(l) = {}
          BY <1>3, <2>3, <4>3 DEF NamesUnder
        <5>2. rune_tag(v.text) = NoOperator
          BY <1>3, <4>3, <5>1, RuneTagIs
        <5>. QED  BY <2>1, <4>3, <5>2 DEF OwnTag
      <4>. QED  BY <4>1, <4>2, <4>3
    <3>. QED  BY <1>2, <2>3, <3>1 DEF FindsFirst, found
  <2>. QED  BY <2>2, <2>3
<1>. QED  BY <1>4, <1>5

(* The leaves that name an operator in a container are those of its        *)
(* entries, each below its step.                                           *)
LEMMA NamedInEntries ==
    ASSUME NEW n \in Levels, NEW v \in ValuesUpto[n], NEW key \in VisitedKeys,
           IsContainer(v), v.entries # <<>>
    PROVE  NamedIn(key, v) =
             UNION {{Under(StepAt(v, i), l) :
                        l \in NamedIn(StepAt(v, i).key, v.entries[i].value)} :
                    i \in DOMAIN v.entries}
<1>. DEFINE I == DOMAIN v.entries
            s(i) == StepAt(v, i)
            ls(i) == Leaves[v.entries[i].value]
<1>1. Leaves[v] = UNION {Below(s(i), ls(i)) : i \in I}
  BY Unfold DEF LeavesBy
<1>2. ASSUME NEW i \in I, NEW l \in ls(i)
      PROVE  NamesUnder(key, Under(s(i), l)) <=> NamesUnder(s(i).key, l)
  <2>1. s(i) \in Steps
    BY StepIs
  <2>2. v.entries[i].value \in ValuesUpto[n - 1] /\ n - 1 \in Levels
    BY Parts
  <2>3. IsLeaf(l)
    BY <2>2, LeavesType
  <2>. QED  BY <2>1, <2>3, NamesUnderStep
<1>3. \A i \in I : Below(s(i), ls(i)) = {Under(s(i), l) : l \in ls(i)}
  BY DEF Below, Under
<1>4. \A i \in I : NamedIn(s(i).key, v.entries[i].value) = {l \in ls(i) : NamesUnder(s(i).key, l)}
  BY DEF NamedIn
<1>. HIDE DEF I, s, ls
<1>5. {l \in Leaves[v] : NamesUnder(key, l)}
        = UNION {{Under(s(i), l) : l \in NamedIn(s(i).key, v.entries[i].value)} : i \in I}
  <2>1. ASSUME NEW m \in Leaves[v], NamesUnder(key, m)
        PROVE  \E i \in I : \E l \in NamedIn(s(i).key, v.entries[i].value) : m = Under(s(i), l)
    <3>0. PICK i \in I : m \in Below(s(i), ls(i))
      BY <1>1
    <3>1. PICK l \in ls(i) : m = Under(s(i), l)
      BY <1>3, <3>0
    <3>2. NamesUnder(s(i).key, l)
      BY <1>2, <2>1, <3>1
    <3>3. l \in NamedIn(s(i).key, v.entries[i].value)
      BY <1>4, <3>2
    <3>. QED  BY <3>1, <3>3
  <2>2. ASSUME NEW i \in I, NEW l \in NamedIn(s(i).key, v.entries[i].value)
        PROVE  Under(s(i), l) \in Leaves[v] /\ NamesUnder(key, Under(s(i), l))
    <3>1. l \in ls(i) /\ NamesUnder(s(i).key, l)
      BY <1>4
    <3>2. Under(s(i), l) \in Leaves[v]
      BY <1>1, <1>3, <3>1
    <3>. QED  BY <1>2, <3>1, <3>2
  <2>. QED  BY <2>1, <2>2
<1>. QED  BY <1>5 DEF NamedIn, I, s

LEMMA FindsInEntries ==
    ASSUME NEW n \in Levels, NEW v \in ValuesUpto[n], NEW key \in VisitedKeys,
           IsContainer(v), v.entries # <<>>,
           \A i \in DOMAIN v.entries : FindsFirst(StepAt(v, i).key, v.entries[i].value)
    PROVE  FindsFirst(key, v)
<1>. DEFINE I == DOMAIN v.entries
            s(i) == StepAt(v, i)
            named(i) == NamedIn(s(i).key, v.entries[i].value)
            found(i) == rune_from_json_value[<<s(i).key, v.entries[i].value>>]
            r == [i \in I |-> rune_from_json_value[EntryVisit(<<key, v>>, i)]]
<1>1. I = 1 .. Len(v.entries) /\ Len(v.entries) \in Nat
  BY Parts
<1>2. rune_from_json_value[<<key, v>>] = FirstFound(r)
  BY Unfold DEF FoundBy
<1>3. ASSUME NEW i \in I PROVE s(i) \in Steps /\ s(i).at = i /\ r[i] = found(i)
  <2>1. s(i) \in Steps /\ s(i).at = i /\ VisitKey(key, v, i) = s(i).key
    BY StepIs
  <2>. QED  BY <2>1 DEF EntryVisit
<1>4. NamedIn(key, v) = UNION {{Under(s(i), l) : l \in named(i)} : i \in I}
  BY NamedInEntries
<1>5. ASSUME NEW i \in I, NEW l \in named(i)
      PROVE  IsLeaf(l) /\ NameIn(Under(s(i), l)) = NameIn(l) /\ NameIn(l) # NoOperator
  <2>1. v.entries[i].value \in ValuesUpto[n - 1] /\ n - 1 \in Levels
    BY Parts
  <2>2. l \in Leaves[v.entries[i].value] /\ NamesUnder(s(i).key, l)
    BY DEF NamedIn
  <2>3. IsLeaf(l)
    BY <2>1, <2>2, LeavesType
  <2>. QED  BY <1>3, <2>2, <2>3, NamesUnderStep, NameIsOperator
<1>6. DOMAIN r = I
  OBVIOUS
<1>7. ASSUME NEW i \in I
      PROVE  IF named(i) = {} THEN found(i) = NoOperator
             ELSE \E l \in named(i) : IsFirst(l, named(i)) /\ found(i) = NameIn(l)
  BY DEF FindsFirst
<1>. HIDE DEF I, s, named, found, r
<1>8. \A i \in I : r[i] = NoOperator <=> named(i) = {}
  BY <1>3, <1>5, <1>7
<1>9. CASE NamedIn(key, v) = {}
  <2>1. \A i \in I : named(i) = {}
    BY <1>4, <1>9
  <2>2. FirstFound(r) = NoOperator
    BY <1>1, <1>6, <1>8, <2>1, FirstFoundIs
  <2>. QED  BY <1>2, <1>9, <2>2 DEF FindsFirst
<1>10. CASE NamedIn(key, v) # {}
  <2>1. \E i \in I : r[i] # NoOperator
    BY <1>4, <1>8, <1>10
  <2>2. PICK f \in I : /\ r[f] # NoOperator
                       /\ \A j \in 1 .. f - 1 : r[j] = NoOperator
                       /\ FirstFound(r) = r[f]
    BY <1>1, <1>6, <2>1, FirstFoundIs
  <2>3. PICK l \in named(f) : IsFirst(l, named(f)) /\ found(f) = NameIn(l)
    BY <1>7, <1>8, <2>2
  <2>. DEFINE first == Under(s(f), l)
  <2>4. first \in NamedIn(key, v)
    BY <1>4
  <2>5. rune_from_json_value[<<key, v>>] = NameIn(first)
    BY <1>2, <1>3, <1>5, <2>2, <2>3
  <2>6. ASSUME NEW m \in NamedIn(key, v) PROVE m = first \/ Earlier(first.path, m.path)
    <3>0. PICK j \in I : m \in {Under(s(j), x) : x \in named(j)}
      BY <1>4
    <3>1. PICK x \in named(j) : m = Under(s(j), x)
      BY <3>0
    <3>2. IsLeaf(l) /\ IsLeaf(x) /\ s(f) \in Steps /\ s(j) \in Steps /\ s(f).at = f /\ s(j).at = j
      BY <1>3, <1>5
    <3>3. CASE j = f
      <4>1. x = l \/ Earlier(l.path, x.path)
        BY <2>3, <3>3 DEF IsFirst
      <4>. QED  BY <3>1, <3>2, <3>3, <4>1, EarlierUnder
    <3>4. CASE j # f
      <4>1. r[j] # NoOperator
        BY <1>8
      <4>2. f < j
        <5>1. j \notin 1 .. f - 1
          BY <2>2, <4>1
        <5>. QED  BY <1>1, <3>4, <5>1
      <4>. QED  BY <3>1, <3>2, <4>2, EarlierUnder
    <3>. QED  BY <3>3, <3>4
  <2>. HIDE DEF first
  <2>. QED  BY <1>10, <2>4, <2>5, <2>6 DEF FindsFirst, IsFirst
<1>. QED  BY <1>9, <1>10

LEMMA FindsAll ==
    ASSUME NEW n \in Levels, NEW v \in ValuesUpto[n], NEW key \in VisitedKeys
    PROVE  FindsFirst(key, v)
<1>. DEFINE T == {m \in Nat : m \in Levels => \A w \in ValuesUpto[m], x \in VisitedKeys :
                                FindsFirst(x, w)}
<1>1. 0 \in T
  <2>. SUFFICES ASSUME 0 \in Levels, NEW w \in ValuesUpto[0] PROVE ~IsContainer(w)
    BY FindsInFlat
  <2>. QED  BY Parts
<1>2. ASSUME NEW m \in Nat, m \in T PROVE m + 1 \in T
  <2>. SUFFICES ASSUME m + 1 \in Levels, NEW w \in ValuesUpto[m + 1], NEW x \in VisitedKeys,
                       IsContainer(w), w.entries # <<>>
                PROVE  FindsFirst(x, w)
    BY FindsInFlat
  <2>1. (m + 1) - 1 = m /\ m \in Levels
    BY DepthAssumption DEF Levels
  <2>2. ASSUME NEW i \in DOMAIN w.entries
        PROVE  w.entries[i].value \in ValuesUpto[m] /\ StepAt(w, i).key \in VisitedKeys
    <3>1. StepAt(w, i) \in Steps
      BY StepIs
    <3>2. w.entries[i].value \in ValuesUpto[m]
      BY <2>1, Parts
    <3>. QED  BY <3>1, <3>2 DEF Steps
  <2>3. \A i \in DOMAIN w.entries : FindsFirst(StepAt(w, i).key, w.entries[i].value)
    BY <1>2, <2>1, <2>2
  <2>. QED  BY <2>3, FindsInEntries
<1>. HIDE DEF T
<1>3. n \in T
  <2>1. n \in Nat
    BY DepthAssumption DEF Levels
  <2>. QED  BY <1>1, <1>2, <2>1, SetInduction
<1>. QED  BY <1>3 DEF T

(* The caller of the record.                                               *)
LEMMA CallerIs ==
    ASSUME NEW r \in Requests
    PROVE  LET named == {l \in Leaves[r] :
                            /\ l.leaf.is = "string" /\ l.leaf.text \in DOMAIN RuneParts
                            /\ "rune" \in TermsOf(l.path[Len(l.path)].key)
                            /\ Tags(l) # {}}
           IN  IF named = {} THEN rune_from_json_array(r) = NoOperator
               ELSE \E l \in named :
                      IsFirst(l, named) /\ rune_from_json_array(r) = NameIn(l)
<1>. DEFINE named == {l \in Leaves[r] :
                        /\ l.leaf.is = "string" /\ l.leaf.text \in DOMAIN RuneParts
                        /\ "rune" \in TermsOf(l.path[Len(l.path)].key)
                        /\ Tags(l) # {}}
<1>1. r \in ValuesUpto[MaxDepth] /\ MaxDepth \in Levels /\ IsContainer(r)
  BY RequestsAssumption, DepthAssumption DEF Values, Levels
<1>2. FindsFirst(NoKey, r)
  BY <1>1, FindsAll DEF VisitedKeys
<1>3. ASSUME NEW l \in Leaves[r], l.path = <<>> PROVE l.leaf.is # "string"
  <2>1. l.leaf = r
    BY <1>1, <1>3, LeavesType
  <2>. QED  BY <1>1, <2>1 DEF IsContainer
<1>4. ASSUME NEW l \in Leaves[r], l.path # <<>>
      PROVE  LastKey(NoKey, l.path) = l.path[Len(l.path)].key
  BY <1>4 DEF LastKey
<1>5. named = NamedIn(NoKey, r)
  BY <1>3, <1>4 DEF NamedIn, NamesUnder
<1>. HIDE DEF named
<1>6. IF named = {} THEN rune_from_json_array(r) = NoOperator
      ELSE \E l \in named : IsFirst(l, named) /\ rune_from_json_array(r) = NameIn(l)
  BY <1>2, <1>5 DEF FindsFirst, rune_from_json_array
<1>. QED  BY <1>6 DEF named

-----------------------------------------------------------------------------
(* The record is empty, or made of the parameters.                         *)
RecordInv ==
    /\ params \in Requests
    /\ body # NotYet =>
        body = sanitize_json_array(params) /\ caller = rune_from_json_array(params)

LEMMA RecordInvariance == RecordSpec => []RecordInv
<1>1. RecordInit => RecordInv
  BY DEF RecordInit, RecordInv
<1>2. RecordInv /\ [Log]_record => RecordInv'
  BY DEF RecordInv, Log, record
<1>. QED  BY <1>1, <1>2, PTL DEF RecordSpec

(* For parameters of any size and depth, any keys and any terms: nothing   *)
(* below a sensitive key is in the record.                                 *)
THEOREM RecordIsClean == RecordSpec => []NothingSensitive
<1>1. RecordInv => NothingSensitive
  BY RedactedBody DEF RecordInv, NothingSensitive
<1>. QED  BY <1>1, RecordInvariance, PTL

(* And all the rest of them is, in its place.                              *)
THEOREM RecordIsComplete == RecordSpec => []RestIsKept
<1>1. RecordInv => RestIsKept
  BY RedactedBody DEF RecordInv, RestIsKept
<1>. QED  BY <1>1, RecordInvariance, PTL

(* The caller is the operator of the first rune at a rune key that has     *)
(* one, wherever it is.                                                    *)
THEOREM CallerIsFound == RecordSpec => []CallerIsFirstNamed
<1>1. RecordInv => CallerIsFirstNamed
  BY CallerIs DEF RecordInv, CallerIsFirstNamed, Named, IsFirst
<1>. QED  BY <1>1, RecordInvariance, PTL
=============================================================================
