-------------------------- MODULE DiscoveryProofs --------------------------
(***************************************************************************)
(* Discovery is right about every attribute table, of any length, in which *)
(* a characteristic occurs once and only known ones have a descriptor.     *)
(***************************************************************************)
EXTENDS Discovery, WellFoundedInduction, TLAPS

-----------------------------------------------------------------------------
(* Minima and maxima.                                                      *)

LEMMA Least ==
  ASSUME NEW T, T \subseteq Nat, T # {}
  PROVE  \E x \in T : \A y \in T : x <= y
<1> DEFINE Less == OpToRel(<, Nat)
<1>1. IsWellFoundedOn(Less, Nat)
  BY NatLessThanWellFounded, Zenon
<1> HIDE DEF Less
<1>2. PICK x \in T : \A y \in T : ~(<<y, x>> \in Less)
  BY <1>1, WFMin
<1>3. \A y \in T : x <= y
  <2> TAKE y \in T
  <2>1. y \in Nat /\ x \in Nat
    OBVIOUS
  <2>2. ~(y < x)
    BY <1>2, <2>1 DEF Less, OpToRel
  <2> QED
    BY <2>1, <2>2
<1> QED
  BY <1>3

LEMMA Greatest ==
  ASSUME NEW T, NEW n \in Nat, T \subseteq 0 .. n, T # {}
  PROVE  \E x \in T : \A y \in T : x >= y
<1> DEFINE U == {n - x : x \in T}
<1>1. U \subseteq Nat /\ U # {}
  OBVIOUS
<1>2. PICK u \in U : \A v \in U : u <= v
  BY <1>1, Least
<1>3. PICK x \in T : u = n - x
  OBVIOUS
<1>4. ASSUME NEW y \in T PROVE x >= y
  <2> n - y \in U
    OBVIOUS
  <2> QED
    BY <1>2, <1>3
<1> QED
  BY <1>4

LEMMA MinIs ==
  ASSUME NEW T, T \subseteq Nat, T # {}
  PROVE  Min(T) \in T /\ \A y \in T : Min(T) <= y
BY Least DEF Min

LEMMA MaxIs ==
  ASSUME NEW T, NEW n \in Nat, T \subseteq 0 .. n, T # {}
  PROVE  Max(T) \in T /\ Max(T) \in Nat /\ \A y \in T : Max(T) >= y
<1>1. Max(T) \in T /\ \A y \in T : Max(T) >= y
  BY Greatest DEF Max
<1>2. \A x \in T : x \in Nat
  OBVIOUS
<1> QED
  BY <1>1, <1>2, Zenon

-----------------------------------------------------------------------------
(* What discovery finds.                                                   *)

LEMMA AttrFacts ==
  /\ DOMAIN AttrOrder = 1 .. 5
  /\ \A i \in 1 .. 5 : AttrOrder[i] \in Attrs
  /\ \A a \in Attrs : \E i \in 1 .. 5 : AttrOrder[i] = a
  /\ "other" \notin Attrs /\ "ccc" \notin Attrs /\ Attrs # {}
<1>1. DOMAIN AttrOrder = 1 .. 5
  BY DEF AttrOrder
<1>2. Attrs = {"info", "downlink", "uplink", "server_cert", "device_cert"}
  BY <1>1 DEF Attrs, AttrOrder
<1> QED
  BY <1>1, <1>2 DEF AttrOrder

(* The value of a characteristic is the handle that it has, 0 if none.     *)
LEMMA ValueIs ==
  ASSUME NEW t \in Table, NEW k \in 0 .. Len(t.handles), NEW a \in Attrs
  PROVE  /\ Values(t, k)[a] \in 0 .. k
         /\ Values(t, k)[a] # 0 =>
              /\ Values(t, k)[a] \in t.first .. k
              /\ t.handles[Values(t, k)[a]] = a
         /\ \A h \in t.first .. k : t.handles[h] = a => Values(t, k)[a] >= h
<1> DEFINE S == {h \in t.first .. k : t.handles[h] = a} \cup {0}
<1>1. t.first \in Nat \ {0} /\ k \in Nat
  BY DEF Table
<1>2. S \subseteq 0 .. k /\ S # {}
  BY <1>1
<1>3. Values(t, k)[a] = Max(S)
  BY DEF Values
<1> HIDE DEF S
<1>4. Max(S) \in S /\ \A y \in S : Max(S) >= y
  BY <1>1, <1>2, MaxIs
<1> QED
  BY <1>1, <1>2, <1>3, <1>4 DEF S

LEMMA ValuesTyped ==
  ASSUME NEW t \in Table, NEW k \in 0 .. Len(t.handles)
  PROVE  Values(t, k) \in [Attrs -> Nat]
<1>1. \A a \in Attrs : Values(t, k)[a] \in Nat
  <2> TAKE a \in Attrs
  <2> QED
    BY ValueIs
<1> QED
  BY <1>1 DEF Values

LEMMA CccsTyped ==
  ASSUME NEW t \in Table, NEW k \in 0 .. Len(t.handles),
         NEW v \in [Attrs -> Nat]
  PROVE  Cccs(t, v, k) \in [Attrs -> Nat]
<1>1. ASSUME NEW a \in Attrs PROVE Cccs(t, v, k)[a] \in Nat
  <2> DEFINE S == {h \in StartHandle(v) .. k :
                     t.handles[h] = "ccc" /\ Closest(v, h) = a} \cup {0}
  <2>1. StartHandle(v) \in Nat
    <3> DEFINE T == {v[b] : b \in Attrs}
    <3>1. T \subseteq Nat /\ T # {}
      BY AttrFacts
    <3> HIDE DEF T
    <3>2. Min(T) \in Nat
      BY <3>1, MinIs
    <3> QED
      BY <3>2 DEF StartHandle, T
  <2>2. S \subseteq 0 .. k /\ S # {} /\ k \in Nat
    BY <2>1
  <2>3. Cccs(t, v, k)[a] = Max(S)
    BY DEF Cccs
  <2> HIDE DEF S
  <2>4. Max(S) \in Nat
    BY <2>2, MaxIs
  <2> QED
    BY <2>3, <2>4, Zenon
<1> QED
  BY <1>1 DEF Cccs

(* Whose a descriptor is: the characteristic with the highest value below. *)
LEMMA ClosestIs ==
  ASSUME NEW v \in [Attrs -> Nat], NEW h \in Nat,
         NEW b \in Attrs, v[b] < h
  PROVE  /\ Closest(v, h) \in Attrs /\ v[Closest(v, h)] < h
         /\ \A a \in Attrs : v[a] < h => v[a] <= v[Closest(v, h)]
<1> DEFINE below == {i \in 1 .. 5 : v[AttrOrder[i]] < h}
           V     == {v[AttrOrder[i]] : i \in below}
           high  == {i \in below : v[AttrOrder[i]] = Max(V)}
<1>1. Closest(v, h) = AttrOrder[Min(high)]
  BY AttrFacts DEF Closest
<1>2. V \subseteq 0 .. h /\ V # {}
  BY AttrFacts
<1>3. Max(V) \in V /\ \A y \in V : Max(V) >= y
  <2> HIDE DEF V
  <2> QED
    BY <1>2, MaxIs
<1>4. high \subseteq Nat /\ high # {}
  <2> PICK i \in below : Max(V) = v[AttrOrder[i]]
    <3> DEFINE m == Max(V)
    <3> m \in V
      BY <1>3
    <3> HIDE DEF m
    <3> PICK i \in below : m = v[AttrOrder[i]]
      OBVIOUS
    <3> QED
      BY DEF m
  <2> HIDE DEF V
  <2> i \in high
    OBVIOUS
  <2> QED
    OBVIOUS
<1>5. Min(high) \in high
  <2> HIDE DEF high
  <2> QED
    BY <1>4, MinIs
<1>6. /\ Closest(v, h) \in Attrs /\ v[Closest(v, h)] < h
      /\ v[Closest(v, h)] = Max(V)
  <2> HIDE DEF V
  <2> QED
    BY <1>1, <1>5, AttrFacts
<1>7. ASSUME NEW a \in Attrs, v[a] < h PROVE v[a] \in V
  BY <1>7, AttrFacts
<1> HIDE DEF V
<1> QED
  BY <1>3, <1>6, <1>7

-----------------------------------------------------------------------------
(***************************************************************************)
(* A characteristic that the node has gets the handle of its own CCC, the  *)
(* last one if it has several, none if it has none.                        *)
(***************************************************************************)
THEOREM OwnCccFound ==
  ASSUME NEW t \in Table, Plain(t), NEW a \in Attrs,
         Values(t, Len(t.handles))[a] # 0
  PROVE  Cccs(t, Values(t, Len(t.handles)), Len(t.handles))[a] = OwnCcc(t, a)
<1> DEFINE n == Len(t.handles)
           v == Values(t, n)
           p == v[a]
           C == {h \in StartHandle(v) .. n :
                   t.handles[h] = "ccc" /\ Closest(v, h) = a}
           O == {h \in DOMAIN t.handles : t.handles[h] = "ccc" /\ Owns(t, a, h)}
<1>1. /\ t.first \in Nat /\ t.first >= 1 /\ n \in Nat /\ n \in 0 .. n
      /\ DOMAIN t.handles = 1 .. n
      /\ \A h \in 1 .. n : t.handles[h] \in Attrs \cup {"other", "ccc"}
  BY DEF Table
<1>2. /\ v \in [Attrs -> Nat]
      /\ p \in t.first .. n /\ t.handles[p] = a
  BY <1>1, ValueIs, ValuesTyped
<1>3. \A b \in Attrs : v[b] # 0 => v[b] \in t.first .. n /\ t.handles[v[b]] = b
  BY <1>1, ValueIs
<1>4. \A b \in Attrs : \A h \in t.first .. n : t.handles[h] = b => v[b] = h
  <2> SUFFICES ASSUME NEW b \in Attrs, NEW h \in t.first .. n, t.handles[h] = b
               PROVE  v[b] = h
    OBVIOUS
  <2>1. v[b] >= h
    BY <1>1, ValueIs
  <2>2. v[b] \in t.first .. n /\ t.handles[v[b]] = b
    BY <1>1, <1>2, <1>3, <2>1
  <2> QED
    BY <2>2 DEF Plain
<1>5. /\ StartHandle(v) \in Nat /\ StartHandle(v) >= 1
      /\ \A b \in Attrs : StartHandle(v) <= v[b] + 1
  <2> DEFINE T == {v[b] : b \in Attrs}
  <2> HIDE DEF v
  <2>1. T \subseteq Nat /\ T # {}
    BY <1>2, AttrFacts
  <2>2. \A b \in Attrs : v[b] \in T
    OBVIOUS
  <2> HIDE DEF T
  <2>3. Min(T) \in Nat /\ \A y \in T : Min(T) <= y
    BY <2>1, MinIs
  <2>4. StartHandle(v) = Min(T) + 1
    BY DEF StartHandle, T
  <2> QED
    BY <1>2, <2>1, <2>2, <2>3, <2>4
<1> HIDE DEF v, n
<1>6. ASSUME NEW h \in C PROVE h \in O
  <2>1. h \in 1 .. n /\ t.handles[h] = "ccc" /\ Closest(v, h) = a
    BY <1>1, <1>5
  <2>2. \E b \in Attrs : v[b] < h
    <3> DEFINE T == {v[b] : b \in Attrs}
    <3>1. T \subseteq Nat /\ T # {}
      BY <1>2, AttrFacts
    <3> HIDE DEF T
    <3>2. Min(T) \in T
      BY <3>1, MinIs
    <3>3. h >= Min(T) + 1
      BY <1>5 DEF StartHandle, T
    <3>4. PICK b \in Attrs : Min(T) = v[b]
      BY <3>2 DEF T
    <3> QED
      BY <1>2, <2>1, <3>3, <3>4
  <2>3. p < h /\ \A b \in Attrs : v[b] < h => v[b] <= p
    BY <1>2, <2>1, <2>2, ClosestIs
  <2>4. \A i \in p + 1 .. h - 1 : t.handles[i] = "ccc"
    <3> DEFINE D == {i \in p + 1 .. h - 1 : t.handles[i] # "ccc"}
    <3> SUFFICES ASSUME D # {} PROVE FALSE
      OBVIOUS
    <3>1. D \subseteq 0 .. n
      BY <1>1, <1>2, <2>1
    <3>2. PICK i \in D : \A j \in D : i >= j
      <4> HIDE DEF D
      <4> QED
        BY <1>1, <3>1, Greatest
    <3>3. /\ i \in t.first .. n - 1 /\ p < i /\ i < h
          /\ t.handles[i] \in Attrs \cup {"other"}
      BY <1>1, <1>2, <2>1
    <3>4. t.handles[i + 1] = "ccc"
      <4>1. CASE i + 1 = h
        BY <2>1, <4>1
      <4>2. CASE i + 1 # h
        <5> i + 1 \in p + 1 .. h - 1 /\ ~(i >= i + 1)
          BY <1>2, <2>1, <3>3, <4>2
        <5> QED
          BY <3>2
      <4> QED
        BY <4>1, <4>2
    <3>5. t.handles[i] # "other"
      BY <3>3, <3>4 DEF Plain, n
    <3>6. t.handles[i] \in Attrs /\ v[t.handles[i]] = i
      BY <1>1, <1>4, <3>3, <3>5
    <3> QED
      BY <1>2, <2>3, <3>3, <3>6
  <2> QED
    BY <1>1, <1>2, <2>1, <2>3, <2>4 DEF Owns
<1>7. ASSUME NEW h \in O PROVE h \in C
  <2>1. h \in 1 .. n /\ t.handles[h] = "ccc" /\ Owns(t, a, h)
    BY <1>1
  <2>2. PICK u \in t.first .. h - 1 :
          /\ t.handles[u] = a
          /\ \A i \in u + 1 .. h - 1 : t.handles[i] = "ccc"
    BY <2>1 DEF Owns
  <2>3. u = p /\ p < h
    BY <1>1, <1>4, <2>1, <2>2
  <2>4. ASSUME NEW b \in Attrs, v[b] < h PROVE v[b] <= p
    <3> SUFFICES ASSUME v[b] > p PROVE FALSE
      BY <1>2, <2>4
    <3>1. v[b] \in p + 1 .. h - 1
      BY <1>2, <2>1, <2>4
    <3>2. t.handles[v[b]] = b
      BY <1>2, <1>3, <3>1
    <3> QED
      BY <2>2, <2>3, <3>1, <3>2, AttrFacts
  <2>5. Closest(v, h) = a
    <3>1. /\ Closest(v, h) \in Attrs /\ v[Closest(v, h)] < h
          /\ p <= v[Closest(v, h)]
      BY <1>2, <2>1, <2>3, ClosestIs
    <3>2. v[Closest(v, h)] = p
      BY <1>2, <2>4, <3>1
    <3> QED
      BY <1>1, <1>2, <1>3, <3>1, <3>2
  <2> QED
    BY <1>2, <1>5, <2>1, <2>3, <2>5
<1>8. C = O
  BY <1>6, <1>7
<1>9. Cccs(t, v, n)[a] = Max(C \cup {0})
  BY DEF Cccs
<1>10. OwnCcc(t, a) = Max(O \cup {0})
  BY DEF OwnCcc
<1> QED
  BY <1>8, <1>9, <1>10 DEF v, n
=============================================================================
