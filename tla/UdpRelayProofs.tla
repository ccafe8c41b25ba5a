--------------------------- MODULE UdpRelayProofs ---------------------------
(***************************************************************************)
(* Theorems about UdpRelay and the cache it uses, for every number of      *)
(* sources, every capacity from two on, every timeout and any number of    *)
(* datagrams.                                                              *)
(***************************************************************************)
EXTENDS UdpRelay, SequenceTheorems, WellFoundedInduction, TLAPS

-----------------------------------------------------------------------------
(* The operations of the cache.                                            *)

Entries == [key : Sources, data : Ctx]

\* A set of positions that is not empty has a smallest one.
LEMMA MinExists ==
  ASSUME NEW I \in SUBSET Nat, I # {}
  PROVE  Min(I) \in I
<1> DEFINE R == {ss \in Nat \X Nat : ss[1] < ss[2]}
<1>1. IsWellFoundedOn(R, Nat)
  BY NatLessThanWellFounded, Zenon DEF OpToRel
<1>2. PICK x \in I : \A y \in I : ~(<<y, x>> \in R)
  <2> HIDE DEF R
  <2> QED BY <1>1, WFMin, Zenon
<1>3. ASSUME NEW y \in I
      PROVE  x =< y
  <2>1. x \in Nat /\ y \in Nat
    OBVIOUS
  <2>2. ~(y < x)
    BY <1>2, <2>1, Zenon
  <2> QED BY <2>1, <2>2
<1> QED BY <1>3 DEF Min

\* HASH_FIND finds an entry with the key if there is one.
LEMMA Finds ==
  ASSUME NEW c \in Seq(Entries), NEW k
  PROVE  \/ Find(c, k) = 0 /\ \A i \in 1..Len(c) : c[i].key # k
         \/ Find(c, k) \in 1..Len(c) /\ c[Find(c, k)].key = k
<1> DEFINE I == {i \in 1..Len(c) : c[i].key = k}
<1>1. Find(c, k) = IF I # {} THEN Min(I) ELSE 0
  BY DEF Find, SelectInSeq
<1>2. I \in SUBSET Nat
  OBVIOUS
<1>3. I # {} => Min(I) \in I
  BY <1>2, MinExists
<1> HIDE DEF I
<1>4. CASE I = {}
  BY <1>1, <1>4 DEF I
<1>5. CASE I # {}
  BY <1>1, <1>3, <1>5 DEF I
<1> QED BY <1>4, <1>5

\* Taking an entry out leaves the others in their order.
LEMMA Removes ==
  ASSUME NEW c \in Seq(Entries), NEW f \in 1..Len(c)
  PROVE  /\ RemoveAt(c, f) \in Seq(Entries)
         /\ Len(RemoveAt(c, f)) = Len(c) - 1
         /\ \A i \in 1..(Len(c) - 1) :
              RemoveAt(c, f)[i] = IF i < f THEN c[i] ELSE c[i + 1]
<1>1. /\ SubSeq(c, 1, f - 1) \in Seq(Entries)
      /\ Len(SubSeq(c, 1, f - 1)) = f - 1
      /\ \A i \in 1..(f - 1) : SubSeq(c, 1, f - 1)[i] = c[i]
  OBVIOUS
<1>2. /\ SubSeq(c, f + 1, Len(c)) \in Seq(Entries)
      /\ Len(SubSeq(c, f + 1, Len(c))) = Len(c) - f
      /\ \A i \in 1..(Len(c) - f) : SubSeq(c, f + 1, Len(c))[i] = c[f + i]
  OBVIOUS
<1> DEFINE a == SubSeq(c, 1, f - 1)
           b == SubSeq(c, f + 1, Len(c))
<1>3. RemoveAt(c, f) = a \o b
  BY DEF RemoveAt
<1>4. a \in Seq(Entries) /\ b \in Seq(Entries) /\ Len(a) = f - 1 /\ Len(b) = Len(c) - f
  BY <1>1, <1>2
<1>5. \A i \in 1..(f - 1) : a[i] = c[i]
  BY <1>1
<1>6. \A i \in 1..(Len(c) - f) : b[i] = c[f + i]
  BY <1>2
<1> HIDE DEF a, b
<1>7. /\ a \o b \in Seq(Entries) /\ Len(a \o b) = Len(a) + Len(b)
      /\ \A i \in 1..(Len(a) + Len(b)) :
           (a \o b)[i] = IF i <= Len(a) THEN a[i] ELSE b[i - Len(a)]
  BY <1>4, ConcatProperties
<1>8. Len(a) + Len(b) = Len(c) - 1
  BY <1>4
<1>9. ASSUME NEW i \in 1..(Len(c) - 1)
      PROVE  (a \o b)[i] = IF i < f THEN c[i] ELSE c[i + 1]
  <2>1. CASE i < f
    BY <1>4, <1>5, <1>7, <1>8, <2>1
  <2>2. CASE ~(i < f)
    <3>1. i - Len(a) \in 1..(Len(c) - f) /\ f + (i - Len(a)) = i + 1
      BY <1>4, <2>2
    <3> QED BY <1>4, <1>6, <1>7, <1>8, <2>2, <3>1
  <2> QED BY <2>1, <2>2
<1> QED BY <1>3, <1>7, <1>8, <1>9

\* The entry that was found goes to the end.
LEMMA Touches ==
  ASSUME NEW c \in Seq(Entries), NEW k, Has(c, k)
  PROVE  /\ Find(c, k) \in 1..Len(c)
         /\ Lookup(c, k) \in Seq(Entries)
         /\ Len(Lookup(c, k)) = Len(c)
         /\ \A i \in 1..Len(c) :
              Lookup(c, k)[i] = IF i < Find(c, k) THEN c[i]
                                ELSE IF i < Len(c) THEN c[i + 1] ELSE c[Find(c, k)]
<1> DEFINE f == Find(c, k)
           r == RemoveAt(c, f)
<1>1. f \in 1..Len(c)
  BY Finds DEF Has
<1>2. /\ r \in Seq(Entries) /\ Len(r) = Len(c) - 1
      /\ \A i \in 1..(Len(c) - 1) : r[i] = IF i < f THEN c[i] ELSE c[i + 1]
  BY <1>1, Removes
<1>3. Lookup(c, k) = Append(r, c[f])
  BY DEF Lookup
<1>4. c[f] \in Entries
  BY <1>1
<1> HIDE DEF f, r
<1>5. /\ Append(r, c[f]) \in Seq(Entries) /\ Len(Append(r, c[f])) = Len(c)
      /\ \A i \in 1..(Len(c) - 1) : Append(r, c[f])[i] = r[i]
      /\ Append(r, c[f])[Len(c)] = c[f]
  BY <1>2, <1>4
<1>6. ASSUME NEW i \in 1..Len(c)
      PROVE  Append(r, c[f])[i] = IF i < f THEN c[i] ELSE IF i < Len(c) THEN c[i + 1] ELSE c[f]
  <2>1. CASE i = Len(c)
    BY <1>1, <1>5, <2>1
  <2>2. CASE i # Len(c)
    BY <1>2, <1>5, <2>2
  <2> QED BY <2>1, <2>2
<1> QED BY <1>1, <1>3, <1>5, <1>6 DEF f

-----------------------------------------------------------------------------
(* Ownership.                                                              *)

\* The cache c holds the associations l, each once and under its source in sr.
Owns(c, l, sr) ==
  /\ \A i \in 1..Len(c) : c[i].data \in l
  /\ \A d \in l : \E i \in 1..Len(c) : c[i].data = d
  /\ \A i \in 1..Len(c) : sr[c[i].data] = c[i].key
  /\ \A i, j \in 1..Len(c) : c[i].key = c[j].key \/ c[i].data = c[j].data => i = j
  /\ Len(c) < MaxConn

\* A hit changes the order only.
LEMMA LookupOwns ==
  ASSUME NEW c \in Seq(Entries), NEW k, NEW l, NEW sr, Has(c, k), Owns(c, l, sr)
  PROVE  Owns(Lookup(c, k), l, sr)
<1> DEFINE f == Find(c, k)
           n == Len(c)
           t == Lookup(c, k)
           g(i) == IF i < f THEN i ELSE IF i < n THEN i + 1 ELSE f
<1>1. /\ f \in 1..n /\ n \in Nat /\ Len(t) = n
      /\ \A i \in 1..n : t[i] = IF i < f THEN c[i] ELSE IF i < n THEN c[i + 1] ELSE c[f]
  BY Touches
<1> HIDE DEF f, n, t
<1>2. \A i \in 1..n : g(i) \in 1..n /\ t[i] = c[g(i)]
  BY <1>1
<1>3. \A i, j \in 1..n : g(i) = g(j) => i = j
  BY <1>1
<1>4. \A i \in 1..n : \E j \in 1..n : g(j) = i
  <2> TAKE i \in 1..n
  <2>1. CASE i < f
    BY <1>1, <2>1
  <2>2. CASE i = f
    BY <1>1, <2>2
  <2>3. CASE i > f
    <3>1. i - 1 \in 1..n /\ g(i - 1) = i
      BY <1>1, <2>3
    <3> QED BY <3>1
  <2> QED BY <1>1, <2>1, <2>2, <2>3
<1> HIDE DEF g
<1>5. \A i \in 1..n : c[i].data \in l
  BY DEF Owns, n
<1>6. \A d \in l : \E i \in 1..n : c[i].data = d
  BY DEF Owns, n
<1>7. \A i \in 1..n : sr[c[i].data] = c[i].key
  BY DEF Owns, n
<1>8. \A i, j \in 1..n : c[i].key = c[j].key \/ c[i].data = c[j].data => i = j
  BY DEF Owns, n
<1>9. n < MaxConn
  BY DEF Owns, n
<1>10. ASSUME NEW d \in l
       PROVE  \E i \in 1..n : t[i].data = d
  <2>1. PICK i \in 1..n : c[i].data = d
    BY <1>6
  <2>2. PICK j \in 1..n : g(j) = i
    BY <1>4
  <2> QED BY <1>2, <2>1, <2>2
<1>11. \A i \in 1..n : t[i].data \in l /\ sr[t[i].data] = t[i].key
  BY <1>2, <1>5, <1>7
<1>12. \A i, j \in 1..n : t[i].key = t[j].key \/ t[i].data = t[j].data => i = j
  <2> TAKE i, j \in 1..n
  <2>1. HAVE t[i].key = t[j].key \/ t[i].data = t[j].data
  <2>2. g(i) \in 1..n /\ g(j) \in 1..n /\ t[i] = c[g(i)] /\ t[j] = c[g(j)]
    BY <1>2, Zenon
  <2>3. c[g(i)].key = c[g(j)].key \/ c[g(i)].data = c[g(j)].data
    BY <2>1, <2>2, Zenon
  <2>4. g(i) = g(j)
    BY <1>8, <2>2, <2>3, Zenon
  <2> QED BY <1>3, <2>4, Zenon
<1> QED BY <1>1, <1>9, <1>10, <1>11, <1>12 DEF Owns, t

\* What a timer removes is its own association.
LEMMA RemoveOwns ==
  ASSUME NEW c \in Seq(Entries), NEW l, NEW sr, NEW d \in l, Owns(c, l, sr)
  PROVE  /\ Has(c, sr[d]) /\ Data(c, sr[d]) = d
         /\ Remove1(c, sr[d]) \in Seq(Entries)
         /\ Owns(Remove1(c, sr[d]), l \ {d}, sr)
<1> DEFINE f == Find(c, sr[d])
           n == Len(c)
           r == RemoveAt(c, f)
<1>1. PICK p \in 1..n : c[p].data = d /\ c[p].key = sr[d]
  BY DEF Owns
<1>2. f \in 1..n /\ c[f].key = sr[d] /\ Has(c, sr[d])
  BY <1>1, Finds DEF Has
<1>3. f = p
  BY <1>1, <1>2 DEF Owns
<1>4. Data(c, sr[d]) = d
  BY <1>1, <1>3 DEF Data
<1>5. Remove1(c, sr[d]) = r
  BY <1>2 DEF Remove1
<1>6. /\ r \in Seq(Entries) /\ Len(r) = n - 1 /\ n \in Nat
      /\ \A i \in 1..(n - 1) : r[i] = IF i < f THEN c[i] ELSE c[i + 1]
  <2> HIDE DEF f
  <2>1. f \in 1..Len(c)
    BY <1>2
  <2> QED BY <2>1, Removes
<1>7. c[f].data = d
  BY <1>1, <1>3
<1> DEFINE g(i) == IF i < f THEN i ELSE i + 1
<1> HIDE DEF f, n, r
<1>8. \A i \in 1..(n - 1) : g(i) \in 1..n /\ g(i) # f /\ r[i] = c[g(i)]
  BY <1>2, <1>6
<1>9. \A i, j \in 1..(n - 1) : g(i) = g(j) => i = j
  BY <1>2, <1>6
<1>10. \A i \in 1..n : i # f => \E j \in 1..(n - 1) : g(j) = i
  <2> TAKE i \in 1..n
  <2>1. CASE i < f
    <3>1. i \in 1..(n - 1) /\ g(i) = i
      BY <1>2, <1>6, <2>1
    <3> QED BY <3>1
  <2>2. CASE i > f
    <3>1. i - 1 \in 1..(n - 1) /\ g(i - 1) = i
      BY <1>2, <1>6, <2>2
    <3> QED BY <3>1
  <2> QED BY <1>2, <1>6, <2>1, <2>2
<1> HIDE DEF g
<1>11. \A i \in 1..n : c[i].data \in l /\ sr[c[i].data] = c[i].key
  BY DEF Owns, n
<1>12. \A e \in l : \E i \in 1..n : c[i].data = e
  BY DEF Owns, n
<1>13. \A i, j \in 1..n : c[i].key = c[j].key \/ c[i].data = c[j].data => i = j
  BY DEF Owns, n
<1>14. \A i \in 1..(n - 1) : r[i].data \in l \ {d} /\ sr[r[i].data] = r[i].key
  BY <1>2, <1>7, <1>8, <1>11, <1>13
<1>15. \A e \in l \ {d} : \E i \in 1..(n - 1) : r[i].data = e
  BY <1>7, <1>8, <1>10, <1>12
<1>16. \A i, j \in 1..(n - 1) : r[i].key = r[j].key \/ r[i].data = r[j].data => i = j
  BY <1>8, <1>9, <1>13
<1>17. n - 1 < MaxConn
  BY <1>6, MaxConnAssumption DEF Owns, n
<1>18. Owns(r, l \ {d}, sr)
  BY <1>6, <1>14, <1>15, <1>16, <1>17 DEF Owns
<1> QED BY <1>2, <1>4, <1>5, <1>6, <1>18

\* A new association is kept, and one that is pushed out for it was owned before.
LEMMA InsertOwns ==
  ASSUME NEW c \in Seq(Entries), NEW k \in Sources, NEW l \in SUBSET Ctx,
         NEW sr \in [Ctx -> Sources], NEW d \in Ctx \ l, ~Has(c, k), Owns(c, l, sr)
  PROVE  /\ Insert(c, k, d, MaxConn) \in Seq(Entries)
         /\ InsertFrees(c, k, d, MaxConn) \subseteq l
         /\ Owns(Insert(c, k, d, MaxConn), (l \cup {d}) \ InsertFrees(c, k, d, MaxConn),
                 [sr EXCEPT ![d] = k])
<1> DEFINE e == [key |-> k, data |-> d]
           n == Len(c)
           a == Append(c, e)
           sq == [sr EXCEPT ![d] = k]
<1>1. e \in Entries /\ n \in Nat /\ n < MaxConn /\ e.key = k /\ e.data = d
  BY DEF Owns, Entries
<1>2. /\ a \in Seq(Entries) /\ Len(a) = n + 1 /\ a[n + 1] = e
      /\ \A i \in 1..n : a[i] = c[i]
  BY <1>1
<1>3. \A i \in 1..n : c[i].key # k
  BY Finds DEF Has
<1>4. \A i \in 1..n : c[i].data \in l /\ sr[c[i].data] = c[i].key
  BY DEF Owns
<1>5. \A x \in l : \E i \in 1..n : c[i].data = x
  BY DEF Owns
<1>6. \A i, j \in 1..n : c[i].key = c[j].key \/ c[i].data = c[j].data => i = j
  BY DEF Owns
<1>7. sq[d] = k /\ \A x \in l : sq[x] = sr[x]
  OBVIOUS
<1>8. Insert(c, k, d, MaxConn) = (IF n + 1 >= MaxConn THEN Tail(a) ELSE a)
  BY <1>2 DEF Insert, Added, IsFull
<1>9. InsertFrees(c, k, d, MaxConn) = (IF n + 1 >= MaxConn THEN {Head(a).data} ELSE {})
  BY <1>2 DEF InsertFrees, Added, IsFull
<1> HIDE DEF e, n, a, sq
<1>10. \A i \in 1..(n + 1) : i \in 1..n \/ i = n + 1
  BY <1>1
<1>11. \A i \in 1..(n + 1) : a[i].data \in l \cup {d} /\ sq[a[i].data] = a[i].key
  BY <1>1, <1>2, <1>4, <1>7, <1>10
<1>12. \A x \in l \cup {d} : \E i \in 1..(n + 1) : a[i].data = x
  <2>1. ASSUME NEW x \in l
        PROVE  \E i \in 1..(n + 1) : a[i].data = x
    <3>1. PICK i \in 1..n : c[i].data = x
      BY <1>5
    <3>2. i \in 1..(n + 1)
      BY <1>1
    <3> QED BY <1>2, <3>1, <3>2
  <2>2. n + 1 \in 1..(n + 1) /\ a[n + 1].data = d
    BY <1>1, <1>2
  <2> QED BY <2>1, <2>2
<1>13. \A i, j \in 1..(n + 1) : a[i].key = a[j].key \/ a[i].data = a[j].data => i = j
  <2> SUFFICES ASSUME NEW i \in 1..(n + 1), NEW j \in 1..(n + 1),
                      a[i].key = a[j].key \/ a[i].data = a[j].data
               PROVE  i = j
    OBVIOUS
  <2>1. CASE i \in 1..n /\ j \in 1..n
    BY <1>2, <1>6, <2>1
  <2>2. CASE i \in 1..n /\ j = n + 1
    BY <1>1, <1>2, <1>3, <1>4, <2>2
  <2>3. CASE i = n + 1 /\ j \in 1..n
    BY <1>1, <1>2, <1>3, <1>4, <2>3
  <2> QED BY <1>10, <2>1, <2>2, <2>3
<1>14. CASE ~(n + 1 >= MaxConn)
  <2>1. n + 1 < MaxConn
    BY <1>1, <1>14, MaxConnAssumption
  <2>2. Owns(a, l \cup {d}, sq)
    BY <1>2, <1>11, <1>12, <1>13, <2>1 DEF Owns
  <2>3. Insert(c, k, d, MaxConn) = a /\ InsertFrees(c, k, d, MaxConn) = {}
    BY <1>8, <1>9, <1>14
  <2>4. (l \cup {d}) \ {} = l \cup {d}
    OBVIOUS
  <2> QED BY <1>2, <2>2, <2>3, <2>4 DEF sq
<1>15. CASE n + 1 >= MaxConn
  <2> DEFINE t == Tail(a)
             h == a[1].data
  <2>1. n + 1 = MaxConn /\ n >= 1
    BY <1>1, <1>15, MaxConnAssumption
  <2>2. /\ t \in Seq(Entries) /\ Len(t) = n /\ Head(a) = a[1]
        /\ \A i \in 1..n : t[i] = a[i + 1]
    BY <1>1, <1>2, <2>1
  <2>3. 1 \in 1..n /\ 1 \in 1..(n + 1) /\ h \in l /\ h # d
    BY <1>1, <1>2, <1>4, <2>1
  <2>4. Insert(c, k, d, MaxConn) = t /\ InsertFrees(c, k, d, MaxConn) = {h}
    BY <1>8, <1>9, <1>15, <2>2
  <2> HIDE DEF t, h
  <2>5. \A i \in 1..n : i + 1 \in 1..(n + 1) /\ i + 1 # 1
    BY <1>1
  <2>6. ASSUME NEW i \in 1..n
        PROVE  t[i].data \in (l \cup {d}) \ {h} /\ sq[t[i].data] = t[i].key
    BY <1>11, <1>13, <2>2, <2>3, <2>5 DEF h
  <2>7. ASSUME NEW x \in (l \cup {d}) \ {h}
        PROVE  \E i \in 1..n : t[i].data = x
    <3>1. PICK i \in 1..(n + 1) : a[i].data = x
      BY <1>12
    <3>2. i - 1 \in 1..n /\ (i - 1) + 1 = i
      BY <1>1, <3>1 DEF h
    <3> QED BY <2>2, <3>1, <3>2
  <2>8. \A i, j \in 1..n : t[i].key = t[j].key \/ t[i].data = t[j].data => i + 1 = j + 1
    BY <1>13, <2>2, <2>5
  <2>9. \A i, j \in 1..n : t[i].key = t[j].key \/ t[i].data = t[j].data => i = j
    BY <1>1, <2>8
  <2>10. Owns(t, (l \cup {d}) \ {h}, sq)
    BY <1>1, <2>2, <2>6, <2>7, <2>9 DEF Owns
  <2> QED BY <2>2, <2>3, <2>4, <2>10 DEF sq
<1> QED BY <1>14, <1>15

-----------------------------------------------------------------------------
(* The relay.                                                              *)

\* The range of the variables the proof speaks of.
TypeInv ==
  /\ running \in BOOLEAN
  /\ cache \in Seq(Entries)
  /\ live \in SUBSET Ctx /\ started \in SUBSET Ctx
  /\ src \in [Ctx -> Sources]
  /\ age \in [Ctx -> 0..Timeout]
  /\ packets \in Nat

\* The inductive invariant.
Inv == TypeInv /\ live = started /\ Owns(cache, live, src)

LEMMA InitInv == Init => Inv
<1> SUFFICES ASSUME Init
             PROVE  Inv
  OBVIOUS
<1>1. (CHOOSE s \in Sources : TRUE) \in Sources
  BY SourcesAssumption
<1>2. src \in [Ctx -> Sources]
  BY <1>1 DEF Init
<1>3. age \in [Ctx -> 0..Timeout]
  BY TimeoutAssumption DEF Init
<1>4. TypeInv
  BY <1>2, <1>3 DEF Init, TypeInv
<1>5. Owns(cache, live, src)
  BY MaxConnAssumption DEF Init, Owns
<1> QED BY <1>4, <1>5 DEF Init, Inv

\* A datagram of a source that has an association.
LEMMA HitInv ==
  ASSUME Inv, NEW s \in Sources, server_recv_cb(s), Hit(s)
  PROVE  Inv' /\ live' = live /\ src' = src
<1>1. cache' \in Seq(Entries) /\ Find(cache, s) \in 1..Len(cache)
  BY Touches DEF Hit, Inv, TypeInv
<1>2. Owns(cache', live', src')
  BY LookupOwns DEF Hit, Inv, TypeInv
<1>3. age' \in [Ctx -> 0..Timeout]
  <2>1. age' = [age EXCEPT ![Data(cache, s)] = 0]
    BY DEF Hit
  <2>2. age \in [Ctx -> 0..Timeout] /\ 0 \in 0..Timeout
    BY TimeoutAssumption DEF Inv, TypeInv
  <2> QED BY <2>1, <2>2
<1>4. packets' \in Nat
  BY MaxPacketsAssumption DEF server_recv_cb, Inv, TypeInv
<1>5. TypeInv'
  BY <1>1, <1>3, <1>4 DEF Hit, Inv, TypeInv, server_recv_cb
<1> QED BY <1>2, <1>5 DEF Hit, Inv

\* A datagram of a source that has none.
LEMMA MissInv ==
  ASSUME Inv, NEW s \in Sources, server_recv_cb(s), Miss(s)
  PROVE  /\ Inv'
         /\ \E c \in Ctx \ live :
              /\ live' = (live \cup {c}) \ InsertFrees(cache, s, c, MaxConn)
              /\ src' = [src EXCEPT ![c] = s]
<1>1. PICK c \in Ctx \ live :
        /\ cache' = Insert(cache, s, c, MaxConn)
        /\ live' = (live \cup {c}) \ InsertFrees(cache, s, c, MaxConn)
        /\ started' = (started \ InsertFrees(cache, s, c, MaxConn)) \cup {c}
        /\ src' = [src EXCEPT ![c] = s]
        /\ age' = [age EXCEPT ![c] = 0]
  BY DEF Miss
<1>2. /\ cache' \in Seq(Entries) /\ InsertFrees(cache, s, c, MaxConn) \subseteq live
      /\ Owns(cache', live', src')
  BY <1>1, InsertOwns DEF Inv, TypeInv, Miss
<1>3. live' = started'
  BY <1>1, <1>2 DEF Inv
<1>4. live' \in SUBSET Ctx /\ src' \in [Ctx -> Sources]
  BY <1>1 DEF Inv, TypeInv
<1>5. age' \in [Ctx -> 0..Timeout]
  BY <1>1, TimeoutAssumption DEF Inv, TypeInv
<1>6. packets' \in Nat
  BY MaxPacketsAssumption DEF server_recv_cb, Inv, TypeInv
<1>7. TypeInv'
  BY <1>2, <1>3, <1>4, <1>5, <1>6 DEF Inv, TypeInv, server_recv_cb
<1> QED BY <1>1, <1>2, <1>3, <1>7 DEF Inv

\* A timer takes its own association out of the cache, and no other.
LEMMA TimeoutInv ==
  ASSUME Inv, NEW c \in Ctx, remote_timeout_cb(c)
  PROVE  Inv' /\ live' = live \ {c} /\ src' = src
<1>1. c \in live
  BY DEF remote_timeout_cb, Inv
<1>2. /\ Has(cache, src[c]) /\ Data(cache, src[c]) = c
      /\ cache' \in Seq(Entries) /\ Owns(cache', live \ {c}, src)
  <2>1. cache \in Seq(Entries) /\ Owns(cache, live, src)
    BY DEF Inv, TypeInv
  <2>2. cache' = Remove1(cache, src[c])
    BY DEF remote_timeout_cb, TimedOut
  <2>3. /\ Has(cache, src[c]) /\ Data(cache, src[c]) = c
        /\ Remove1(cache, src[c]) \in Seq(Entries)
        /\ Owns(Remove1(cache, src[c]), live \ {c}, src)
    BY <1>1, <2>1, RemoveOwns, Zenon
  <2> QED BY <2>2, <2>3, Zenon
<1>3. Remove1Frees(cache, src[c]) = {c}
  BY <1>2 DEF Remove1Frees
<1>4. live' = live \ {c} /\ started' = started \ {c}
  BY <1>3 DEF remote_timeout_cb, TimedOut, Free
<1> QED BY <1>2, <1>4 DEF remote_timeout_cb, Inv, TypeInv

\* The relay ends, and with it every association.
LEMMA EndInv ==
  ASSUME Inv, free_udprelay \/ BindFails
  PROVE  Inv' /\ ~running'
<1>1. live' = {} /\ started' = {}
  <2>1. CASE free_udprelay
    <3>1. live \subseteq DeleteFrees(cache)
      BY DEF DeleteFrees, Inv, TypeInv, Owns
    <3> QED BY <2>1, <3>1 DEF free_udprelay, Free, Inv
  <2>2. CASE BindFails
    BY <2>2 DEF BindFails
  <2> QED BY <2>1, <2>2
<1>2. cache' = <<>> /\ src' = src /\ age' = age /\ packets' = packets /\ running' = FALSE
  BY DEF free_udprelay, BindFails
<1>3. Owns(cache', live', src')
  BY <1>1, <1>2, MaxConnAssumption DEF Owns
<1>4. <<>> \in Seq(Entries)
  OBVIOUS
<1>5. TypeInv'
  BY <1>1, <1>2, <1>4 DEF Inv, TypeInv
<1> QED BY <1>1, <1>2, <1>3, <1>5 DEF Inv

\* Every step keeps the invariant.
LEMMA NextInv == Inv /\ [Next]_vars => Inv'
<1> SUFFICES ASSUME Inv, [Next]_vars
             PROVE  Inv'
  OBVIOUS
<1>1. CASE \E s \in Sources : server_recv_cb(s)
  BY <1>1, HitInv, MissInv DEF server_recv_cb
<1>2. CASE \E c \in Ctx : remote_recv_cb(c)
  BY <1>2, TimeoutAssumption DEF remote_recv_cb, Inv, TypeInv
<1>3. CASE \E c \in Ctx : remote_timeout_cb(c)
  BY <1>3, TimeoutInv
<1>4. CASE Tick
  <2>1. age' \in [Ctx -> 0..Timeout]
    BY <1>4, TimeoutAssumption DEF Tick, Inv, TypeInv
  <2> QED BY <1>4, <2>1 DEF Tick, Inv, TypeInv
<1>5. CASE free_udprelay \/ BindFails
  BY <1>5, EndInv
<1>6. CASE UNCHANGED vars
  BY <1>6 DEF vars, Inv, TypeInv
<1> QED BY <1>1, <1>2, <1>3, <1>4, <1>5, <1>6 DEF Next

\* The invariant holds in every state.
LEMMA Invariant == Spec => []Inv
BY InitInv, NextInv, PTL DEF Spec

\* The cache owns exactly the live associations, each under its source and with
\* its watchers started, and has a slot free between callbacks, for every
\* capacity from two on (cache.c:221-256, udprelay.c:530-541, 1063-1108).
THEOREM CacheAlwaysOwns == Spec => []CacheOwns
<1>1. Inv => CacheOwns
  <2> SUFFICES ASSUME Inv
               PROVE  CacheOwns
    OBVIOUS
  <2>1. DOMAIN cache = 1..Len(cache)
    BY DEF Inv, TypeInv
  <2>2. live = {cache[i].data : i \in DOMAIN cache}
    BY <2>1 DEF Inv, Owns
  <2> QED BY <2>1, <2>2 DEF Inv, Owns, CacheOwns
<1> QED BY <1>1, Invariant, PTL

-----------------------------------------------------------------------------
(* Why an association ends.                                                *)

\* A step that frees no association of the cache leaves it under its key.
LEMMA Stays ==
  ASSUME Inv, Inv', NEW i \in DOMAIN cache,
         cache[i].data \in live', src'[cache[i].data] = src[cache[i].data]
  PROVE  Has(cache', cache[i].key) /\ Data(cache', cache[i].key) = cache[i].data
<1>1. src[cache[i].data] = cache[i].key
  <2>1. i \in 1..Len(cache)
    BY DEF Inv, TypeInv
  <2> QED BY <2>1 DEF Inv, Owns
<1>2. PICK j \in 1..Len(cache') : cache'[j].data = cache[i].data
  BY DEF Inv, Owns
<1>3. cache'[j].key = cache[i].key
  BY <1>1, <1>2 DEF Inv, Owns
<1>4. cache' \in Seq(Entries)
  BY DEF Inv, TypeInv
<1>5. Find(cache', cache[i].key) \in 1..Len(cache') /\ Has(cache', cache[i].key)
  BY <1>2, <1>3, <1>4, Finds DEF Has
<1>6. cache'[Find(cache', cache[i].key)].key = cache'[j].key
  BY <1>3, <1>4, <1>5, Finds
<1>7. Find(cache', cache[i].key) = j
  BY <1>2, <1>5, <1>6 DEF Inv, Owns
<1> QED BY <1>2, <1>5, <1>7 DEF Data

\* The oldest entry is pushed out, and only by the last slot being filled.
LEMMA PushedOut ==
  ASSUME Inv, NEW i \in DOMAIN cache, NEW s, NEW c,
         cache[i].data \in InsertFrees(cache, s, c, MaxConn)
  PROVE  i = 1 /\ Len(cache) = MaxConn - 1
<1> DEFINE a == Append(cache, [key |-> s, data |-> c])
           n == Len(cache)
<1>1. n \in Nat /\ i \in 1..n /\ n < MaxConn
  BY DEF Inv, TypeInv, Owns
<1>2. InsertFrees(cache, s, c, MaxConn) = (IF Len(a) >= MaxConn THEN {Head(a).data} ELSE {})
  BY DEF InsertFrees, Added, IsFull
<1>3. Len(a) = n + 1 /\ Head(a) = cache[1] /\ 1 \in 1..n
  BY <1>1 DEF Inv, TypeInv
<1>4. n + 1 >= MaxConn /\ cache[i].data = cache[1].data
  BY <1>2, <1>3
<1>5. i = 1
  BY <1>1, <1>3, <1>4 DEF Inv, Owns
<1> QED BY <1>1, <1>4, <1>5, MaxConnAssumption

\* An association ends by its own timer, by the last slot being taken when it has
\* been silent for longest, or with the relay (cache.c:239-253, udprelay.c:530-541).
THEOREM EndsForAReasonOnly == Spec => EndsForAReason
<1> DEFINE P(i) ==
      \/ Has(cache', cache[i].key)
      \/ age[cache[i].data] = Timeout
      \/ i = 1 /\ Len(cache) = MaxConn - 1 /\ packets' # packets
      \/ ~running'
<1>1. ASSUME Inv, Inv', Next, NEW i \in DOMAIN cache
      PROVE  P(i)
  <2> DEFINE d == cache[i].data
  <2>1. d \in live
    BY <1>1 DEF Inv, TypeInv, Owns
  <2>2. d \in live' /\ src'[d] = src[d] => P(i)
    BY <1>1, Stays
  <2> HIDE DEF P
  <2>3. CASE \E s \in Sources : server_recv_cb(s)
    <3>1. PICK s \in Sources : server_recv_cb(s)
      BY <2>3
    <3>2. CASE Hit(s)
      BY <1>1, <2>1, <2>2, <3>1, <3>2, HitInv
    <3>3. CASE Miss(s)
      <4>1. PICK c \in Ctx \ live :
              /\ live' = (live \cup {c}) \ InsertFrees(cache, s, c, MaxConn)
              /\ src' = [src EXCEPT ![c] = s]
        BY <1>1, <3>1, <3>3, MissInv
      <4>2. src'[d] = src[d]
        BY <1>1, <2>1, <4>1 DEF Inv, TypeInv
      <4>3. CASE d \in InsertFrees(cache, s, c, MaxConn)
        <5>1. i = 1 /\ Len(cache) = MaxConn - 1
          BY <1>1, <4>3, PushedOut
        <5>2. packets' # packets
          BY <1>1, <3>1 DEF server_recv_cb, Inv, TypeInv
        <5> QED BY <5>1, <5>2 DEF P
      <4>4. CASE d \notin InsertFrees(cache, s, c, MaxConn)
        BY <2>1, <2>2, <4>1, <4>2, <4>4
      <4> QED BY <4>3, <4>4
    <3> QED BY <3>1, <3>2, <3>3 DEF server_recv_cb
  <2>4. CASE \E c \in Ctx : remote_recv_cb(c)
    BY <2>1, <2>2, <2>4 DEF remote_recv_cb
  <2>5. CASE \E c \in Ctx : remote_timeout_cb(c)
    <3>1. PICK c \in Ctx : remote_timeout_cb(c)
      BY <2>5
    <3>2. live' = live \ {c} /\ src' = src
      BY <1>1, <3>1, TimeoutInv
    <3>3. CASE d = c
      BY <3>1, <3>3 DEF P, remote_timeout_cb
    <3> QED BY <2>1, <2>2, <3>2, <3>3
  <2>6. CASE Tick
    BY <2>1, <2>2, <2>6 DEF Tick
  <2>7. CASE free_udprelay \/ BindFails
    BY <2>7 DEF P, free_udprelay, BindFails
  <2> QED BY <1>1, <2>3, <2>4, <2>5, <2>6, <2>7 DEF Next
<1>2. Inv /\ Inv' /\ [Next]_vars =>
        [\A i \in DOMAIN cache : ~Has(cache', cache[i].key) =>
           \/ age[cache[i].data] = Timeout
           \/ i = 1 /\ Len(cache) = MaxConn - 1 /\ packets' # packets
           \/ ~running']_vars
  BY <1>1
<1> QED BY <1>2, Invariant, PTL DEF Spec, EndsForAReason

-----------------------------------------------------------------------------
(* The order of the cache.                                                 *)

\* The entries of c are in the order of the numbers la gives their keys.
Sorted(c, la) == \A i, j \in 1..Len(c) : i < j => la[c[i].key] < la[c[j].key]

\* No two entries of c have the same key.
Distinct(c) == \A i, j \in 1..Len(c) : c[i].key = c[j].key => i = j

\* The keys are sources.
LEMMA KeysKnown ==
  ASSUME NEW c \in Seq(Entries)
  PROVE  \A i \in 1..Len(c) : c[i].key \in Sources
<1>1. \A i \in 1..Len(c) : c[i] \in Entries
  OBVIOUS
<1> QED BY <1>1 DEF Entries

\* A hit gives the key the highest number and its entry the last place.
LEMMA LookupSorted ==
  ASSUME NEW c \in Seq(Entries), NEW k \in Sources, NEW la \in [Sources -> Nat], NEW m \in Nat,
         \A s \in Sources : la[s] < m, Has(c, k), Sorted(c, la), Distinct(c)
  PROVE  Sorted(Lookup(c, k), [la EXCEPT ![k] = m])
<1> DEFINE f == Find(c, k)
           n == Len(c)
           t == Lookup(c, k)
           lb == [la EXCEPT ![k] = m]
<1>1. /\ f \in 1..n /\ n \in Nat /\ Len(t) = n
      /\ \A i \in 1..n : t[i] = IF i < f THEN c[i] ELSE IF i < n THEN c[i + 1] ELSE c[f]
  BY Touches
<1>2. c[f].key = k
  BY <1>1, Finds
<1>3. \A i \in 1..n : c[i].key \in Sources
  BY KeysKnown
<1>4. \A i \in 1..n : i # f => c[i].key # k
  BY <1>1, <1>2 DEF Distinct
<1>5. \A i, j \in 1..n : i < j => la[c[i].key] < la[c[j].key]
  BY DEF Sorted
<1>6. lb[k] = m /\ \A x \in Sources : x # k => lb[x] = la[x]
  OBVIOUS
<1> HIDE DEF f, n, t, lb
<1>7. ASSUME NEW i \in 1..n, i < n
      PROVE  \E p \in 1..n : p # f /\ t[i] = c[p] /\ p = IF i < f THEN i ELSE i + 1
  BY <1>1, <1>7
<1>8. ASSUME NEW i \in 1..n, NEW j \in 1..n, i < j
      PROVE  lb[t[i].key] < lb[t[j].key]
  <2>1. i < n /\ (j < n \/ j = n)
    BY <1>1, <1>8
  <2>2. PICK p \in 1..n : p # f /\ t[i] = c[p] /\ p = IF i < f THEN i ELSE i + 1
    BY <1>7, <2>1
  <2>3. lb[t[i].key] = la[c[p].key] /\ c[p].key \in Sources
    BY <1>3, <1>4, <1>6, <2>2
  <2>4. CASE j < n
    <3>1. PICK q \in 1..n : q # f /\ t[j] = c[q] /\ q = IF j < f THEN j ELSE j + 1
      BY <1>7, <2>4
    <3>2. lb[t[j].key] = la[c[q].key]
      BY <1>3, <1>4, <1>6, <3>1
    <3>3. p < q
      BY <1>1, <1>8, <2>2, <3>1
    <3> QED BY <1>5, <2>3, <3>2, <3>3
  <2>5. CASE j = n
    <3>1. t[j] = c[f]
      BY <1>1, <2>5
    <3> QED BY <1>2, <1>6, <2>3, <3>1
  <2> QED BY <2>1, <2>4, <2>5
<1> QED BY <1>1, <1>8 DEF Sorted, t, lb

\* A new key has the highest number and the last place; the oldest may go.
LEMMA InsertSorted ==
  ASSUME NEW c \in Seq(Entries), NEW k \in Sources, NEW d \in Ctx, NEW la \in [Sources -> Nat],
         NEW m \in Nat, \A s \in Sources : la[s] < m, ~Has(c, k), Sorted(c, la)
  PROVE  Sorted(Insert(c, k, d, MaxConn), [la EXCEPT ![k] = m])
<1> DEFINE e == [key |-> k, data |-> d]
           n == Len(c)
           a == Append(c, e)
           lb == [la EXCEPT ![k] = m]
<1>1. e \in Entries /\ n \in Nat /\ e.key = k
  BY DEF Entries
<1>2. /\ a \in Seq(Entries) /\ Len(a) = n + 1 /\ a[n + 1] = e
      /\ \A i \in 1..n : a[i] = c[i]
  BY <1>1
<1>3. \A i \in 1..n : c[i].key # k /\ c[i].key \in Sources
  BY Finds, KeysKnown DEF Has
<1>4. \A i, j \in 1..n : i < j => la[c[i].key] < la[c[j].key]
  BY DEF Sorted
<1>5. lb[k] = m /\ \A x \in Sources : x # k => lb[x] = la[x]
  OBVIOUS
<1>6. Insert(c, k, d, MaxConn) = a \/ Insert(c, k, d, MaxConn) = Tail(a)
  BY DEF Insert, Added
<1>7. /\ Len(Tail(a)) = n
      /\ \A i \in 1..n : Tail(a)[i] = a[i + 1]
  BY <1>1, <1>2
<1> HIDE DEF e, n, a, lb
<1>8. ASSUME NEW i \in 1..(n + 1), NEW j \in 1..(n + 1), i < j
      PROVE  lb[a[i].key] < lb[a[j].key]
  <2>1. i \in 1..n /\ (j \in 1..n \/ j = n + 1)
    BY <1>1, <1>8
  <2>2. lb[a[i].key] = la[c[i].key] /\ c[i].key \in Sources
    BY <1>2, <1>3, <1>5, <2>1
  <2>3. CASE j \in 1..n
    <3>1. lb[a[j].key] = la[c[j].key]
      BY <1>2, <1>3, <1>5, <2>3
    <3> QED BY <1>4, <1>8, <2>1, <2>2, <2>3, <3>1
  <2>4. CASE j = n + 1
    BY <1>1, <1>2, <1>5, <2>2, <2>4
  <2> QED BY <2>1, <2>3, <2>4
<1>9. Sorted(a, lb)
  BY <1>2, <1>8 DEF Sorted
<1>10. Sorted(Tail(a), lb)
  <2>1. \A i \in 1..n : i + 1 \in 1..(n + 1)
    BY <1>1
  <2>2. ASSUME NEW i \in 1..n, NEW j \in 1..n, i < j
        PROVE  lb[Tail(a)[i].key] < lb[Tail(a)[j].key]
    <3>1. i + 1 < j + 1
      BY <1>1, <2>2
    <3> QED BY <1>7, <1>8, <2>1, <3>1
  <2> QED BY <1>7, <2>2 DEF Sorted
<1> QED BY <1>6, <1>9, <1>10 DEF lb

\* Taking an entry out keeps the order of the others.
LEMMA RemoveSorted ==
  ASSUME NEW c \in Seq(Entries), NEW k, NEW la, Sorted(c, la)
  PROVE  Sorted(Remove1(c, k), la)
<1> DEFINE f == Find(c, k)
           n == Len(c)
           r == RemoveAt(c, f)
           g(i) == IF i < f THEN i ELSE i + 1
<1>1. CASE Has(c, k)
  <2>1. f \in 1..n /\ n \in Nat
    BY <1>1, Finds DEF Has
  <2>2. /\ Len(r) = n - 1
        /\ \A i \in 1..(n - 1) : r[i] = IF i < f THEN c[i] ELSE c[i + 1]
    BY <2>1, Removes
  <2>3. Remove1(c, k) = r
    BY <1>1 DEF Remove1
  <2>4. \A i, j \in 1..n : i < j => la[c[i].key] < la[c[j].key]
    BY DEF Sorted
  <2> HIDE DEF f, n, r
  <2>5. \A i \in 1..(n - 1) : g(i) \in 1..n /\ r[i] = c[g(i)]
    BY <2>1, <2>2
  <2>6. \A i, j \in 1..(n - 1) : i < j => g(i) < g(j)
    BY <2>1
  <2> HIDE DEF g
  <2>7. \A i, j \in 1..(n - 1) : i < j => la[r[i].key] < la[r[j].key]
    BY <2>4, <2>5, <2>6
  <2> QED BY <2>2, <2>3, <2>7 DEF Sorted
<1>2. CASE ~Has(c, k)
  BY <1>2 DEF Remove1
<1> QED BY <1>1, <1>2

-----------------------------------------------------------------------------

\* The datagrams are numbered as they come.
Numbered == last \in [Sources -> Nat] /\ \A s \in Sources : last[s] <= packets

\* The inductive invariant of the order.
OrderInv == Numbered /\ Sorted(cache, last)

LEMMA OrderInit == Init => OrderInv
BY DEF Init, OrderInv, Numbered, Sorted

\* Every step keeps the order, and the numbers grow with the datagrams.
LEMMA OrderNext == Inv /\ OrderInv /\ [Next]_vars => OrderInv'
<1> SUFFICES ASSUME Inv, OrderInv, [Next]_vars
             PROVE  OrderInv'
  OBVIOUS
<1>1. cache \in Seq(Entries) /\ packets \in Nat /\ Distinct(cache)
  BY DEF Inv, TypeInv, Owns, Distinct
<1>2. ASSUME NEW s \in Sources, server_recv_cb(s)
      PROVE  OrderInv'
  <2>1. packets' = packets + 1 /\ last' = [last EXCEPT ![s] = packets + 1]
    BY <1>2 DEF server_recv_cb, Sent
  <2>2. Numbered'
    BY <1>1, <2>1 DEF OrderInv, Numbered
  <2>3. packets + 1 \in Nat /\ \A x \in Sources : last[x] < packets + 1
    BY <1>1 DEF OrderInv, Numbered
  <2>4. CASE Hit(s)
    <3>1. Sorted(Lookup(cache, s), [last EXCEPT ![s] = packets + 1])
      BY <1>1, <2>3, <2>4, LookupSorted DEF OrderInv, Numbered, Hit
    <3> QED BY <2>1, <2>2, <2>4, <3>1 DEF OrderInv, Hit
  <2>5. CASE Miss(s)
    <3>1. PICK c \in Ctx : cache' = Insert(cache, s, c, MaxConn)
      BY <2>5 DEF Miss
    <3>2. Sorted(Insert(cache, s, c, MaxConn), [last EXCEPT ![s] = packets + 1])
      BY <1>1, <2>3, <2>5, InsertSorted DEF OrderInv, Numbered, Miss
    <3> QED BY <2>1, <2>2, <3>1, <3>2 DEF OrderInv
  <2> QED BY <1>2, <2>4, <2>5 DEF server_recv_cb
<1>3. CASE \E c \in Ctx : remote_timeout_cb(c)
  <2>1. PICK c \in Ctx : cache' = Remove1(cache, TimedOut(c)) /\ UNCHANGED <<packets, last>>
    BY <1>3 DEF remote_timeout_cb
  <2>2. Sorted(Remove1(cache, TimedOut(c)), last)
    BY <1>1, RemoveSorted DEF OrderInv
  <2> QED BY <2>1, <2>2 DEF OrderInv, Numbered
<1>4. CASE (\E c \in Ctx : remote_recv_cb(c)) \/ Tick \/ UNCHANGED vars
  BY <1>4 DEF remote_recv_cb, Tick, vars, OrderInv, Numbered
<1>5. CASE free_udprelay \/ BindFails
  BY <1>5 DEF free_udprelay, BindFails, OrderInv, Numbered, Sorted
<1> QED BY <1>2, <1>3, <1>4, <1>5 DEF Next

LEMMA OrderAlways == Spec => []OrderInv
BY OrderInit, OrderNext, Invariant, PTL DEF Spec

\* Every variable keeps its type: the last datagrams are among those that came, and
\* no association lies outside the MAX_UDP_CONN_NUM (udprelay.c:65-67,1259).
THEOREM TypeCorrect == Spec => []TypeOK
<1> DEFINE Counted == packets \in 0..MaxPackets
<1>1. Init => Counted
  BY MaxPacketsAssumption DEF Init
<1>2. Counted /\ [Next]_vars => Counted'
  BY MaxPacketsAssumption DEF Next, vars, server_recv_cb, remote_recv_cb, remote_timeout_cb,
     Tick, free_udprelay, BindFails
<1>3. Counted /\ Inv /\ OrderInv => TypeOK
  <2> SUFFICES ASSUME Counted, Inv, OrderInv
               PROVE  TypeOK
    OBVIOUS
  <2>1. last \in [Sources -> 0..packets]
    BY MaxPacketsAssumption DEF OrderInv, Numbered
  <2> QED BY <2>1 DEF Inv, TypeInv, TypeOK, Entries
<1> QED BY <1>1, <1>2, <1>3, Invariant, OrderAlways, PTL DEF Spec

\* The cache is in the order of the sources' last datagrams, whatever is touched,
\* inserted, pushed out or timed out: the first entry, which cache_insert frees, is
\* the source that has been silent for longest (cache.c:164-180,239-253).
THEOREM OldestAlwaysFirst == Spec => []OldestFirst
<1>1. Inv /\ OrderInv => OldestFirst
  <2> SUFFICES ASSUME Inv, OrderInv
               PROVE  OldestFirst
    OBVIOUS
  <2>1. DOMAIN cache = 1..Len(cache)
    BY DEF Inv, TypeInv
  <2> QED BY <2>1 DEF OrderInv, Sorted, OldestFirst
<1> QED BY <1>1, Invariant, OrderAlways, PTL

\* A datagram goes out through the association its source has, which keeps its
\* socket and has its whole timeout ahead (udprelay.c:1005-1023).
THEOREM FreshAlwaysStays == Spec => FreshStays
<1>1. ASSUME Inv, Inv', OrderInv, Next, NEW i \in DOMAIN cache,
             packets' # packets, last'[cache[i].key] = packets'
      PROVE  /\ Has(cache', cache[i].key)
             /\ Data(cache', cache[i].key) = cache[i].data
             /\ age'[cache[i].data] = 0
  <2> DEFINE k == cache[i].key
             d == cache[i].data
  <2>1. PICK s \in Sources : server_recv_cb(s)
    BY <1>1 DEF Next, remote_recv_cb, remote_timeout_cb, Tick, free_udprelay, BindFails
  <2>2. i \in 1..Len(cache) /\ cache \in Seq(Entries)
    BY <1>1 DEF Inv, TypeInv
  <2>3. k \in Sources /\ d \in live /\ d \in Ctx /\ k = src[d]
    <3>1. cache[i] \in Entries
      BY <2>2
    <3> QED BY <1>1, <2>2, <3>1 DEF Entries, Inv, Owns
  <2>4. k = s
    BY <1>1, <2>1, <2>3 DEF server_recv_cb, Sent, OrderInv, Numbered, Inv, TypeInv
  <2>5. Has(cache, k) /\ Find(cache, k) \in 1..Len(cache) /\ cache[Find(cache, k)].key = k
    BY <2>2, Finds DEF Has
  <2>6. Data(cache, k) = d
    BY <1>1, <2>2, <2>5 DEF Data, Inv, Owns
  <2>7. Hit(s)
    BY <2>1, <2>4, <2>5 DEF server_recv_cb, Miss
  <2>8. age'[d] = 0
    BY <1>1, <2>3, <2>4, <2>6, <2>7 DEF Hit, Inv, TypeInv
  <2>9. d \in live' /\ src'[d] = src[d]
    BY <2>3, <2>7 DEF Hit
  <2> QED BY <1>1, <2>8, <2>9, Stays
<1>2. Inv /\ Inv' /\ OrderInv /\ [Next]_vars =>
        [\A i \in DOMAIN cache : packets' # packets /\ last'[cache[i].key] = packets' =>
           /\ Has(cache', cache[i].key)
           /\ Data(cache', cache[i].key) = cache[i].data
           /\ age'[cache[i].data] = 0]_vars
  BY <1>1
<1> QED BY <1>2, Invariant, OrderAlways, PTL DEF Spec, FreshStays
=============================================================================
