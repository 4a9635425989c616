------------------------- MODULE EufyGalleryProofs --------------------------
(***************************************************************************)
(* Theorems about the clip gallery (EufyGallery), for any clips, any       *)
(* number of requests under way, any capacity of the ring and of the       *)
(* thumbnail cache.  First what the sequences of the model do: sifting a   *)
(* sequence, cutting it to its newest, and joining two.  Then the          *)
(* invariant.                                                              *)
(***************************************************************************)
EXTENDS EufyGallery, SequenceTheorems, WellFoundedInduction, TLAPS

-----------------------------------------------------------------------------
(***************************************************************************)
(* Induction, for numbers and for sequences, as facts about sets.          *)
(***************************************************************************)
LEMMA SetInduction ==
  ASSUME NEW S \in SUBSET Nat, 0 \in S, \A n \in S : n + 1 \in S
  PROVE  S = Nat
<1> DEFINE T == Nat \ S
           R == OpToRel(<, Nat)
<1>1. SUFFICES ASSUME T # {} PROVE FALSE
  OBVIOUS
<1>2. PICK x \in T : \A y \in T : ~ (<<y, x>> \in R)
  <2> HIDE DEF R
  <2>1. IsWellFoundedOn(R, Nat)
    BY NatLessThanWellFounded DEF R
  <2>2. T \subseteq Nat
    OBVIOUS
  <2> HIDE DEF T
  <2> QED
    BY <1>1, <2>1, <2>2, WFMin
<1>3. \A y \in T : ~(y < x)
  BY <1>2 DEF OpToRel
<1>4. x # 0 /\ x - 1 \in Nat /\ x - 1 < x
  OBVIOUS
<1>5. x - 1 \in S
  BY <1>3, <1>4
<1>6. (x - 1) + 1 \in S
  BY <1>5
<1> QED
  BY <1>4, <1>6

LEMMA SeqInduction ==
  ASSUME NEW E, NEW P \in SUBSET Seq(E), <<>> \in P,
         \A s \in P, e \in E : Append(s, e) \in P
  PROVE  P = Seq(E)
<1> DEFINE S == {n \in Nat : \A s \in Seq(E) : Len(s) = n => s \in P}
<1>1. 0 \in S
  <2>1. \A s \in Seq(E) : Len(s) = 0 => s = <<>>
    BY EmptySeq
  <2> QED
    BY <2>1
<1>2. ASSUME NEW n \in S
      PROVE  n + 1 \in S
  <2>1. ASSUME NEW s \in Seq(E), Len(s) = n + 1
        PROVE  s \in P
    <3>1. s # <<>>
      BY <2>1, EmptySeq
    <3>2. PICK t \in Seq(E), e \in E : s = Append(t, e)
      BY <3>1, SequenceEmptyOrAppend
    <3>3. Len(s) = Len(t) + 1 /\ Len(t) \in Nat
      BY <3>2, AppendProperties, LenProperties
    <3>4. t \in P
      BY <2>1, <3>3
    <3> QED
      BY <3>2, <3>4
  <2> QED
    BY <2>1
<1>3. S = Nat
  <2> HIDE DEF S
  <2>1. S \in SUBSET Nat
    BY DEF S
  <2> QED
    BY <1>1, <1>2, <2>1, SetInduction
<1> QED
  BY <1>3, LenProperties

-----------------------------------------------------------------------------
(***************************************************************************)
(* The elements of a sequence, and whether one occurs twice.               *)
(***************************************************************************)
LEMMA ToSetAppend ==
  ASSUME NEW E, NEW s \in Seq(E), NEW e \in E
  PROVE  /\ ToSet(Append(s, e)) = ToSet(s) \cup {e}
         /\ IsInjective(Append(s, e)) <=> IsInjective(s) /\ e \notin ToSet(s)
<1> DEFINE t == Append(s, e)
<1>1. /\ t \in Seq(E) /\ Len(t) = Len(s) + 1 /\ Len(s) \in Nat
      /\ \A i \in 1 .. Len(s) : t[i] = s[i]
      /\ t[Len(s) + 1] = e
      /\ DOMAIN t = 1 .. (Len(s) + 1) /\ DOMAIN s = 1 .. Len(s)
  BY AppendProperties, LenProperties
<1> HIDE DEF t
<1>2. ToSet(t) = ToSet(s) \cup {e}
  <2>1. ASSUME NEW x \in ToSet(t)
        PROVE  x \in ToSet(s) \cup {e}
    <3>1. PICK i \in 1 .. (Len(s) + 1) : x = t[i]
      BY <1>1 DEF ToSet
    <3>2. CASE i = Len(s) + 1
      BY <1>1, <3>1, <3>2
    <3>3. CASE i # Len(s) + 1
      BY <1>1, <3>1, <3>3 DEF ToSet
    <3> QED
      BY <3>2, <3>3
  <2>2. ASSUME NEW x \in ToSet(s)
        PROVE  x \in ToSet(t)
    <3>1. PICK i \in 1 .. Len(s) : x = s[i]
      BY <1>1 DEF ToSet
    <3>2. t[i] = x /\ i \in DOMAIN t
      BY <1>1, <3>1
    <3> QED
      BY <3>2 DEF ToSet
  <2>3. e \in ToSet(t)
    <3>1. Len(s) + 1 \in DOMAIN t
      BY <1>1
    <3> QED
      BY <1>1, <3>1 DEF ToSet
  <2> QED
    BY <2>1, <2>2, <2>3
<1>3. ASSUME IsInjective(t)
      PROVE  IsInjective(s) /\ e \notin ToSet(s)
  <2>1. IsInjective(s)
    BY <1>1, <1>3 DEF IsInjective
  <2>2. ASSUME NEW i \in 1 .. Len(s), s[i] = e
        PROVE  FALSE
    <3>1. t[i] = t[Len(s) + 1] /\ i \in DOMAIN t /\ Len(s) + 1 \in DOMAIN t /\ i # Len(s) + 1
      BY <1>1, <2>2
    <3> QED
      BY <1>3, <3>1 DEF IsInjective
  <2> QED
    BY <1>1, <2>1, <2>2 DEF ToSet
<1>4. ASSUME IsInjective(s), e \notin ToSet(s)
      PROVE  IsInjective(t)
  <2>1. \A i \in 1 .. Len(s) : s[i] # e
    BY <1>1, <1>4 DEF ToSet
  <2>2. ASSUME NEW i \in 1 .. (Len(s) + 1), NEW j \in 1 .. (Len(s) + 1), t[i] = t[j]
        PROVE  i = j
    <3>1. CASE i = Len(s) + 1 \/ j = Len(s) + 1
      <4>1. \A k \in 1 .. (Len(s) + 1) : k # Len(s) + 1 => k \in 1 .. Len(s)
        BY <1>1
      <4> QED
        BY <1>1, <2>1, <2>2, <3>1, <4>1
    <3>2. CASE i # Len(s) + 1 /\ j # Len(s) + 1
      <4>1. i \in 1 .. Len(s) /\ j \in 1 .. Len(s)
        BY <1>1, <3>2
      <4> QED
        BY <1>1, <1>4, <2>2, <4>1 DEF IsInjective
    <3> QED
      BY <3>1, <3>2
  <2> QED
    BY <1>1, <2>2 DEF IsInjective
<1> QED
  BY <1>2, <1>3, <1>4 DEF t

LEMMA ToSetEmpty == ToSet(<<>>) = {} /\ IsInjective(<<>>)
BY DEF ToSet, IsInjective

LEMMA ToSetType == ASSUME NEW E, NEW s \in Seq(E) PROVE ToSet(s) \subseteq E
BY DEF ToSet

LEMMA ToSetConcat ==
  ASSUME NEW E, NEW s \in Seq(E), NEW t \in Seq(E)
  PROVE  /\ ToSet(s \o t) = ToSet(s) \cup ToSet(t)
         /\ IsInjective(s \o t) <=>
              IsInjective(s) /\ IsInjective(t) /\ ToSet(s) \cap ToSet(t) = {}
<1> DEFINE P == {u \in Seq(E) :
                   /\ ToSet(s \o u) = ToSet(s) \cup ToSet(u)
                   /\ IsInjective(s \o u) <=>
                        IsInjective(s) /\ IsInjective(u) /\ ToSet(s) \cap ToSet(u) = {}}
<1>1. <<>> \in P
  BY ToSetEmpty, ConcatEmptySeq, EmptySeq
<1>2. ASSUME NEW u \in P, NEW e \in E
      PROVE  Append(u, e) \in P
  <2>1. Append(u, e) \in Seq(E) /\ s \o u \in Seq(E)
    BY AppendProperties, ConcatProperties
  <2>2. s \o Append(u, e) = Append(s \o u, e)
    OBVIOUS
  <2>3. /\ ToSet(Append(s \o u, e)) = ToSet(s \o u) \cup {e}
        /\ IsInjective(Append(s \o u, e)) <=> IsInjective(s \o u) /\ e \notin ToSet(s \o u)
    BY <2>1, ToSetAppend
  <2>4. /\ ToSet(Append(u, e)) = ToSet(u) \cup {e}
        /\ IsInjective(Append(u, e)) <=> IsInjective(u) /\ e \notin ToSet(u)
    BY ToSetAppend
  <2> QED
    BY <2>1, <2>2, <2>3, <2>4
<1>3. P = Seq(E)
  <2> HIDE DEF P
  <2>1. P \in SUBSET Seq(E)
    BY DEF P
  <2> QED
    BY <1>1, <1>2, <2>1, SeqInduction
<1> QED
  BY <1>3

-----------------------------------------------------------------------------
(***************************************************************************)
(* Sifting.  The recursive function in Sift exists, and what it says of a  *)
(* sequence it says of a longer one that begins with it: so appending one  *)
(* element appends it to what is sifted, or not.                           *)
(***************************************************************************)
Sifts(f, s, S, n) ==
  f = [i \in 0 .. n |-> IF i = 0 THEN <<>>
                        ELSE IF s[i] \in S THEN Append(f[i - 1], s[i])
                        ELSE f[i - 1]]

LEMMA SiftsExist == ASSUME NEW s, NEW S PROVE \A n \in Nat : \E f : Sifts(f, s, S, n)
<1> DEFINE T == {n \in Nat : \E f : Sifts(f, s, S, n)}
<1>1. 0 \in T
  <2>1. Sifts([i \in 0 .. 0 |-> <<>>], s, S, 0)
    BY DEF Sifts
  <2> QED
    BY <2>1
<1>2. ASSUME NEW n \in T
      PROVE  n + 1 \in T
  <2>1. PICK f : Sifts(f, s, S, n)
    OBVIOUS
  <2> DEFINE last == IF s[n + 1] \in S THEN Append(f[n], s[n + 1]) ELSE f[n]
             g == [i \in 0 .. (n + 1) |-> IF i = n + 1 THEN last ELSE f[i]]
  <2>2. ASSUME NEW i \in 0 .. (n + 1)
        PROVE  g[i] = IF i = 0 THEN <<>>
                      ELSE IF s[i] \in S THEN Append(g[i - 1], s[i]) ELSE g[i - 1]
    <3>1. CASE i = n + 1
      <4>1. i # 0 /\ i - 1 = n /\ n \in 0 .. (n + 1) /\ n # n + 1
        BY <3>1
      <4>2. g[i] = last /\ g[i - 1] = f[n]
        BY <3>1, <4>1
      <4> QED
        BY <3>1, <4>1, <4>2
    <3>2. CASE i # n + 1 /\ i # 0
      <4>1. i \in 0 .. n /\ i - 1 \in 0 .. (n + 1) /\ i - 1 # n + 1
        BY <3>2
      <4>2. g[i] = f[i] /\ g[i - 1] = f[i - 1]
        BY <3>2, <4>1
      <4>3. f[i] = IF s[i] \in S THEN Append(f[i - 1], s[i]) ELSE f[i - 1]
        BY <2>1, <3>2, <4>1 DEF Sifts
      <4> QED
        BY <3>2, <4>2, <4>3
    <3>3. CASE i # n + 1 /\ i = 0
      <4>1. f[0] = <<>>
        BY <2>1 DEF Sifts
      <4> QED
        BY <3>3, <4>1
    <3> QED
      BY <3>1, <3>2, <3>3
  <2>3. g = [i \in 0 .. (n + 1) |-> IF i = 0 THEN <<>>
                                    ELSE IF s[i] \in S THEN Append(g[i - 1], s[i])
                                    ELSE g[i - 1]]
    <3>1. g = [i \in 0 .. (n + 1) |-> g[i]]
      OBVIOUS
    <3> HIDE DEF g
    <3> QED
      BY <2>2, <3>1
  <2> HIDE DEF g
  <2>4. Sifts(g, s, S, n + 1)
    BY <2>3 DEF Sifts
  <2> QED
    BY <2>4
<1>3. T = Nat
  <2> HIDE DEF T
  <2>1. T \in SUBSET Nat
    BY DEF T
  <2> QED
    BY <1>1, <1>2, <2>1, SetInduction
<1> QED
  BY <1>3

LEMMA SiftsAgree ==
  ASSUME NEW s, NEW t, NEW S, NEW n \in Nat, NEW m \in Nat, n <= m,
         \A i \in 1 .. n : s[i] = t[i],
         NEW f, NEW g, Sifts(f, s, S, n), Sifts(g, t, S, m)
  PROVE  f[n] = g[n]
<1> DEFINE T == {k \in Nat : k <= n => f[k] = g[k]}
<1>1. 0 \in T
  BY DEF Sifts
<1>2. ASSUME NEW k \in T
      PROVE  k + 1 \in T
  <2>1. CASE k + 1 <= n
    <3>1. /\ k + 1 \in 0 .. n /\ k + 1 \in 0 .. m /\ k + 1 \in 1 .. n
          /\ k + 1 # 0 /\ (k + 1) - 1 = k /\ k <= n
      BY <2>1
    <3>2. f[k] = g[k] /\ s[k + 1] = t[k + 1]
      BY <3>1
    <3>3. f[k + 1] = IF s[k + 1] \in S THEN Append(f[k], s[k + 1]) ELSE f[k]
      BY <3>1 DEF Sifts
    <3>4. g[k + 1] = IF t[k + 1] \in S THEN Append(g[k], t[k + 1]) ELSE g[k]
      BY <3>1 DEF Sifts
    <3> QED
      BY <3>2, <3>3, <3>4
  <2> QED
    BY <2>1
<1>3. T = Nat
  <2> HIDE DEF T
  <2>1. T \in SUBSET Nat
    BY DEF T
  <2> QED
    BY <1>1, <1>2, <2>1, SetInduction
<1> QED
  BY <1>3

LEMMA SiftIs ==
  ASSUME NEW s, NEW S, Len(s) \in Nat
  PROVE  \E f : Sifts(f, s, S, Len(s)) /\ Sift(s, S) = f[Len(s)]
<1> DEFINE f == CHOOSE f : Sifts(f, s, S, Len(s))
<1>1. Sift(s, S) = f[Len(s)]
  BY DEF Sift, Sifts
<1>2. Sifts(f, s, S, Len(s))
  BY SiftsExist
<1> QED
  BY <1>1, <1>2

LEMMA SiftAppend ==
  ASSUME NEW E, NEW s \in Seq(E), NEW e \in E, NEW S
  PROVE  Sift(Append(s, e), S) = IF e \in S THEN Append(Sift(s, S), e) ELSE Sift(s, S)
<1> DEFINE t == Append(s, e)
<1>1. /\ Len(t) = Len(s) + 1 /\ Len(s) \in Nat /\ Len(t) \in Nat
      /\ \A i \in 1 .. Len(s) : s[i] = t[i]
      /\ t[Len(s) + 1] = e
  BY AppendProperties, LenProperties
<1> HIDE DEF t
<1>2. PICK f : Sifts(f, s, S, Len(s)) /\ Sift(s, S) = f[Len(s)]
  BY <1>1, SiftIs
<1>3. PICK g : Sifts(g, t, S, Len(t)) /\ Sift(t, S) = g[Len(t)]
  BY <1>1, SiftIs
<1>4. f[Len(s)] = g[Len(s)]
  <2>1. Len(s) <= Len(t)
    BY <1>1
  <2> QED
    BY <1>1, <1>2, <1>3, <2>1, SiftsAgree
<1>5. g[Len(t)] = IF e \in S THEN Append(g[Len(s)], e) ELSE g[Len(s)]
  <2>1. Len(t) \in 0 .. Len(t) /\ Len(t) # 0 /\ Len(t) - 1 = Len(s) /\ t[Len(t)] = e
    BY <1>1
  <2> QED
    BY <1>3, <2>1 DEF Sifts
<1> QED
  BY <1>2, <1>3, <1>4, <1>5 DEF t

LEMMA SiftEmpty == ASSUME NEW S PROVE Sift(<<>>, S) = <<>>
<1>1. Len(<<>>) = 0
  OBVIOUS
<1>2. PICK f : Sifts(f, <<>>, S, 0) /\ Sift(<<>>, S) = f[0]
  BY <1>1, SiftIs
<1> QED
  BY <1>2 DEF Sifts

\* What sifting keeps, by induction on the sequence.
LEMMA SiftFacts ==
  ASSUME NEW E, NEW s \in Seq(E), NEW S
  PROVE  /\ Sift(s, S) \in Seq(E) /\ Sift(s, S) \in Seq(E \cap S)
         /\ ToSet(Sift(s, S)) = ToSet(s) \cap S
         /\ Len(Sift(s, S)) <= Len(s)
         /\ IsInjective(s) => IsInjective(Sift(s, S))
         /\ ToSet(s) \subseteq S => Sift(s, S) = s
         /\ ToSet(s) \cap S = {} => Sift(s, S) = <<>>
<1> DEFINE P == {u \in Seq(E) :
                   /\ Sift(u, S) \in Seq(E) /\ Sift(u, S) \in Seq(E \cap S)
                   /\ ToSet(Sift(u, S)) = ToSet(u) \cap S
                   /\ Len(Sift(u, S)) <= Len(u)
                   /\ IsInjective(u) => IsInjective(Sift(u, S))
                   /\ ToSet(u) \subseteq S => Sift(u, S) = u
                   /\ ToSet(u) \cap S = {} => Sift(u, S) = <<>>}
<1>1. <<>> \in P
  <2>1. Sift(<<>>, S) = <<>> /\ ToSet(<<>>) = {} /\ IsInjective(<<>>)
    BY SiftEmpty, ToSetEmpty
  <2>2. <<>> \in Seq(E) /\ <<>> \in Seq(E \cap S) /\ Len(<<>>) <= Len(<<>>)
    OBVIOUS
  <2> QED
    BY <2>1, <2>2
<1>2. ASSUME NEW u \in P, NEW e \in E
      PROVE  Append(u, e) \in P
  <2> DEFINE v == Append(u, e)
             w == Sift(u, S)
  <2>1. Sift(v, S) = IF e \in S THEN Append(w, e) ELSE w
    BY SiftAppend
  <2>2. /\ ToSet(v) = ToSet(u) \cup {e}
        /\ IsInjective(v) <=> IsInjective(u) /\ e \notin ToSet(u)
        /\ v \in Seq(E) /\ Len(v) = Len(u) + 1 /\ Len(u) \in Nat
    BY ToSetAppend, AppendProperties, LenProperties
  <2>3. /\ w \in Seq(E) /\ w \in Seq(E \cap S) /\ Len(w) \in Nat
        /\ ToSet(w) = ToSet(u) \cap S /\ Len(w) <= Len(u)
        /\ IsInjective(u) => IsInjective(w)
        /\ ToSet(u) \subseteq S => w = u
        /\ ToSet(u) \cap S = {} => w = <<>>
    BY LenProperties
  <2>4. /\ ToSet(Append(w, e)) = ToSet(w) \cup {e}
        /\ IsInjective(Append(w, e)) <=> IsInjective(w) /\ e \notin ToSet(w)
        /\ Append(w, e) \in Seq(E) /\ Len(Append(w, e)) = Len(w) + 1
    BY <2>3, ToSetAppend, AppendProperties
  <2>5. e \in S => Append(w, e) \in Seq(E \cap S)
    BY <2>3, AppendProperties
  <2>6. Append(w, e) = v <=> w = u
    BY <2>3, AppendInjective
  <2> HIDE DEF v, w
  <2>7. CASE e \in S
    <3>1. Sift(v, S) = Append(w, e)
      BY <2>1, <2>7
    <3>2. ToSet(Sift(v, S)) = ToSet(v) \cap S /\ Len(Sift(v, S)) <= Len(v)
      BY <2>2, <2>3, <2>4, <2>7, <3>1
    <3>3. IsInjective(v) => IsInjective(Sift(v, S))
      BY <2>2, <2>3, <2>4, <3>1
    <3>4. ToSet(v) \subseteq S => Sift(v, S) = v
      BY <2>2, <2>3, <2>6, <3>1
    <3>5. ~(ToSet(v) \cap S = {})
      BY <2>2, <2>7
    <3>6. v \in P
      BY <2>2, <2>4, <2>5, <2>7, <3>1, <3>2, <3>3, <3>4, <3>5
    <3> QED
      BY <3>6 DEF v
  <2>8. CASE e \notin S
    <3>1. Sift(v, S) = w
      BY <2>1, <2>8
    <3>2. ToSet(Sift(v, S)) = ToSet(v) \cap S /\ Len(Sift(v, S)) <= Len(v)
      BY <2>2, <2>3, <2>8, <3>1
    <3>3. IsInjective(v) => IsInjective(Sift(v, S))
      BY <2>2, <2>3, <3>1
    <3>4. ~(ToSet(v) \subseteq S)
      BY <2>2, <2>8
    <3>5. ToSet(v) \cap S = {} => Sift(v, S) = <<>>
      BY <2>2, <2>3, <3>1
    <3>6. v \in P
      BY <2>2, <2>3, <3>1, <3>2, <3>3, <3>4, <3>5
    <3> QED
      BY <3>6 DEF v
  <2> QED
    BY <2>7, <2>8
<1>3. P = Seq(E)
  <2> HIDE DEF P
  <2>1. P \in SUBSET Seq(E)
    BY DEF P
  <2> QED
    BY <1>1, <1>2, <2>1, SeqInduction
<1> QED
  BY <1>3

LEMMA SiftConcat ==
  ASSUME NEW E, NEW s \in Seq(E), NEW t \in Seq(E), NEW S
  PROVE  Sift(s \o t, S) = Sift(s, S) \o Sift(t, S)
<1> DEFINE P == {u \in Seq(E) : Sift(s \o u, S) = Sift(s, S) \o Sift(u, S)}
<1>1. <<>> \in P
  <2>1. s \o <<>> = s /\ Sift(<<>>, S) = <<>> /\ Sift(s, S) \in Seq(E)
    BY SiftEmpty, SiftFacts, ConcatEmptySeq
  <2>2. Sift(s, S) \o <<>> = Sift(s, S)
    BY <2>1, ConcatEmptySeq
  <2>3. <<>> \in Seq(E)
    OBVIOUS
  <2> QED
    BY <2>1, <2>2, <2>3
<1>2. ASSUME NEW u \in P, NEW e \in E
      PROVE  Append(u, e) \in P
  <2>1. s \o Append(u, e) = Append(s \o u, e) /\ s \o u \in Seq(E) /\ Append(u, e) \in Seq(E)
    OBVIOUS
  <2>2. Sift(Append(s \o u, e), S) = IF e \in S THEN Append(Sift(s \o u, S), e)
                                     ELSE Sift(s \o u, S)
    <3> DEFINE v == s \o u
    <3>1. v \in Seq(E)
      BY <2>1
    <3> HIDE DEF v
    <3>2. Sift(Append(v, e), S) = IF e \in S THEN Append(Sift(v, S), e) ELSE Sift(v, S)
      BY <3>1, SiftAppend
    <3> QED
      BY <3>2 DEF v
  <2>3. Sift(Append(u, e), S) = IF e \in S THEN Append(Sift(u, S), e) ELSE Sift(u, S)
    BY SiftAppend
  <2>4. Sift(s, S) \in Seq(E) /\ Sift(u, S) \in Seq(E)
    BY SiftFacts
  <2>5. Sift(s, S) \o Append(Sift(u, S), e) = Append(Sift(s, S) \o Sift(u, S), e)
    BY <2>4
  <2> QED
    BY <2>1, <2>2, <2>3, <2>5
<1>3. P = Seq(E)
  <2> HIDE DEF P
  <2>1. P \in SUBSET Seq(E)
    BY DEF P
  <2> QED
    BY <1>1, <1>2, <2>1, SeqInduction
<1> QED
  BY <1>3

-----------------------------------------------------------------------------
(***************************************************************************)
(* The newest of a list, and what a clip put before a full ring drops.     *)
(***************************************************************************)
LEMMA NewestFacts ==
  ASSUME NEW E, NEW s \in Seq(E)
  PROVE  /\ Newest(s) \in Seq(E) /\ Len(Newest(s)) <= RingSize
         /\ IsInjective(s) => IsInjective(Newest(s))
         /\ ToSet(Newest(s)) \subseteq ToSet(s)
         /\ Len(s) <= RingSize => Newest(s) = s
         /\ \A e \in E : Len(s) = RingSize => Newest(Append(s, e)) = s
<1> DEFINE n == IF Len(s) <= RingSize THEN Len(s) ELSE RingSize
           t == SubSeq(s, 1, n)
<1>1. /\ n \in Nat /\ n <= Len(s) /\ n <= RingSize /\ Len(s) \in Nat /\ RingSize \in Nat
      /\ 1 \in Int /\ n \in Int /\ \A i \in 1 .. n : s[i] \in E
  BY GalleryAssumption, LenProperties
<1>2. Newest(s) = t
  BY DEF Newest
<1>3. Len(s) <= RingSize => t = s
  BY SubSeqFull
<1> HIDE DEF n
<1>4. /\ t \in Seq(E) /\ Len(t) = IF 1 <= n THEN n - 1 + 1 ELSE 0
      /\ \A i \in 1 .. n - 1 + 1 : t[i] = s[1 + i - 1]
  BY <1>1, SubSeqProperties
<1>5. Len(t) = n /\ \A i \in 1 .. n : t[i] = s[i]
  BY <1>1, <1>4
<1>6. DOMAIN t = 1 .. n /\ DOMAIN s = 1 .. Len(s) /\ 1 .. n \subseteq 1 .. Len(s)
  BY <1>1, <1>4, <1>5, LenProperties
<1> HIDE DEF t
<1>7. IsInjective(s) => IsInjective(t)
  BY <1>5, <1>6 DEF IsInjective
<1>8. ToSet(t) \subseteq ToSet(s)
  BY <1>5, <1>6 DEF ToSet
<1>9. ASSUME NEW e \in E, Len(s) = RingSize
      PROVE  Newest(Append(s, e)) = s
  <2>1. Len(Append(s, e)) = Len(s) + 1
    BY AppendProperties
  <2>2. Newest(Append(s, e)) = SubSeq(Append(s, e), 1, Len(s))
    BY <1>1, <1>9, <2>1 DEF Newest
  <2>3. SubSeq(Append(s, e), 1, Len(s)) = s
    <3>1. Append(s, e) = s \o <<e>> /\ <<e>> \in Seq(E) /\ Len(s) >= 1
      BY <1>9, GalleryAssumption, AppendIsConcat
    <3>2. 1 \in 1 .. Len(s) /\ Len(s) \in 1 .. Len(s)
      BY <1>1, <3>1
    <3>3. SubSeq(s \o <<e>>, 1, Len(s)) = SubSeq(s, 1, Len(s))
      BY <3>1, <3>2, SubSeqOfConcat1
    <3> QED
      BY <3>1, <3>3, SubSeqFull
  <2> QED
    BY <2>2, <2>3
<1> QED
  BY <1>1, <1>2, <1>3, <1>4, <1>5, <1>7, <1>8, <1>9

LEMMA PrependFacts ==
  ASSUME NEW E, NEW s \in Seq(E), NEW c \in E
  PROVE  /\ <<c>> \o s \in Seq(E)
         /\ Len(<<c>> \o s) = Len(s) + 1
         /\ ToSet(<<c>> \o s) = {c} \cup ToSet(s)
         /\ IsInjective(<<c>> \o s) <=> IsInjective(s) /\ c \notin ToSet(s)
<1>1. <<c>> \in Seq(E) /\ Len(<<c>>) = 1 /\ DOMAIN <<c>> = 1 .. 1 /\ <<c>>[1] = c
  OBVIOUS
<1>2. ToSet(<<c>>) = {c} /\ IsInjective(<<c>>)
  BY <1>1 DEF ToSet, IsInjective
<1>3. /\ ToSet(<<c>> \o s) = ToSet(<<c>>) \cup ToSet(s)
      /\ IsInjective(<<c>> \o s) <=>
           IsInjective(<<c>>) /\ IsInjective(s) /\ ToSet(<<c>>) \cap ToSet(s) = {}
  BY <1>1, ToSetConcat
<1>4. <<c>> \o s \in Seq(E) /\ Len(<<c>> \o s) = Len(s) + 1
  <2>1. Len(<<c>> \o s) = Len(<<c>>) + Len(s) /\ <<c>> \o s \in Seq(E) /\ Len(s) \in Nat
    BY <1>1, ConcatProperties, LenProperties
  <2> QED
    BY <1>1, <2>1
<1> QED
  BY <1>2, <1>3, <1>4

LEMMA FullRing ==
  ASSUME NEW E, NEW r \in Seq(E), NEW c \in E, IsInjective(r), Len(r) = RingSize
  PROVE  ToSet(Newest(<<c>> \o r)) = {c} \cup (ToSet(r) \ {Last(r)})
<1>1. r # <<>> /\ Len(r) \in Nat
  BY GalleryAssumption, EmptySeq
<1>2. PICK t \in Seq(E), e \in E : r = Append(t, e)
  BY <1>1, SequenceEmptyOrAppend
<1>3. Len(r) = Len(t) + 1 /\ r[Len(t) + 1] = e /\ Len(t) \in Nat
  BY <1>2, AppendProperties, LenProperties
<1>4. Last(r) = e
  BY <1>3 DEF Last
<1>5. ToSet(r) = ToSet(t) \cup {e} /\ e \notin ToSet(t)
  BY <1>2, ToSetAppend
<1>6. <<c>> \o r = Append(<<c>> \o t, e) /\ <<c>> \o t \in Seq(E)
  BY <1>2
<1>7. Len(<<c>> \o t) = RingSize /\ ToSet(<<c>> \o t) = {c} \cup ToSet(t)
  BY <1>3, PrependFacts
<1>8. Newest(<<c>> \o r) = <<c>> \o t
  <2> DEFINE u == <<c>> \o t
  <2>1. u \in Seq(E) /\ Len(u) = RingSize /\ <<c>> \o r = Append(u, e)
    BY <1>6, <1>7
  <2> HIDE DEF u
  <2>2. Newest(Append(u, e)) = u
    BY <2>1, NewestFacts
  <2> QED
    BY <2>1, <2>2 DEF u
<1> QED
  BY <1>4, <1>5, <1>7, <1>8

-----------------------------------------------------------------------------
(***************************************************************************)
(* The operators of the gallery: test clips and camera clips put one after *)
(* the other come apart again, and the thumbnail cache keeps its size.     *)
(***************************************************************************)
LEMMA JoinFacts ==
  ASSUME NEW p \in Seq(Injected), NEW r \in Seq(Clips)
  PROVE  /\ p \in Seq(AllClips) /\ r \in Seq(AllClips) /\ p \o r \in Seq(AllClips)
         /\ ToSet(p) \subseteq Injected /\ ToSet(r) \subseteq Clips
         /\ ToSet(p \o r) = ToSet(p) \cup ToSet(r)
         /\ IsInjective(p \o r) <=> IsInjective(p) /\ IsInjective(r)
         /\ Pinned(p \o r) = p /\ Real(p \o r) = r
<1>1. p \in Seq(AllClips) /\ r \in Seq(AllClips)
  <2>1. Injected \subseteq AllClips /\ Clips \subseteq AllClips
    BY DEF AllClips
  <2> QED
    BY <2>1, SeqMonotonic
<1>2. p \o r \in Seq(AllClips)
  BY <1>1, ConcatProperties
<1>3. ToSet(p) \subseteq Injected /\ ToSet(r) \subseteq Clips
  BY ToSetType
<1>4. Clips \cap Injected = {}
  BY GalleryAssumption
<1>5. /\ ToSet(p \o r) = ToSet(p) \cup ToSet(r)
      /\ IsInjective(p \o r) <=> IsInjective(p) /\ IsInjective(r)
  <2>1. /\ ToSet(p \o r) = ToSet(p) \cup ToSet(r)
        /\ IsInjective(p \o r) <=>
             IsInjective(p) /\ IsInjective(r) /\ ToSet(p) \cap ToSet(r) = {}
    BY <1>1, ToSetConcat
  <2>2. ToSet(p) \cap ToSet(r) = {}
    BY <1>3, <1>4
  <2> QED
    BY <2>1, <2>2
<1>6. Pinned(p \o r) = p
  <2>1. Sift(p \o r, Injected) = Sift(p, Injected) \o Sift(r, Injected)
    BY <1>1, SiftConcat
  <2>2. Sift(p, Injected) = p
    BY <1>1, <1>3, SiftFacts
  <2>3. Sift(r, Injected) = <<>>
    <3>1. ToSet(r) \cap Injected = {}
      BY <1>3, <1>4
    <3> QED
      BY <1>1, <3>1, SiftFacts
  <2>4. p \o <<>> = p
    BY ConcatEmptySeq
  <2> QED
    BY <2>1, <2>2, <2>3, <2>4 DEF Pinned
<1>7. Real(p \o r) = r
  <2>1. Sift(p \o r, Clips) = Sift(p, Clips) \o Sift(r, Clips)
    BY <1>1, SiftConcat
  <2>2. Sift(r, Clips) = r
    BY <1>1, <1>3, SiftFacts
  <2>3. Sift(p, Clips) = <<>>
    <3>1. ToSet(p) \cap Clips = {}
      BY <1>3, <1>4
    <3> QED
      BY <1>1, <3>1, SiftFacts
  <2>4. <<>> \o r = r
    BY ConcatEmptySeq
  <2> QED
    BY <2>1, <2>2, <2>3, <2>4 DEF Real
<1> QED
  BY <1>1, <1>2, <1>3, <1>5, <1>6, <1>7

LEMMA WithoutFacts ==
  ASSUME NEW s \in Seq(AllClips), NEW c \in AllClips
  PROVE  /\ Without(s, c) \in Seq(AllClips)
         /\ ToSet(Without(s, c)) = ToSet(s) \ {c}
         /\ Len(Without(s, c)) <= Len(s) /\ Len(Without(s, c)) \in Nat
         /\ IsInjective(s) => IsInjective(Without(s, c))
         /\ c \notin ToSet(s) => Without(s, c) = s
<1> DEFINE S == AllClips \ {c}
           w == Sift(s, S)
<1>1. ToSet(s) \subseteq AllClips
  BY ToSetType
<1>2. /\ w \in Seq(AllClips) /\ ToSet(w) = ToSet(s) \cap S /\ Len(w) <= Len(s)
      /\ IsInjective(s) => IsInjective(w)
      /\ ToSet(s) \subseteq S => w = s
  <2> HIDE DEF S
  <2> QED
    BY SiftFacts
<1>3. Without(s, c) = w
  BY DEF Without
<1>4. ToSet(s) \cap S = ToSet(s) \ {c} /\ (c \notin ToSet(s) => ToSet(s) \subseteq S)
  BY <1>1
<1> HIDE DEF w, S
<1>5. Len(w) \in Nat
  BY <1>2, LenProperties
<1> QED
  BY <1>2, <1>3, <1>4, <1>5

LEMMA TailFacts ==
  ASSUME NEW E, NEW s \in Seq(E), s # <<>>
  PROVE  /\ Tail(s) \in Seq(E) /\ Len(Tail(s)) = Len(s) - 1
         /\ IsInjective(s) => IsInjective(Tail(s))
<1> DEFINE t == Tail(s)
<1>1. t \in Seq(E) /\ Len(t) = Len(s) - 1 /\ \A i \in 1 .. Len(t) : t[i] = s[i + 1]
  BY HeadTailProperties
<1>2. Len(s) \in Nat \ {0} /\ DOMAIN s = 1 .. Len(s)
  BY EmptySeq, LenProperties
<1> HIDE DEF t
<1>3. DOMAIN t = 1 .. Len(t) /\ Len(t) \in Nat
  BY <1>1, LenProperties
<1>4. ASSUME IsInjective(s), NEW i \in 1 .. Len(t), NEW j \in 1 .. Len(t), t[i] = t[j]
      PROVE  i = j
  <2>1. i + 1 \in DOMAIN s /\ j + 1 \in DOMAIN s /\ s[i + 1] = s[j + 1]
    BY <1>1, <1>2, <1>4
  <2>2. i + 1 = j + 1
    BY <1>4, <2>1 DEF IsInjective
  <2> QED
    BY <2>2
<1>5. IsInjective(s) => IsInjective(t)
  BY <1>3, <1>4 DEF IsInjective
<1> QED
  BY <1>1, <1>5 DEF t

LruType(cache) == cache \in Seq(AllClips) /\ Len(cache) <= LruSize /\ IsInjective(cache)

LEMMA LruFacts ==
  ASSUME LruType(lru), NEW c \in AllClips
  PROVE  LruType(Lru(c))
<1> DEFINE w == Without(lru, c)
           after == Append(w, c)
<1>1. /\ w \in Seq(AllClips) /\ Len(w) \in Nat /\ Len(w) <= LruSize /\ LruSize \in Nat
      /\ IsInjective(w) /\ c \notin ToSet(w)
  <2>1. Len(lru) \in Nat
    BY LenProperties DEF LruType
  <2> QED
    BY <2>1, WithoutFacts, GalleryAssumption DEF LruType
<1> HIDE DEF w
<1>2. /\ after \in Seq(AllClips) /\ Len(after) = Len(w) + 1 /\ after # <<>>
      /\ IsInjective(after)
  BY <1>1, AppendProperties, ToSetAppend
<1> HIDE DEF after
<1>3. /\ Tail(after) \in Seq(AllClips) /\ Len(Tail(after)) = Len(after) - 1
      /\ IsInjective(Tail(after))
  BY <1>2, TailFacts
<1>4. Lru(c) = IF Len(after) > LruSize THEN Tail(after) ELSE after
  BY DEF Lru, after, w
<1> QED
  BY <1>1, <1>2, <1>3, <1>4 DEF LruType

-----------------------------------------------------------------------------
(***************************************************************************)
(* The invariant, in two parts.  What is shown: the gallery, the cache and *)
(* the manifest, which only a few operations touch.  That no list names a  *)
(* clip twice is said of the manifest too: a restart makes it the gallery. *)
(* And who waits: the thumbnail cache, the requests and the socket.        *)
(***************************************************************************)
LeftType == [thumbs : SUBSET AllClips, videos : SUBSET AllClips]

Shown ==
  /\ ring \in Seq(Clips) /\ Len(ring) <= RingSize
  /\ pinned \in Seq(Injected)
  /\ manifest \in Seq(AllClips) /\ IsInjective(manifest)
  /\ written \in BOOLEAN
  /\ left \in LeftType
  /\ thumbs \subseteq AllClips /\ videos \subseteq AllClips
  /\ OneEntryPerClip /\ SameGalleryAfterRestart /\ MediaOfGalleryOnly

Asked ==
  /\ LruType(lru)
  /\ warming \subseteq Clips
  /\ requests \in [Requests -> Request \cup {Free}]
  /\ client \in {"none", "left", "up", "dead"}
  /\ status \in {"connecting", "connected", "error"}
  /\ NobodyWaitsInVain

GalleryInv == Shown /\ Asked

LEMMA InvMeans == GalleryInv => TypeOK
<1> SUFFICES ASSUME GalleryInv PROVE TypeOK
  OBVIOUS
<1>1. pinned \o ring \in Seq(AllClips) /\ ToSet(pinned \o ring) \subseteq AllClips
  BY JoinFacts, ToSetType DEF GalleryInv, Shown
<1> QED
  BY <1>1 DEF GalleryInv, Shown, Asked, TypeOK, OneEntryPerClip, SameGalleryAfterRestart,
              Gallery, LruType, LeftType

LEMMA InitShown == Init => GalleryInv
<1> SUFFICES ASSUME Init PROVE GalleryInv
  OBVIOUS
<1>1. /\ ring = <<>> /\ pinned = <<>> /\ ids = {} /\ lru = <<>> /\ warming = {}
      /\ requests = [r \in Requests |-> Free]
      /\ client = "none" /\ status = "connecting"
      /\ cached = <<>> /\ manifest = <<>> /\ thumbs = {} /\ videos = {} /\ written = TRUE
      /\ left = [thumbs |-> {}, videos |-> {}]
  BY DEF Init
<1>2. /\ <<>> \in Seq(Clips) /\ <<>> \in Seq(Injected) /\ <<>> \in Seq(AllClips)
      /\ Len(<<>>) = 0 /\ <<>> \o <<>> = <<>> /\ ToSet(<<>>) = {} /\ IsInjective(<<>>)
  BY ToSetEmpty
<1>3. RingSize \in Nat /\ LruSize \in Nat
  BY GalleryAssumption
<1>4. Shown
  BY <1>1, <1>2, <1>3 DEF Shown, OneEntryPerClip, SameGalleryAfterRestart, MediaOfGalleryOnly,
                          Gallery, LeftType
<1>5. Asked
  BY <1>1, <1>2, <1>3 DEF Asked, LruType, NobodyWaitsInVain
<1> QED
  BY <1>4, <1>5 DEF GalleryInv

\* What is shown after a step that says what the two lists are.
LEMMA ShownAfter ==
  ASSUME NEW p \in Seq(Injected), NEW r \in Seq(Clips), Len(r) <= RingSize,
         IsInjective(p), IsInjective(r),
         pinned' = p, ring' = r, ids' = ToSet(p) \cup ToSet(r), cached' = p \o r,
         manifest' \in Seq(AllClips), IsInjective(manifest)', written' \in BOOLEAN,
         written' => manifest' = p \o r,
         left' \in LeftType,
         thumbs' \subseteq ToSet(p) \cup ToSet(r) \cup (left').thumbs,
         videos' \subseteq ToSet(p) \cup ToSet(r) \cup (left').videos
  PROVE  Shown'
<1>1. ToSet(p \o r) = ToSet(p) \cup ToSet(r) /\ IsInjective(p \o r)
  BY JoinFacts
<1>2. Gallery' = p \o r
  BY DEF Gallery
<1>3. OneEntryPerClip'
  BY <1>1, <1>2 DEF OneEntryPerClip
<1>4. SameGalleryAfterRestart'
  BY <1>2 DEF SameGalleryAfterRestart
<1>5. MediaOfGalleryOnly'
  BY <1>1, <1>2 DEF MediaOfGalleryOnly
<1>6. thumbs' \subseteq AllClips /\ videos' \subseteq AllClips
  <2>1. ToSet(p) \cup ToSet(r) \subseteq AllClips
    BY ToSetType DEF AllClips
  <2>2. (left').thumbs \subseteq AllClips /\ (left').videos \subseteq AllClips
    BY DEF LeftType
  <2> QED
    BY <2>1, <2>2
<1> QED
  BY <1>3, <1>4, <1>5, <1>6 DEF Shown

LEMMA PersistFacts ==
  ASSUME Shown, NEW k \in Seq(AllClips), IsInjective(k), Persist(k)
  PROVE  /\ manifest' \in Seq(AllClips) /\ IsInjective(manifest)'
         /\ written' \in BOOLEAN /\ (written' => manifest' = k)
BY DEF Shown, Persist

\* The lists as they are.
LEMMA ShownFacts ==
  ASSUME Shown
  PROVE  /\ pinned \in Seq(Injected) /\ ring \in Seq(Clips) /\ Len(ring) <= RingSize
         /\ IsInjective(pinned) /\ IsInjective(ring)
         /\ ids = ToSet(pinned) \cup ToSet(ring) /\ cached = pinned \o ring
         /\ cached \in Seq(AllClips) /\ ToSet(cached) = ids /\ IsInjective(cached)
         /\ left \in LeftType /\ thumbs \subseteq AllClips /\ videos \subseteq AllClips
         /\ thumbs \subseteq ids \cup left.thumbs /\ videos \subseteq ids \cup left.videos
         /\ ToSet(pinned) \subseteq Injected /\ ToSet(ring) \subseteq Clips
BY JoinFacts DEF Shown, OneEntryPerClip, SameGalleryAfterRestart, MediaOfGalleryOnly, Gallery

LEMMA ShownUntouched ==
  ASSUME Shown, UNCHANGED <<ring, pinned, ids, cached, manifest, thumbs, videos, written, left>>
  PROVE  Shown'
BY DEF Shown, OneEntryPerClip, SameGalleryAfterRestart, MediaOfGalleryOnly, Gallery

\* The files of the clips that are gone: removed, or known to be left.
LEMMA MediaDeleted ==
  ASSUME NEW gone, NEW kept, DeleteMedia(gone, kept), left \in LeftType,
         thumbs \subseteq AllClips, videos \subseteq AllClips,
         thumbs \subseteq kept \cup gone \cup left.thumbs,
         videos \subseteq kept \cup gone \cup left.videos
  PROVE  /\ left' \in LeftType
         /\ thumbs' \subseteq kept \cup (left').thumbs
         /\ videos' \subseteq kept \cup (left').videos
<1>1. thumbs' \subseteq thumbs /\ videos' \subseteq videos
  BY DEF DeleteMedia, Unlinked
<1>2. /\ left' = [thumbs |-> ((left.thumbs \cup gone) \cap thumbs') \ kept,
                  videos |-> ((left.videos \cup gone) \cap videos') \ kept]
  BY DEF DeleteMedia, Overdue
<1> QED
  BY <1>1, <1>2 DEF LeftType

-----------------------------------------------------------------------------
(***************************************************************************)
(* What is shown, operation by operation.                                  *)
(***************************************************************************)
LEMMA DiscoverShows ==
  ASSUME Shown, NEW c \in Clips, Discover(c)
  PROVE  Shown'
<1> DEFINE kept == Remember(c)
           r == Newest(<<c>> \o ring)
<1>1. /\ c \notin ids /\ ring' = r /\ pinned' = pinned
      /\ ids' = (ids \ Evicted(Len(ring) = RingSize)) \cup {c}
      /\ cached' = kept
      /\ DeleteMedia(ToSet(cached) \ ToSet(kept), ToSet(kept))
      /\ Persist(kept)
  BY DEF Discover
<1>2. /\ pinned \in Seq(Injected) /\ ring \in Seq(Clips) /\ Len(ring) <= RingSize
      /\ IsInjective(pinned) /\ IsInjective(ring)
      /\ ids = ToSet(pinned) \cup ToSet(ring) /\ cached = pinned \o ring
      /\ cached \in Seq(AllClips) /\ ToSet(cached) = ids
      /\ left \in LeftType /\ thumbs \subseteq AllClips /\ videos \subseteq AllClips
      /\ thumbs \subseteq ids \cup left.thumbs /\ videos \subseteq ids \cup left.videos
      /\ ToSet(pinned) \subseteq Injected /\ ToSet(ring) \subseteq Clips
  BY ShownFacts
<1>3. c \in AllClips /\ c \notin Injected
  BY GalleryAssumption DEF AllClips
<1>4. /\ <<c>> \o ring \in Seq(Clips) /\ Len(<<c>> \o ring) = Len(ring) + 1
      /\ ToSet(<<c>> \o ring) = {c} \cup ToSet(ring) /\ IsInjective(<<c>> \o ring)
  BY <1>1, <1>2, PrependFacts
<1>5. /\ r \in Seq(Clips) /\ Len(r) <= RingSize /\ IsInjective(r)
      /\ Len(<<c>> \o ring) <= RingSize => r = <<c>> \o ring
  BY <1>4, NewestFacts
<1>6. kept = pinned \o r
  <2>1. Without(cached, c) = pinned \o ring
    BY <1>1, <1>2, <1>3, WithoutFacts
  <2>2. Pinned(pinned \o ring) = pinned /\ Real(pinned \o ring) = ring
    BY <1>2, JoinFacts
  <2> QED
    BY <1>3, <2>1, <2>2 DEF Remember
<1>7. ids' = ToSet(pinned) \cup ToSet(r)
  <2>1. CASE Len(ring) = RingSize
    <3>1. ToSet(r) = {c} \cup (ToSet(ring) \ {Last(ring)})
      BY <1>2, <2>1, FullRing
    <3>2. Last(ring) \in Clips
      <4>1. Len(ring) \in 1 .. Len(ring)
        BY <2>1, GalleryAssumption
      <4> QED
        BY <1>2, <4>1, ElementOfSeq DEF Last
    <3>3. Last(ring) \notin ToSet(pinned)
      BY <1>2, <3>2, GalleryAssumption
    <3>4. ids' = (ids \ {Last(ring)}) \cup {c}
      BY <1>1, <2>1 DEF Evicted
    <3> QED
      BY <1>2, <3>1, <3>3, <3>4
  <2>2. CASE Len(ring) # RingSize
    <3>1. Len(ring) + 1 <= RingSize
      BY <1>2, <2>2, GalleryAssumption, LenProperties
    <3>2. r = <<c>> \o ring
      BY <1>4, <1>5, <3>1
    <3>3. ids' = ids \cup {c}
      BY <1>1, <2>2 DEF Evicted
    <3> QED
      BY <1>2, <1>4, <3>2, <3>3
  <2> QED
    BY <2>1, <2>2
<1> HIDE DEF kept, r
<1>8. /\ kept \in Seq(AllClips) /\ IsInjective(kept)
      /\ ToSet(kept) = ToSet(pinned) \cup ToSet(r)
  BY <1>2, <1>5, <1>6, JoinFacts
<1>9. /\ manifest' \in Seq(AllClips) /\ IsInjective(manifest)'
      /\ written' \in BOOLEAN /\ (written' => manifest' = kept)
  BY <1>1, <1>8, PersistFacts
<1>10. /\ left' \in LeftType
       /\ thumbs' \subseteq ToSet(pinned) \cup ToSet(r) \cup (left').thumbs
       /\ videos' \subseteq ToSet(pinned) \cup ToSet(r) \cup (left').videos
  BY <1>1, <1>2, <1>8, MediaDeleted
<1> QED
  BY <1>1, <1>2, <1>5, <1>6, <1>7, <1>9, <1>10, ShownAfter

LEMMA InjectShows ==
  ASSUME Shown, NEW c \in Injected, Inject(c)
  PROVE  Shown'
<1> DEFINE p == <<c>> \o pinned
<1>1. /\ c \notin ids /\ ring' = ring /\ pinned' = p /\ ids' = ids \cup {c}
      /\ cached' = Remember(c) /\ Persist(Remember(c))
      /\ thumbs' \subseteq thumbs \cup {c} /\ videos' \subseteq videos \cup {c} /\ left' = left
  BY DEF Inject
<1>2. /\ pinned \in Seq(Injected) /\ ring \in Seq(Clips) /\ Len(ring) <= RingSize
      /\ IsInjective(pinned) /\ IsInjective(ring)
      /\ ids = ToSet(pinned) \cup ToSet(ring) /\ cached = pinned \o ring
      /\ cached \in Seq(AllClips) /\ ToSet(cached) = ids
      /\ left \in LeftType /\ thumbs \subseteq AllClips /\ videos \subseteq AllClips
      /\ thumbs \subseteq ids \cup left.thumbs /\ videos \subseteq ids \cup left.videos
  BY ShownFacts
<1>3. c \in AllClips
  BY DEF AllClips
<1>4. p \in Seq(Injected) /\ ToSet(p) = {c} \cup ToSet(pinned) /\ IsInjective(p)
  BY <1>1, <1>2, PrependFacts
<1>5. Remember(c) = p \o ring
  <2>1. Without(cached, c) = pinned \o ring
    BY <1>1, <1>2, <1>3, WithoutFacts
  <2>2. <<c>> \o (pinned \o ring) = (<<c>> \o pinned) \o ring
    <3>1. <<c>> \in Seq(AllClips)
      BY <1>3
    <3>2. pinned \in Seq(AllClips) /\ ring \in Seq(AllClips)
      BY <1>2, JoinFacts
    <3> QED
      BY <3>1, <3>2, ConcatAssociative
  <2> QED
    BY <2>1, <2>2 DEF Remember
<1> HIDE DEF p
<1>6. p \o ring \in Seq(AllClips) /\ IsInjective(p \o ring)
  BY <1>2, <1>4, JoinFacts
<1>7. /\ manifest' \in Seq(AllClips) /\ IsInjective(manifest)'
      /\ written' \in BOOLEAN /\ (written' => manifest' = p \o ring)
  BY <1>1, <1>5, <1>6, PersistFacts
<1>8. /\ ids' = ToSet(p) \cup ToSet(ring) /\ left' \in LeftType
      /\ thumbs' \subseteq ToSet(p) \cup ToSet(ring) \cup (left').thumbs
      /\ videos' \subseteq ToSet(p) \cup ToSet(ring) \cup (left').videos
  BY <1>1, <1>2, <1>4
<1> QED
  BY <1>1, <1>2, <1>4, <1>5, <1>7, <1>8, ShownAfter

LEMMA RemoveShows ==
  ASSUME Shown, NEW c \in Injected, RemoveInjected(c)
  PROVE  Shown'
<1> DEFINE p == Without(pinned, c)
<1>1. /\ ring' = ring /\ pinned' = p /\ ids' = ids \ {c}
      /\ cached' = Without(cached, c) /\ Persist(Without(cached, c))
      /\ DeleteMedia({c}, ToSet(Without(cached, c)))
  BY DEF RemoveInjected
<1>2. /\ pinned \in Seq(Injected) /\ ring \in Seq(Clips) /\ Len(ring) <= RingSize
      /\ IsInjective(pinned) /\ IsInjective(ring)
      /\ ids = ToSet(pinned) \cup ToSet(ring) /\ cached = pinned \o ring
      /\ left \in LeftType /\ thumbs \subseteq AllClips /\ videos \subseteq AllClips
      /\ thumbs \subseteq ids \cup left.thumbs /\ videos \subseteq ids \cup left.videos
      /\ ToSet(ring) \subseteq Clips
  BY ShownFacts
<1>3. c \in AllClips /\ c \notin ToSet(ring)
  BY <1>2, GalleryAssumption DEF AllClips
<1>4. pinned \in Seq(AllClips) /\ ring \in Seq(AllClips)
  BY <1>2, JoinFacts
<1>5. p \in Seq(Injected)
  <2> DEFINE S == AllClips \ {c}
  <2>1. Sift(pinned, S) \in Seq(Injected)
    <3> HIDE DEF S
    <3> QED
      BY <1>2, SiftFacts
  <2> QED
    BY <2>1 DEF Without
<1>6. ToSet(p) = ToSet(pinned) \ {c} /\ IsInjective(p)
  BY <1>2, <1>3, <1>4, WithoutFacts
<1>7. Without(cached, c) = p \o ring
  <2> DEFINE S == AllClips \ {c}
  <2>1. Sift(pinned \o ring, S) = Sift(pinned, S) \o Sift(ring, S)
    <3> HIDE DEF S
    <3> QED
      BY <1>4, SiftConcat
  <2>2. Without(ring, c) = ring
    BY <1>3, <1>4, WithoutFacts
  <2> QED
    BY <1>2, <2>1, <2>2 DEF Without
<1> HIDE DEF p
<1>8. p \o ring \in Seq(AllClips) /\ IsInjective(p \o ring)
  BY <1>2, <1>5, <1>6, JoinFacts
<1>9. /\ manifest' \in Seq(AllClips) /\ IsInjective(manifest)'
      /\ written' \in BOOLEAN /\ (written' => manifest' = p \o ring)
  BY <1>1, <1>7, <1>8, PersistFacts
<1>10. ids' = ToSet(p) \cup ToSet(ring)
  BY <1>1, <1>2, <1>3, <1>6
<1>11. ToSet(p \o ring) = ToSet(p) \cup ToSet(ring)
  BY <1>2, <1>5, <1>6, JoinFacts
<1>12. ids \subseteq ToSet(p \o ring) \cup {c}
  BY <1>2, <1>6, <1>11
<1>13. /\ left' \in LeftType
       /\ thumbs' \subseteq ToSet(p \o ring) \cup (left').thumbs
       /\ videos' \subseteq ToSet(p \o ring) \cup (left').videos
  <2>1. DeleteMedia({c}, ToSet(p \o ring))
    BY <1>1, <1>7
  <2> QED
    BY <1>2, <1>12, <2>1, MediaDeleted
<1> QED
  BY <1>1, <1>2, <1>5, <1>6, <1>7, <1>9, <1>10, <1>11, <1>13, ShownAfter

LEMMA RestartShows ==
  ASSUME Shown, Restart
  PROVE  Shown'
<1> DEFINE p == Pinned(manifest)
           r == Newest(Real(manifest))
           loaded == p \o r
<1>1. /\ cached' = loaded
      /\ DeleteMedia((thumbs \cup videos) \ ToSet(loaded), ToSet(loaded))
      /\ ring' = Newest(Real(loaded)) /\ pinned' = Pinned(loaded)
      /\ ids' = ToSet(loaded) /\ written' = (manifest = loaded) /\ manifest' = manifest
  BY DEF Restart
<1>2. manifest \in Seq(AllClips) /\ IsInjective(manifest)
  BY DEF Shown
<1>3. AllClips \cap Injected = Injected /\ AllClips \cap Clips = Clips
  BY DEF AllClips
<1>4. p \in Seq(Injected) /\ IsInjective(p)
  BY <1>2, <1>3, SiftFacts DEF Pinned
<1>5. Real(manifest) \in Seq(Clips) /\ IsInjective(Real(manifest))
  BY <1>2, <1>3, SiftFacts DEF Real
<1>6. r \in Seq(Clips) /\ Len(r) <= RingSize /\ IsInjective(r)
  BY <1>5, NewestFacts
<1> HIDE DEF p, r
<1>7. /\ ToSet(loaded) = ToSet(p) \cup ToSet(r)
      /\ Pinned(loaded) = p /\ Real(loaded) = r
  BY <1>4, <1>6, JoinFacts
<1>8. Newest(r) = r
  BY <1>6, NewestFacts
<1>9. pinned' = p /\ ring' = r /\ ids' = ToSet(p) \cup ToSet(r) /\ cached' = p \o r
  BY <1>1, <1>7, <1>8
<1>10. /\ manifest' \in Seq(AllClips) /\ IsInjective(manifest)'
       /\ written' => manifest' = p \o r
  BY <1>1, <1>2
<1>11. written' \in BOOLEAN
  BY <1>1
<1>12. /\ left' \in LeftType
       /\ thumbs' \subseteq ToSet(p) \cup ToSet(r) \cup (left').thumbs
       /\ videos' \subseteq ToSet(p) \cup ToSet(r) \cup (left').videos
  <2> HIDE DEF loaded
  <2>1. left \in LeftType /\ thumbs \subseteq AllClips /\ videos \subseteq AllClips
    BY DEF Shown
  <2>2. /\ left' \in LeftType
        /\ thumbs' \subseteq ToSet(loaded) \cup (left').thumbs
        /\ videos' \subseteq ToSet(loaded) \cup (left').videos
    <3> DEFINE gone == (thumbs \cup videos) \ ToSet(loaded)
    <3>1. /\ thumbs \subseteq ToSet(loaded) \cup gone \cup left.thumbs
          /\ videos \subseteq ToSet(loaded) \cup gone \cup left.videos
      OBVIOUS
    <3>2. DeleteMedia(gone, ToSet(loaded))
      BY <1>1
    <3> HIDE DEF gone
    <3> QED
      BY <2>1, <3>1, <3>2, MediaDeleted
  <2> QED
    BY <1>7, <2>2
<1> HIDE DEF loaded
<1> QED
  BY <1>4, <1>6, <1>9, <1>10, <1>11, <1>12, ShownAfter

LEMMA LoseShows ==
  ASSUME Shown, LoseManifest
  PROVE  Shown'
<1>1. /\ manifest' = <<>> /\ written' = FALSE
      /\ UNCHANGED <<ring, pinned, ids, cached, thumbs, videos, left>>
  BY DEF LoseManifest, gallery
<1>2. <<>> \in Seq(AllClips) /\ IsInjective(<<>>)
  BY ToSetEmpty
<1> QED
  BY <1>1, <1>2 DEF Shown, OneEntryPerClip, SameGalleryAfterRestart, MediaOfGalleryOnly, Gallery

LEMMA SaveShows ==
  ASSUME Shown, NEW c \in AllClips,
         \/ thumbs' \in Save(thumbs, c) /\ videos' = videos
         \/ videos' \in Save(videos, c) /\ thumbs' = thumbs,
         UNCHANGED <<ring, pinned, ids, cached, manifest, written, left>>
  PROVE  Shown'
<1>1. /\ ToSet(cached) = ids /\ ids = ToSet(Gallery)
      /\ thumbs \subseteq ids \cup left.thumbs /\ videos \subseteq ids \cup left.videos
      /\ thumbs \subseteq AllClips /\ videos \subseteq AllClips
  BY ShownFacts DEF Shown, OneEntryPerClip
<1>2. /\ thumbs' \subseteq ids \cup left.thumbs /\ videos' \subseteq ids \cup left.videos
      /\ thumbs' \subseteq AllClips /\ videos' \subseteq AllClips
  BY <1>1 DEF Save
<1> QED
  BY <1>1, <1>2 DEF Shown, OneEntryPerClip, SameGalleryAfterRestart, MediaOfGalleryOnly, Gallery

-----------------------------------------------------------------------------
(***************************************************************************)
(* Who waits, operation by operation.                                      *)
(***************************************************************************)
LEMMA AskedUntouched ==
  ASSUME Asked, LruType(lru'), warming' \subseteq Clips, UNCHANGED <<requests, client, status>>
  PROVE  Asked'
BY DEF Asked, LruType, NobodyWaitsInVain, Connected

\* A slot that is freed, or was free.
LEMMA SlotFreed ==
  ASSUME Asked, LruType(lru'), UNCHANGED <<warming, client, status>>, NEW r \in Requests,
         requests' = [requests EXCEPT ![r] = Free]
  PROVE  Asked'
<1>1. Free.phase # "waiting"
  BY DEF Free
<1>2. requests' \in [Requests -> Request \cup {Free}]
  BY DEF Asked
<1>3. NobodyWaitsInVain'
  BY DEF Asked, NobodyWaitsInVain, Connected
<1> QED
  BY <1>2, <1>3 DEF Asked, LruType

LEMMA AskType ==
  ASSUME Asked, NEW r \in Requests, NEW c \in AllClips, NEW kind \in {"thumbnail", "video"},
         Ask(r, c, kind), UNCHANGED <<client, status>>
  PROVE  requests' \in [Requests -> Request \cup {Free}] /\ NobodyWaitsInVain'
<1>1. [phase |-> "waiting", clip |-> c, kind |-> kind] \in Request
  BY DEF Request
<1>2. Connected'
  BY DEF Ask, Connected
<1> QED
  BY <1>1, <1>2 DEF Ask, Asked, NobodyWaitsInVain

LEMMA FetchAsks ==
  ASSUME Asked, NEW r \in Requests, NEW c \in AllClips, GetThumbnail(r, c),
         warming' \subseteq Clips, UNCHANGED <<client, status>>
  PROVE  Asked'
<1>1. CASE lru' = Lru(c) /\ UNCHANGED requests
  <2>1. LruType(lru')
    BY <1>1, LruFacts DEF Asked
  <2> QED
    BY <1>1, <2>1, AskedUntouched
<1>2. CASE Ask(r, c, "thumbnail") /\ UNCHANGED lru
  <2>1. requests' \in [Requests -> Request \cup {Free}] /\ NobodyWaitsInVain'
    BY <1>2, AskType
  <2> QED
    BY <1>2, <2>1 DEF Asked, LruType
<1> QED
  BY <1>1, <1>2 DEF GetThumbnail

LEMMA LinkAsks ==
  ASSUME Asked, Connect \/ ConnectFails \/ Ready \/ StatusPush \/ Break
  PROVE  Asked'
<1>1. /\ UNCHANGED <<lru, warming, requests>>
      /\ client' \in {"none", "up", "dead"} /\ status' \in {"connecting", "connected", "error"}
  BY DEF Asked, Connect, ConnectFails, Ready, StatusPush, Break
<1>2. Connected => Connected'
  BY DEF Connect, ConnectFails, Ready, StatusPush, Break, Connected
<1>3. NobodyWaitsInVain'
  BY <1>1, <1>2 DEF Asked, NobodyWaitsInVain
<1> QED
  BY <1>1, <1>3 DEF Asked, LruType

LEMMA DropAsks ==
  ASSUME Asked, Dropped \/ Left
  PROVE  Asked'
<1>1. /\ UNCHANGED <<lru, warming>> /\ requests' = Failed
      /\ client' \in {"none", "left"} /\ status' \in {"connecting", "connected", "error"}
  BY DEF Asked, Dropped, Left
<1>2. \A r \in Requests : requests'[r] \in Request \cup {Free}
  BY <1>1 DEF Failed, Asked
<1>3. requests' \in [Requests -> Request \cup {Free}]
  BY <1>1, <1>2 DEF Failed
<1>4. NobodyWaitsInVain'
  <2>1. \A r \in Requests : requests'[r] = Free \/ requests'[r].phase # "waiting"
    BY <1>1 DEF Failed
  <2> QED
    BY <2>1 DEF NobodyWaitsInVain
<1> QED
  BY <1>1, <1>3, <1>4 DEF Asked, LruType

LEMMA AnswerAsks ==
  ASSUME Asked, NEW r \in Requests, Answer(r)
  PROVE  Asked'
<1> DEFINE q == requests[r]
<1>1. /\ client = "up" /\ q # Free
      /\ requests' = [requests EXCEPT ![r] = [q EXCEPT !.phase = "answered"]]
      /\ UNCHANGED <<lru, warming, client, status>>
  BY DEF Answer, link
<1>2. q \in Request
  BY <1>1 DEF Asked
<1>3. [q EXCEPT !.phase = "answered"] \in Request
  BY <1>2 DEF Request
<1>4. requests' \in [Requests -> Request \cup {Free}]
  BY <1>1, <1>3 DEF Asked
<1>5. NobodyWaitsInVain'
  BY <1>1 DEF NobodyWaitsInVain, Connected
<1> QED
  BY <1>1, <1>4, <1>5 DEF Asked, LruType

LEMMA UseAsks ==
  ASSUME Asked, NEW r \in Requests, UseThumbnail(r) \/ UseVideo(r) \/ GiveUp(r)
  PROVE  /\ Asked'
         /\ UseThumbnail(r) \/ UseVideo(r) => requests[r].clip \in AllClips
<1>1. /\ requests[r] # Free /\ requests' = [requests EXCEPT ![r] = Free]
      /\ UNCHANGED <<warming, client, status>>
      /\ lru' = lru \/ lru' = Lru(requests[r].clip)
  BY DEF UseThumbnail, UseVideo, GiveUp, link
<1>2. requests[r] \in Request
  BY <1>1 DEF Asked
<1>3. requests[r].clip \in AllClips
  BY <1>2 DEF Request
<1>4. LruType(lru')
  BY <1>1, <1>3, LruFacts DEF Asked
<1> QED
  BY <1>1, <1>3, <1>4, SlotFreed

LEMMA RestartAsks ==
  ASSUME Asked, Restart
  PROVE  Asked'
<1>1. /\ lru' = <<>> /\ warming' = {} /\ requests' = [r \in Requests |-> Free]
      /\ client' = "none" /\ status' = "connecting"
  BY DEF Restart
<1>2. LruType(<<>>)
  BY ToSetEmpty, GalleryAssumption DEF LruType
<1>3. NobodyWaitsInVain'
  BY <1>1 DEF NobodyWaitsInVain
<1> QED
  BY <1>1, <1>2, <1>3 DEF Asked

\* What the gallery's own operations do to the thumbnail cache.
LEMMA ClipAsks ==
  ASSUME Asked, NEW c \in AllClips,
         \/ c \in Clips /\ Discover(c)
         \/ Inject(c)
         \/ RemoveInjected(c)
  PROVE  Asked'
<1>1. /\ UNCHANGED <<requests, client, status>>
      /\ warming' = warming \/ (c \in Clips /\ warming' = warming \cup {c})
  BY DEF Discover, Inject, RemoveInjected, link
<1>2. warming' \subseteq Clips
  BY <1>1 DEF Asked
<1>3. LruType(lru')
  <2>1. CASE lru' = Lru(c)
    BY <2>1, LruFacts DEF Asked
  <2>2. ASSUME NEW S, lru' = Sift(lru, S)
        PROVE  LruType(lru')
    <3>1. lru \in Seq(AllClips) /\ IsInjective(lru) /\ Len(lru) <= LruSize /\ Len(lru) \in Nat
      BY LenProperties DEF Asked, LruType
    <3>2. /\ lru' \in Seq(AllClips) /\ IsInjective(lru') /\ Len(lru') <= Len(lru)
      BY <2>2, <3>1, SiftFacts
    <3>3. Len(lru') \in Nat /\ LruSize \in Nat
      BY <3>2, LenProperties, GalleryAssumption
    <3> QED
      BY <3>1, <3>2, <3>3 DEF LruType
  <2>3. \/ lru' = Lru(c)
        \/ lru' = Sift(lru, AllClips \ Evicted(Len(ring) = RingSize))
        \/ lru' = Sift(lru, AllClips \ {c})
    BY DEF Discover, Inject, RemoveInjected, Without
  <2> QED
    BY <2>1, <2>2, <2>3
<1> QED
  BY <1>1, <1>2, <1>3, AskedUntouched

-----------------------------------------------------------------------------
(***************************************************************************)
(* Every step.                                                             *)
(***************************************************************************)
LEMMA StepKeepsShown == GalleryInv /\ [Next]_vars => Shown'
<1> SUFFICES ASSUME Shown, Asked, [Next]_vars PROVE Shown'
  BY DEF GalleryInv
<1>1. ASSUME NEW c \in Clips, Discover(c) PROVE Shown'
  BY <1>1, DiscoverShows
<1>2. ASSUME NEW c \in Injected, Inject(c) \/ RemoveInjected(c) PROVE Shown'
  BY <1>2, InjectShows, RemoveShows
<1>3. ASSUME NEW r \in Requests, UseThumbnail(r) \/ UseVideo(r) PROVE Shown'
  <2>1. requests[r].clip \in AllClips
    BY <1>3, UseAsks
  <2>2. /\ \/ thumbs' \in Save(thumbs, requests[r].clip) /\ videos' = videos
           \/ videos' \in Save(videos, requests[r].clip) /\ thumbs' = thumbs
        /\ UNCHANGED <<ring, pinned, ids, cached, manifest, written, left>>
    BY <1>3 DEF UseThumbnail, UseVideo, gallery
  <2> QED
    BY <2>1, <2>2, SaveShows
<1>4. CASE Restart
  BY <1>4, RestartShows
<1>5. CASE LoseManifest
  BY <1>5, LoseShows
<1>6. ASSUME \/ Connect \/ ConnectFails \/ Ready \/ StatusPush \/ Break \/ Dropped \/ Left
             \/ \E r \in Requests : Answer(r) \/ GiveUp(r)
             \/ \E r \in Requests, c \in AllClips :
                  KioskThumbnail(r, c) \/ KioskVideo(r, c) \/ Prefetch(r, c)
             \/ UNCHANGED vars
      PROVE  Shown'
  <2>1. UNCHANGED <<ring, pinned, ids, cached, manifest, thumbs, videos, written, left>>
    BY <1>6 DEF Connect, ConnectFails, Ready, StatusPush, Break, Dropped, Left, Answer, GiveUp,
                KioskThumbnail, KioskVideo, Prefetch, vars, gallery, disk
  <2> QED
    BY <2>1, ShownUntouched
<1>7. \A c \in Clips : c \in AllClips
  BY DEF AllClips
<1> QED
  BY <1>1, <1>2, <1>3, <1>4, <1>5, <1>6, <1>7 DEF Next, Bridge, Kiosk, EventLoop

LEMMA StepKeepsAsked == GalleryInv /\ [Next]_vars => Asked'
<1> SUFFICES ASSUME Shown, Asked, [Next]_vars PROVE Asked'
  BY DEF GalleryInv
<1>1. CASE Connect \/ ConnectFails \/ Ready \/ StatusPush \/ Break
  BY <1>1, LinkAsks
<1>2. CASE Dropped \/ Left
  BY <1>2, DropAsks
<1>3. \A c \in AllClips : c \in Clips /\ Discover(c) => Asked'
  BY ClipAsks
<1>4. \A c \in AllClips : Inject(c) \/ RemoveInjected(c) => Asked'
  BY ClipAsks
<1>5. ASSUME NEW r \in Requests, Answer(r) PROVE Asked'
  BY <1>5, AnswerAsks
<1>6. ASSUME NEW r \in Requests, UseThumbnail(r) \/ UseVideo(r) \/ GiveUp(r) PROVE Asked'
  BY <1>6, UseAsks
<1>7. ASSUME NEW r \in Requests, NEW c \in AllClips, KioskThumbnail(r, c) PROVE Asked'
  <2>1. GetThumbnail(r, c) /\ warming' = warming /\ UNCHANGED <<client, status>>
    BY <1>7 DEF KioskThumbnail, link
  <2>2. warming' \subseteq Clips
    BY <2>1 DEF Asked
  <2> QED
    BY <2>1, <2>2, FetchAsks
<1>8. ASSUME NEW r \in Requests, NEW c \in AllClips, KioskVideo(r, c) PROVE Asked'
  <2>1. Ask(r, c, "video") /\ UNCHANGED <<lru, warming, client, status>>
    BY <1>8 DEF KioskVideo, link
  <2>2. requests' \in [Requests -> Request \cup {Free}] /\ NobodyWaitsInVain'
    BY <2>1, AskType
  <2> QED
    BY <2>1, <2>2 DEF Asked, LruType
<1>9. ASSUME NEW r \in Requests, NEW c \in AllClips, Prefetch(r, c) PROVE Asked'
  <2>1. warming' = warming \ {c} /\ UNCHANGED <<client, status>>
    BY <1>9 DEF Prefetch, link
  <2>2. warming' \subseteq Clips
    BY <2>1 DEF Asked
  <2>3. CASE GetThumbnail(r, c)
    BY <2>1, <2>2, <2>3, FetchAsks
  <2>4. CASE UNCHANGED <<lru, requests>>
    <3>1. LruType(lru')
      BY <2>4 DEF Asked
    <3> QED
      BY <2>1, <2>2, <2>4, <3>1, AskedUntouched
  <2> QED
    BY <1>9, <2>3, <2>4 DEF Prefetch
<1>10. CASE Restart
  BY <1>10, RestartAsks
<1>11. CASE LoseManifest \/ UNCHANGED vars
  <2>1. UNCHANGED <<lru, warming, requests, client, status>>
    BY <1>11 DEF LoseManifest, vars, link
  <2> QED
    BY <2>1, AskedUntouched DEF Asked
<1>12. Clips \subseteq AllClips /\ Injected \subseteq AllClips
  BY DEF AllClips
<1> QED
  BY <1>1, <1>2, <1>3, <1>4, <1>5, <1>6, <1>7, <1>8, <1>9, <1>10, <1>11, <1>12
     DEF Next, Bridge, Kiosk, EventLoop

\* Every reachable state of service, cache and directory satisfies the invariant.
THEOREM GalleryInvariant == Spec => []GalleryInv
<1>1. Init => GalleryInv
  BY InitShown
<1>2. GalleryInv /\ [Next]_vars => GalleryInv'
  BY StepKeepsShown, StepKeepsAsked DEF GalleryInv
<1> QED
  BY <1>1, <1>2, PTL DEF Spec

-----------------------------------------------------------------------------
(***************************************************************************)
(* The theorems.                                                           *)
(***************************************************************************)
\* Every variable has its type: the ring of camera clips and the thumbnail
\* cache stay within their capacities, and the cache holds no clip twice.
THEOREM GalleryTypeCorrect == Spec => []TypeOK
BY GalleryInvariant, InvMeans, PTL

\* A clip is in the gallery once, and the ids has_clip looks in are exactly
\* the clips of the ring and the pinned ones: through evictions, injections,
\* removals and restarts, however full the ring is.
THEOREM NoClipTwice == Spec => []OneEntryPerClip
<1>1. GalleryInv => OneEntryPerClip
  BY DEF GalleryInv, Shown
<1> QED
  BY <1>1, GalleryInvariant, PTL

\* The cache keeps exactly the gallery, in its order, and so does the manifest
\* unless its last write failed: two lists that are bounded and evicted by
\* different code, service and cache, never drift apart.
THEOREM RestartShowsTheSame == Spec => []SameGalleryAfterRestart
<1>1. GalleryInv => SameGalleryAfterRestart
  BY DEF GalleryInv, Shown
<1> QED
  BY <1>1, GalleryInvariant, PTL

\* There is media only of the clips in the gallery and of those whose files an
\* unlink failed to remove, although an answer may be used long after its clip
\* was evicted or removed.
THEOREM DirectoryBounded == Spec => []MediaOfGalleryOnly
<1>1. GalleryInv => MediaOfGalleryOnly
  BY DEF GalleryInv, Shown
<1> QED
  BY <1>1, GalleryInvariant, PTL

\* A request waits only while there is a client that could bring its answer:
\* the loss of the socket settles every one that waits.
THEOREM NobodyIsForgotten == Spec => []NobodyWaitsInVain
<1>1. GalleryInv => NobodyWaitsInVain
  BY DEF GalleryInv, Asked
<1> QED
  BY <1>1, GalleryInvariant, PTL
=============================================================================
