---------------------------- MODULE ListingProofs ----------------------------
(***************************************************************************)
(* That a listing read page by page loses nothing that stays, repeats      *)
(* nothing and makes nothing up, for every set of keys, every request,     *)
(* every size of the pages and every number of writes in between.          *)
(***************************************************************************)
EXTENDS Listing, SequenceTheorems, FiniteSetTheorems, WellFoundedInduction, TLAPS

------------------------------------------------------------------------------
(* Least elements.                                                         *)

\* The order of the numbers as a relation.
LEMMA NatOrder ==
  \E R : IsWellFoundedOn(R, Nat) /\ \A x, y \in Nat : <<y, x>> \in R <=> y < x
<1> DEFINE R == OpToRel(<, Nat)
<1>1. IsWellFoundedOn(R, Nat)
  BY NatLessThanWellFounded
<1>2. \A x, y \in Nat : <<y, x>> \in R <=> y < x
  BY DEF OpToRel
<1> QED
  BY <1>1, <1>2, Zenon

\* A nonempty set of numbers has a least one.
LEMMA LeastNumber ==
  ASSUME NEW T, T \subseteq Nat, T # {}
  PROVE  \E x \in T : \A y \in T : x <= y
<1>1. PICK R : IsWellFoundedOn(R, Nat) /\ \A x, y \in Nat : <<y, x>> \in R <=> y < x
  BY NatOrder
<1>2. PICK x \in T : \A y \in T : ~ (<<y, x>> \in R)
  BY <1>1, WFMin
<1>3. ASSUME NEW y \in T
      PROVE  x <= y
  <2>1. x \in Nat /\ y \in Nat
    OBVIOUS
  <2>2. ~ (<<y, x>> \in R)
    BY <1>2
  <2>3. ~ (y < x)
    BY <1>1, <2>1, <2>2, Zenon
  <2> QED
    BY <2>1, <2>3
<1> QED
  BY <1>3

------------------------------------------------------------------------------
(* The order of byte strings.  At counts every string as infinite, with 0  *)
(* past its end, so that a prefix needs no case of its own.                *)

Strings == Seq(Nat)

Positions == Nat \ {0}

At(s, i) == IF i \in 1..Len(s) THEN s[i] + 1 ELSE 0

\* s and t agree before i.
Agree(s, t, i) == \A j \in 1..(i - 1) : At(s, j) = At(t, j)

\* i is the first place where s and t differ, and s is less there.
LessFrom(s, t, i) == At(s, i) < At(t, i) /\ Agree(s, t, i)

LEMMA StringIs ==
  ASSUME NEW s \in Strings
  PROVE  /\ Len(s) \in Nat /\ DOMAIN s = 1..Len(s)
         /\ \A i \in 1..Len(s) : s[i] \in Nat /\ At(s, i) = s[i] + 1
         /\ \A i \in Positions : At(s, i) \in Nat
         /\ \A i \in Positions : At(s, i) = 0 <=> i > Len(s)
<1>1. Len(s) \in Nat /\ DOMAIN s = 1..Len(s)
  BY LenProperties DEF Strings
<1>2. \A i \in 1..Len(s) : s[i] \in Nat
  BY ElementOfSeq DEF Strings
<1> QED
  BY <1>1, <1>2 DEF At, Positions

\* Strings that agree everywhere are equal.
LEMMA SameString ==
  ASSUME NEW s \in Strings, NEW t \in Strings, \A i \in Positions : At(s, i) = At(t, i)
  PROVE  s = t
<1>1. Len(s) = Len(t)
  <2>1. Len(s) + 1 \in Positions /\ Len(t) + 1 \in Positions
    BY StringIs DEF Positions
  <2>2. Len(t) < Len(s) + 1 /\ Len(s) < Len(t) + 1
    BY <2>1, StringIs
  <2> QED
    BY <2>2, StringIs
<1>2. \A i \in 1..Len(s) : s[i] = t[i]
  <2> SUFFICES ASSUME NEW i \in 1..Len(s)
               PROVE  s[i] = t[i]
    OBVIOUS
  <2>1. i \in Positions /\ i \in 1..Len(t)
    BY <1>1, StringIs DEF Positions
  <2> QED
    BY <2>1, StringIs
<1> QED
  BY <1>1, <1>2, SeqEqual DEF Strings

\* IsPrefix by elements, and by positions.
LEMMA PrefixIs ==
  ASSUME NEW s \in Strings, NEW t \in Strings
  PROVE  /\ IsPrefix(s, t) <=> Len(s) <= Len(t) /\ \A i \in 1..Len(s) : s[i] = t[i]
         /\ IsPrefix(s, t) <=> \A i \in 1..Len(s) : At(s, i) = At(t, i)
<1>1. Len(s) \in Nat /\ Len(t) \in Nat
  BY StringIs
<1>2. SubSeq(s, 1, Len(s)) = s
  BY SubSeqFull DEF Strings
<1>3. ASSUME Len(s) <= Len(t)
      PROVE  /\ SubSeq(t, 1, Len(s)) \in Strings
             /\ Len(SubSeq(t, 1, Len(s))) = Len(s)
             /\ \A i \in 1..Len(s) : SubSeq(t, 1, Len(s))[i] = t[i]
  <2> DEFINE u == SubSeq(t, 1, Len(s))
  <2>1. CASE Len(s) = 0
    <3>1. u = <<>>
      BY <2>1, SubSeqEmpty DEF Strings
    <3> QED
      BY <2>1, <3>1, EmptySeq DEF Strings
  <2>2. CASE Len(s) > 0
    <3>1. 1 \in 1..Len(t) + 1 /\ Len(s) \in 0..Len(t)
      BY <1>1, <1>3
    <3> QED
      BY <1>1, <1>3, <2>2, <3>1, SubSeqProperties DEF Strings
  <2> QED
    BY <1>1, <2>1, <2>2
<1>4. IsPrefix(s, t) <=> Len(s) <= Len(t) /\ \A i \in 1..Len(s) : s[i] = t[i]
  <2>1. ASSUME IsPrefix(s, t)
        PROVE  Len(s) <= Len(t) /\ \A i \in 1..Len(s) : s[i] = t[i]
    BY <1>2, <1>3, <2>1 DEF IsPrefix
  <2>2. ASSUME Len(s) <= Len(t), \A i \in 1..Len(s) : s[i] = t[i]
        PROVE  IsPrefix(s, t)
    <3>1. SubSeq(t, 1, Len(s)) = s
      BY <1>3, <2>2, SeqEqual DEF Strings
    <3> QED
      BY <1>2, <2>2, <3>1 DEF IsPrefix
  <2> QED
    BY <2>1, <2>2
<1>5. ASSUME \A i \in 1..Len(s) : At(s, i) = At(t, i)
      PROVE  Len(s) <= Len(t) /\ \A i \in 1..Len(s) : s[i] = t[i]
  <2>1. Len(s) <= Len(t)
    <3> SUFFICES ASSUME Len(s) > Len(t)
                 PROVE  FALSE
      BY <1>1
    <3>1. Len(s) \in 1..Len(s) /\ Len(s) \in Positions
      BY <1>1 DEF Positions
    <3> QED
      BY <1>1, <1>5, <3>1, StringIs
  <2>2. ASSUME NEW i \in 1..Len(s)
        PROVE  s[i] = t[i]
    <3>1. i \in 1..Len(t)
      BY <1>1, <2>1
    <3> QED
      BY <1>5, <3>1, StringIs
  <2> QED
    BY <2>1, <2>2
<1>6. ASSUME Len(s) <= Len(t), \A i \in 1..Len(s) : s[i] = t[i]
      PROVE  \A i \in 1..Len(s) : At(s, i) = At(t, i)
  BY <1>1, <1>6 DEF At
<1> QED
  BY <1>4, <1>5, <1>6

\* Less is the order at the first difference.
LEMMA LessIs ==
  ASSUME NEW s \in Strings, NEW t \in Strings
  PROVE  Less(s, t) <=> \E i \in Positions : LessFrom(s, t, i)
<1>1. Len(s) \in Nat /\ Len(t) \in Nat /\ DOMAIN s = 1..Len(s) /\ DOMAIN t = 1..Len(t)
  BY StringIs
<1>2. ASSUME IsStrictPrefix(s, t)
      PROVE  \E i \in Positions : LessFrom(s, t, i)
  <2>1. IsPrefix(s, t) /\ s # t
    BY <1>2 DEF IsStrictPrefix
  <2>2. Len(s) < Len(t)
    <3>1. Len(s) # Len(t)
      BY <2>1, PrefixIs, SeqEqual DEF Strings
    <3>2. Len(s) <= Len(t)
      BY <2>1, PrefixIs
    <3>3. Len(s) \in Nat /\ Len(t) \in Nat
      BY <1>1
    <3> QED
      BY <3>1, <3>2, <3>3
  <2>3. Len(s) + 1 \in Positions
    BY <1>1 DEF Positions
  <2>4. At(s, Len(s) + 1) < At(t, Len(s) + 1)
    BY <1>1, <2>2, <2>3, StringIs
  <2>5. Agree(s, t, Len(s) + 1)
    BY <1>1, <2>1, PrefixIs DEF Agree
  <2> QED
    BY <2>3, <2>4, <2>5 DEF LessFrom
<1>3. ASSUME NEW i \in DOMAIN s \cap DOMAIN t, s[i] < t[i],
             \A j \in 1..(i - 1) : s[j] = t[j]
      PROVE  \E x \in Positions : LessFrom(s, t, x)
  <2>1. i \in Positions /\ i \in 1..Len(s) /\ i \in 1..Len(t)
    BY <1>1 DEF Positions
  <2>2. At(s, i) < At(t, i)
    BY <1>3, <2>1, StringIs
  <2>3. Agree(s, t, i)
    BY <1>1, <1>3, <2>1 DEF Agree, At
  <2> QED
    BY <2>1, <2>2, <2>3 DEF LessFrom
<1>4. ASSUME NEW i \in Positions, LessFrom(s, t, i)
      PROVE  Less(s, t)
  <2>1. i \in Nat /\ i >= 1 /\ At(s, i) \in Nat /\ At(t, i) \in Nat /\ At(s, i) < At(t, i)
    BY <1>4, StringIs DEF LessFrom, Positions
  <2>2. i <= Len(t)
    BY <1>1, <2>1, StringIs
  <2>3. CASE i <= Len(s)
    <3>1. i \in 1..Len(s) /\ i \in 1..Len(t)
      BY <1>1, <2>1, <2>2, <2>3
    <3>2. s[i] < t[i]
      BY <2>1, <3>1, StringIs
    <3>3. ASSUME NEW j \in 1..(i - 1)
          PROVE  s[j] = t[j]
      <4>1. j \in 1..Len(s) /\ j \in 1..Len(t)
        BY <1>1, <2>1, <3>1
      <4>2. At(s, j) = At(t, j)
        BY <1>4 DEF LessFrom, Agree
      <4> QED
        BY <4>1, <4>2, StringIs
    <3> QED
      BY <1>1, <3>1, <3>2, <3>3 DEF Less
  <2>4. CASE i > Len(s)
    <3>1. i = Len(s) + 1
      <4> SUFFICES ASSUME i > Len(s) + 1
                   PROVE  FALSE
        BY <1>1, <2>1, <2>4
      <4>1. Len(s) + 1 \in 1..(i - 1) /\ Len(s) + 1 \in Positions
        BY <1>1, <2>1 DEF Positions
      <4>2. At(s, Len(s) + 1) = At(t, Len(s) + 1)
        BY <1>4, <4>1 DEF LessFrom, Agree
      <4> QED
        BY <1>1, <2>1, <2>2, <4>1, <4>2, StringIs
    <3>2. IsPrefix(s, t)
      BY <1>1, <1>4, <3>1, PrefixIs DEF LessFrom, Agree
    <3>3. s # t
      BY <1>1, <2>2, <3>1
    <3> QED
      BY <3>2, <3>3 DEF Less, IsStrictPrefix
  <2> QED
    BY <1>1, <2>1, <2>3, <2>4
<1> QED
  BY <1>2, <1>3, <1>4 DEF Less

\* Less is a strict total order.
LEMMA LessIrreflexive ==
  ASSUME NEW s \in Strings
  PROVE  ~ Less(s, s)
<1> SUFFICES ASSUME NEW i \in Positions, LessFrom(s, s, i)
             PROVE  FALSE
  BY LessIs
<1> QED
  BY StringIs DEF LessFrom

LEMMA LessTransitive ==
  ASSUME NEW s \in Strings, NEW t \in Strings, NEW u \in Strings, Less(s, t), Less(t, u)
  PROVE  Less(s, u)
<1>1. PICK i \in Positions : LessFrom(s, t, i)
  BY LessIs
<1>2. PICK j \in Positions : LessFrom(t, u, j)
  BY LessIs
<1>3. PICK x \in Positions : x <= i /\ x <= j /\ (x = i \/ x = j)
  BY DEF Positions
<1>4. At(s, x) \in Nat /\ At(t, x) \in Nat /\ At(u, x) \in Nat
  BY StringIs
<1>5. \/ x = i
      \/ x \in 1..(i - 1)
  BY <1>3 DEF Positions
<1>6. \/ x = j
      \/ x \in 1..(j - 1)
  BY <1>3 DEF Positions
<1>7. At(s, x) <= At(t, x) /\ (x = i => At(s, x) < At(t, x))
  BY <1>1, <1>4, <1>5 DEF LessFrom, Agree
<1>8. At(t, x) <= At(u, x) /\ (x = j => At(t, x) < At(u, x))
  BY <1>2, <1>4, <1>6 DEF LessFrom, Agree
<1>9. At(s, x) < At(u, x)
  BY <1>3, <1>4, <1>7, <1>8
<1>10. ASSUME NEW y \in 1..(x - 1)
       PROVE  At(s, y) = At(u, y)
  <2>1. y \in 1..(i - 1) /\ y \in 1..(j - 1)
    BY <1>3 DEF Positions
  <2> QED
    BY <1>1, <1>2, <2>1 DEF LessFrom, Agree
<1> QED
  BY <1>9, <1>10, LessIs DEF LessFrom, Agree

\* Strings that differ before a place differ at a first one.
LEMMA FirstDifference ==
  ASSUME NEW s \in Strings, NEW t \in Strings, NEW i \in Positions, At(s, i) # At(t, i)
  PROVE  \E x \in Positions : x <= i /\ (LessFrom(s, t, x) \/ LessFrom(t, s, x))
<1> DEFINE T == {x \in Positions : At(s, x) # At(t, x)}
<1>1. T \subseteq Nat /\ i \in T
  BY DEF Positions
<1>2. PICK x \in T : \A y \in T : x <= y
  BY <1>1, LeastNumber
<1>3. x \in Positions /\ At(s, x) # At(t, x) /\ x <= i
  BY <1>1, <1>2
<1>4. At(s, x) < At(t, x) \/ At(t, x) < At(s, x)
  BY <1>3, StringIs
<1>5. ASSUME NEW y \in 1..(x - 1)
      PROVE  At(s, y) = At(t, y)
  <2>1. y \in Positions /\ ~ (x <= y)
    BY <1>3 DEF Positions
  <2> QED
    BY <1>2, <2>1
<1> QED
  BY <1>3, <1>4, <1>5 DEF LessFrom, Agree

LEMMA LessTotal ==
  ASSUME NEW s \in Strings, NEW t \in Strings
  PROVE  s = t \/ Less(s, t) \/ Less(t, s)
<1> SUFFICES ASSUME s # t
             PROVE  Less(s, t) \/ Less(t, s)
  OBVIOUS
<1>1. PICK i \in Positions : At(s, i) # At(t, i)
  BY SameString
<1> QED
  BY <1>1, FirstDifference, LessIs

LEMMA LessAsymmetric ==
  ASSUME NEW s \in Strings, NEW t \in Strings, Less(s, t)
  PROVE  ~ Less(t, s) /\ s # t
BY LessTransitive, LessIrreflexive

\* Not less than s and less than u, and so on.
LEMMA LessMixed ==
  ASSUME NEW s \in Strings, NEW t \in Strings, NEW u \in Strings
  PROVE  /\ ~ Less(t, s) /\ Less(t, u) => Less(s, u)
         /\ Less(s, t) /\ ~ Less(u, t) => Less(s, u)
<1>1. s = t \/ Less(s, t) \/ Less(t, s)
  BY LessTotal
<1>2. t = u \/ Less(t, u) \/ Less(u, t)
  BY LessTotal
<1> QED
  BY <1>1, <1>2, LessTransitive

\* Where a string is less than another, it has not ended before.
LEMMA LessWitness ==
  ASSUME NEW s \in Strings, NEW t \in Strings, NEW i \in Positions, LessFrom(s, t, i)
  PROVE  i \in 1..Len(t) /\ i <= Len(s) + 1
<1>1. i \in Nat /\ i >= 1 /\ Len(s) \in Nat /\ Len(t) \in Nat
  BY StringIs DEF Positions
<1>2. At(t, i) > At(s, i) /\ At(s, i) \in Nat /\ At(t, i) \in Nat
  BY StringIs DEF LessFrom
<1>3. i <= Len(t)
  BY <1>1, <1>2, StringIs
<1>4. i <= Len(s) + 1
  <2> SUFFICES ASSUME i > Len(s) + 1
               PROVE  FALSE
    BY <1>1
  <2>1. Len(s) + 1 \in 1..(i - 1) /\ Len(s) + 1 \in Positions
    BY <1>1 DEF Positions
  <2>2. At(s, Len(s) + 1) = At(t, Len(s) + 1)
    BY <2>1 DEF LessFrom, Agree
  <2> QED
    BY <1>1, <1>3, <2>1, <2>2, StringIs
<1> QED
  BY <1>1, <1>3, <1>4

------------------------------------------------------------------------------
(* Prefixes in that order.                                                 *)

LEMMA PrefixReflexive ==
  ASSUME NEW s \in Strings
  PROVE  IsPrefix(s, s)
BY PrefixIs

LEMMA PrefixTransitive ==
  ASSUME NEW p \in Strings, NEW q \in Strings, NEW k \in Strings,
         IsPrefix(p, q), IsPrefix(q, k)
  PROVE  IsPrefix(p, k)
<1>1. Len(p) \in Nat /\ Len(q) \in Nat /\ Len(k) \in Nat
  BY StringIs
<1>2. Len(p) <= Len(q) /\ Len(q) <= Len(k)
  BY PrefixIs
<1>3. \A i \in 1..Len(p) : p[i] = q[i]
  BY PrefixIs
<1>4. \A i \in 1..Len(q) : q[i] = k[i]
  BY PrefixIs
<1>5. \A i \in 1..Len(p) : p[i] = k[i]
  BY <1>1, <1>2, <1>3, <1>4
<1> QED
  BY <1>1, <1>2, <1>5, PrefixIs

\* Of two prefixes of a string the shorter is a prefix of the longer.
LEMMA PrefixesNest ==
  ASSUME NEW p \in Strings, NEW q \in Strings, NEW k \in Strings,
         IsPrefix(p, k), IsPrefix(q, k), Len(p) <= Len(q)
  PROVE  IsPrefix(p, q)
<1>1. Len(p) \in Nat /\ Len(q) \in Nat /\ Len(k) \in Nat
  BY StringIs
<1>3. \A i \in 1..Len(p) : p[i] = k[i]
  BY PrefixIs
<1>4. \A i \in 1..Len(q) : q[i] = k[i]
  BY PrefixIs
<1>5. \A i \in 1..Len(p) : p[i] = q[i]
  BY <1>1, <1>3, <1>4
<1> QED
  BY <1>1, <1>5, PrefixIs

\* A prefix comes before what it begins.
LEMMA PrefixFirst ==
  ASSUME NEW p \in Strings, NEW k \in Strings, IsPrefix(p, k)
  PROVE  p = k \/ Less(p, k)
BY DEF Less, IsStrictPrefix

\* What does not come before p and does not begin with it comes after all that does.
LEMMA BeyondPrefix ==
  ASSUME NEW p \in Strings, NEW k \in Strings, NEW s \in Strings,
         IsPrefix(p, k), ~ IsPrefix(p, s), ~ Less(s, p)
  PROVE  Less(k, s)
<1>1. PICK i \in 1..Len(p) : At(p, i) # At(s, i)
  BY PrefixIs
<1>2. i \in Positions /\ i <= Len(p)
  BY StringIs DEF Positions
<1>3. PICK x \in Positions : x <= i /\ (LessFrom(p, s, x) \/ LessFrom(s, p, x))
  BY <1>1, <1>2, FirstDifference
<1>4. LessFrom(p, s, x)
  BY <1>3, LessIs
<1>5. ASSUME NEW y \in 1..x
      PROVE  At(k, y) = At(p, y)
  <2>1. y \in 1..Len(p)
    BY <1>2, <1>3, StringIs DEF Positions
  <2> QED
    BY <2>1, PrefixIs
<1>6. x \in 1..x /\ \A y \in 1..(x - 1) : y \in 1..x
  BY DEF Positions
<1>7. LessFrom(k, s, x)
  BY <1>4, <1>5, <1>6 DEF LessFrom, Agree
<1> QED
  BY <1>7, LessIs

\* Between a prefix of k and k everything begins with the prefix.
LEMMA BetweenPrefix ==
  ASSUME NEW p \in Strings, NEW n \in Strings, NEW k \in Strings,
         IsPrefix(p, k), ~ Less(n, p), Less(n, k)
  PROVE  IsPrefix(p, n)
BY BeyondPrefix, LessAsymmetric

------------------------------------------------------------------------------
(* Row keys and the places where a scan begins.                            *)

Stored(k, v) == k \o <<0, v>>

LEMMA NameIs ==
  ASSUME NEW k \in Names
  PROVE  k \in Strings /\ Len(k) \in Nat /\ \A i \in 1..Len(k) : At(k, i) >= 2
<1>1. k \in Strings
  <2>1. Bytes \subseteq Nat
    BY DEF Bytes
  <2> QED
    BY <2>1, SeqMonotonic DEF Names, Strings
<1>2. \A i \in 1..Len(k) : k[i] \in 1..254
  BY ElementOfSeq DEF Names, Bytes
<1>3. Len(k) \in Nat /\ \A i \in 1..Len(k) : At(k, i) = k[i] + 1
  BY <1>1, StringIs
<1>4. ASSUME NEW i \in 1..Len(k)
      PROVE  At(k, i) >= 2
  <2>1. k[i] \in 1..254
    BY <1>2
  <2>2. At(k, i) = k[i] + 1
    BY <1>3
  <2>3. PICK x \in 1..254 : At(k, i) = x + 1
    BY <2>1, <2>2
  <2> QED
    BY <2>3
<1> QED
  BY <1>1, <1>3, <1>4

LEMMA ConcatAt ==
  ASSUME NEW s \in Strings, NEW t \in Strings
  PROVE  /\ s \o t \in Strings /\ Len(s \o t) = Len(s) + Len(t)
         /\ \A i \in 1..Len(s) : At(s \o t, i) = At(s, i)
         /\ \A i \in 1..Len(t) : At(s \o t, Len(s) + i) = At(t, i)
<1> DEFINE u == s \o t
<1>1. /\ u \in Strings /\ Len(u) = Len(s) + Len(t)
      /\ \A i \in 1..Len(s) : u[i] = s[i]
      /\ \A i \in 1..Len(t) : u[Len(s) + i] = t[i]
  <2>1. /\ u \in Strings /\ Len(u) = Len(s) + Len(t)
        /\ \A i \in 1..Len(s) + Len(t) : u[i] = IF i <= Len(s) THEN s[i] ELSE t[i - Len(s)]
    BY ConcatProperties DEF Strings
  <2>2. Len(s) \in Nat /\ Len(t) \in Nat
    BY StringIs
  <2>3. ASSUME NEW i \in 1..Len(s)
        PROVE  u[i] = s[i]
    BY <2>1, <2>2
  <2>4. ASSUME NEW i \in 1..Len(t)
        PROVE  u[Len(s) + i] = t[i]
    <3>1. Len(s) + i \in 1..Len(s) + Len(t) /\ ~ (Len(s) + i <= Len(s)) /\ Len(s) + i - Len(s) = i
      BY <2>2
    <3> QED
      BY <2>1, <3>1
  <2> QED
    BY <2>1, <2>3, <2>4
<1>2. Len(s) \in Nat /\ Len(t) \in Nat
  BY StringIs
<1> HIDE DEF u
<1>3. ASSUME NEW i \in 1..Len(s)
      PROVE  At(u, i) = At(s, i)
  <2>1. i \in 1..Len(u)
    BY <1>1, <1>2
  <2> QED
    BY <1>1, <2>1 DEF At
<1>4. ASSUME NEW i \in 1..Len(t)
      PROVE  At(u, Len(s) + i) = At(t, i)
  <2>1. Len(s) + i \in 1..Len(u)
    BY <1>1, <1>2
  <2> QED
    BY <1>1, <2>1 DEF At
<1> QED
  BY <1>1, <1>3, <1>4 DEF u

\* A row key is its key, then the least byte of all.
LEMMA StoredAt ==
  ASSUME NEW k \in Names, NEW v \in Bytes
  PROVE  /\ Stored(k, v) \in Strings /\ Len(Stored(k, v)) = Len(k) + 2
         /\ \A i \in 1..Len(k) : At(Stored(k, v), i) = At(k, i)
         /\ At(Stored(k, v), Len(k) + 1) = 1
<1> DEFINE e == <<0, v>>
<1>1. e \in Strings /\ Len(e) = 2 /\ e[1] = 0
  BY DEF Strings, Bytes
<1>2. 1 \in 1..Len(e) /\ At(e, 1) = 1
  BY <1>1 DEF At
<1> HIDE DEF e
<1> k \in Strings
  BY NameIs
<1>3. /\ k \o e \in Strings /\ Len(k \o e) = Len(k) + 2
      /\ \A i \in 1..Len(k) : At(k \o e, i) = At(k, i)
      /\ At(k \o e, Len(k) + 1) = 1
  <2>1. /\ k \o e \in Strings /\ Len(k \o e) = Len(k) + Len(e)
        /\ \A i \in 1..Len(k) : At(k \o e, i) = At(k, i)
        /\ \A i \in 1..Len(e) : At(k \o e, Len(k) + i) = At(e, i)
    BY <1>1, ConcatAt
  <2>2. At(k \o e, Len(k) + 1) = At(e, 1)
    BY <1>2, <2>1
  <2> QED
    BY <1>1, <1>2, <2>1, <2>2
<1> QED
  BY <1>3 DEF Stored, e

LEMMA AfterKeyAt ==
  ASSUME NEW n \in Names
  PROVE  /\ AfterKey(n) \in Strings /\ Len(AfterKey(n)) = Len(n) + 1
         /\ \A i \in 1..Len(n) : At(AfterKey(n), i) = At(n, i)
         /\ At(AfterKey(n), Len(n) + 1) = 2
<1> DEFINE e == <<1>>
<1>1. e \in Strings /\ Len(e) = 1 /\ e[1] = 1
  BY DEF Strings
<1>2. 1 \in 1..Len(e) /\ At(e, 1) = 2
  BY <1>1 DEF At
<1> HIDE DEF e
<1> n \in Strings
  BY NameIs
<1>3. /\ n \o e \in Strings /\ Len(n \o e) = Len(n) + 1
      /\ \A i \in 1..Len(n) : At(n \o e, i) = At(n, i)
      /\ At(n \o e, Len(n) + 1) = 2
  <2>1. /\ n \o e \in Strings /\ Len(n \o e) = Len(n) + Len(e)
        /\ \A i \in 1..Len(n) : At(n \o e, i) = At(n, i)
        /\ \A i \in 1..Len(e) : At(n \o e, Len(n) + i) = At(e, i)
    BY <1>1, ConcatAt
  <2>2. At(n \o e, Len(n) + 1) = At(e, 1)
    BY <1>2, <2>1
  <2> QED
    BY <1>1, <1>2, <2>1, <2>2
<1> QED
  BY <1>3 DEF AfterKey, e

LEMMA AfterPrefixAt ==
  ASSUME NEW p \in Names, p # <<>>
  PROVE  /\ Len(p) >= 1
         /\ AfterPrefix(p) \in Strings /\ Len(AfterPrefix(p)) = Len(p)
         /\ \A i \in 1..(Len(p) - 1) : At(AfterPrefix(p), i) = At(p, i)
         /\ At(AfterPrefix(p), Len(p)) = At(p, Len(p)) + 1
<1> DEFINE f == SubSeq(p, 1, Len(p) - 1)
           e == <<p[Len(p)] + 1>>
<1>0. Len(p) \in Nat
  BY NameIs
<1>1. p \in Strings /\ Len(p) \in Nat
  BY NameIs
<1>2. Len(p) >= 1
  BY <1>1, EmptySeq DEF Strings
<1>3. Len(p) \in 1..Len(p) /\ p[Len(p)] \in Nat /\ At(p, Len(p)) = p[Len(p)] + 1
  BY <1>1, <1>2, StringIs
<1>4. e \in Strings /\ Len(e) = 1 /\ 1 \in 1..Len(e) /\ At(e, 1) = At(p, Len(p)) + 1
  BY <1>3 DEF Strings, At
<1>5. f \in Strings /\ Len(f) = Len(p) - 1 /\ \A i \in 1..(Len(p) - 1) : f[i] = p[i]
  <2>1. CASE Len(p) = 1
    <3>1. f = <<>>
      BY <1>1, <2>1, SubSeqEmpty DEF Strings
    <3>2. f \in Strings /\ Len(f) = 0
      BY <3>1, EmptySeq DEF Strings
    <3> QED
      BY <2>1, <3>2
  <2>2. CASE Len(p) > 1
    <3>1. 1 \in 1..Len(p) + 1 /\ Len(p) - 1 \in 0..Len(p)
      BY <1>1, <2>2
    <3> QED
      BY <1>1, <2>2, <3>1, SubSeqProperties DEF Strings
  <2>3. Len(p) = 1 \/ Len(p) > 1
    BY <1>0, <1>2
  <2> QED
    BY <2>1, <2>2, <2>3
<1>6. ASSUME NEW i \in 1..(Len(p) - 1)
      PROVE  At(f, i) = At(p, i)
  <2>1. i \in 1..Len(f) /\ i \in 1..Len(p)
    BY <1>1, <1>5
  <2> QED
    BY <1>5, <2>1 DEF At
<1> HIDE DEF f, e
<1>7. /\ f \o e \in Strings /\ Len(f \o e) = Len(p)
      /\ \A i \in 1..(Len(p) - 1) : At(f \o e, i) = At(p, i)
      /\ At(f \o e, Len(p)) = At(p, Len(p)) + 1
  <2>1. /\ f \o e \in Strings /\ Len(f \o e) = Len(f) + Len(e)
        /\ \A i \in 1..Len(f) : At(f \o e, i) = At(f, i)
        /\ At(f \o e, Len(f) + 1) = At(e, 1)
    BY <1>4, <1>5, ConcatAt
  <2>2. Len(f) + 1 = Len(p) /\ Len(f) + Len(e) = Len(p)
    BY <1>1, <1>4, <1>5
  <2> QED
    BY <1>4, <1>5, <1>6, <2>1, <2>2
<1> QED
  BY <1>2, <1>7 DEF AfterPrefix, Front, Last, f, e

\* The rows of different keys are in the order of the keys.
LEMMA StoredInOrder ==
  ASSUME NEW k \in Names, NEW l \in Names, NEW v \in Bytes, NEW w \in Bytes, Less(k, l)
  PROVE  Less(Stored(k, v), Stored(l, w))
<1>1. PICK i \in Positions : LessFrom(k, l, i)
  BY NameIs, LessIs
<1>2. i \in 1..Len(l) /\ i <= Len(k) + 1 /\ Len(k) \in Nat /\ Len(l) \in Nat /\ i \in Nat
  BY <1>1, NameIs, LessWitness
<1>3. At(Stored(k, v), i) < At(Stored(l, w), i)
  <2>1. At(Stored(l, w), i) = At(l, i) /\ At(l, i) >= 2 /\ At(l, i) \in Nat
    BY <1>2, StoredAt, NameIs, StringIs
  <2>2. CASE i \in 1..Len(k)
    BY <1>1, <2>1, <2>2, StoredAt DEF LessFrom
  <2>3. CASE i = Len(k) + 1
    BY <2>1, <2>3, StoredAt
  <2> QED
    BY <1>2, <2>2, <2>3
<1>4. ASSUME NEW j \in 1..(i - 1)
      PROVE  At(Stored(k, v), j) = At(Stored(l, w), j)
  <2>1. j \in 1..Len(k) /\ j \in 1..Len(l)
    BY <1>2
  <2> QED
    BY <1>1, <2>1, StoredAt DEF LessFrom, Agree
<1> QED
  BY <1>3, <1>4, LessIs, StoredAt DEF LessFrom, Agree

\* A scan from p begins with the keys that do not come before p.
LEMMA ScanFromPrefix ==
  ASSUME NEW k \in Names, NEW v \in Bytes, NEW p \in Names
  PROVE  Less(Stored(k, v), p) <=> Less(k, p)
<1>1. ASSUME Less(k, p)
      PROVE  Less(Stored(k, v), p)
  <2>1. PICK i \in Positions : LessFrom(k, p, i)
    BY <1>1, NameIs, LessIs
  <2>2. i \in 1..Len(p) /\ i <= Len(k) + 1 /\ Len(k) \in Nat /\ Len(p) \in Nat /\ i \in Nat
    BY <2>1, NameIs, LessWitness
  <2>3. At(Stored(k, v), i) < At(p, i)
    <3>1. At(p, i) >= 2 /\ At(p, i) \in Nat
      BY <2>2, NameIs, StringIs
    <3>2. CASE i \in 1..Len(k)
      BY <2>1, <3>2, StoredAt DEF LessFrom
    <3>3. CASE i = Len(k) + 1
      BY <3>1, <3>3, StoredAt
    <3> QED
      BY <2>2, <3>2, <3>3
  <2>4. ASSUME NEW j \in 1..(i - 1)
        PROVE  At(Stored(k, v), j) = At(p, j)
    <3>1. j \in 1..Len(k)
      BY <2>2
    <3> QED
      BY <2>1, <3>1, StoredAt DEF LessFrom, Agree
  <2> QED
    BY <2>3, <2>4, LessIs, StoredAt, NameIs DEF LessFrom, Agree
<1>2. ASSUME ~ Less(k, p)
      PROVE  ~ Less(Stored(k, v), p)
  <2>1. IsPrefix(k, Stored(k, v))
    BY NameIs, StoredAt, PrefixIs
  <2>2. k = Stored(k, v) \/ Less(k, Stored(k, v))
    BY <2>1, NameIs, StoredAt, PrefixFirst
  <2> QED
    BY <1>2, <2>2, NameIs, StoredAt, LessTransitive
<1> QED
  BY <1>1, <1>2

\* A scan from AfterKey(n) begins with the keys that come after n, extensions of n
\* included.
LEMMA ScanAfterKey ==
  ASSUME NEW k \in Names, NEW v \in Bytes, NEW n \in Names
  PROVE  Less(Stored(k, v), AfterKey(n)) <=> ~ Less(n, k)
<1> DEFINE s == Stored(k, v)
           a == AfterKey(n)
<1>1. s \in Strings /\ a \in Strings /\ k \in Strings /\ n \in Strings
  BY StoredAt, AfterKeyAt, NameIs
<1>2. Len(k) \in Nat /\ Len(n) \in Nat /\ Len(s) = Len(k) + 2 /\ Len(a) = Len(n) + 1
  BY StoredAt, AfterKeyAt, NameIs
<1>3. \A i \in 1..Len(k) : At(s, i) = At(k, i) /\ At(k, i) >= 2 /\ At(k, i) \in Nat
  BY StoredAt, NameIs, StringIs
<1>4. \A i \in 1..Len(n) : At(a, i) = At(n, i) /\ At(n, i) >= 2 /\ At(n, i) \in Nat
  BY AfterKeyAt, NameIs, StringIs
<1>5. At(s, Len(k) + 1) = 1 /\ At(a, Len(n) + 1) = 2
  BY StoredAt, AfterKeyAt
<1> HIDE DEF s, a
<1>6. ASSUME k = n
      PROVE  Less(s, a)
  <2>1. Len(k) + 1 \in Positions
    BY <1>2 DEF Positions
  <2>2. LessFrom(s, a, Len(k) + 1)
    BY <1>2, <1>3, <1>4, <1>5, <1>6 DEF LessFrom, Agree
  <2> QED
    BY <1>1, <2>1, <2>2, LessIs
<1>7. ASSUME Less(k, n)
      PROVE  Less(s, a)
  <2>1. PICK i \in Positions : LessFrom(k, n, i)
    BY <1>1, <1>7, LessIs
  <2>2. i \in 1..Len(n) /\ i <= Len(k) + 1 /\ i \in Nat
    BY <1>1, <1>2, <2>1, LessWitness
  <2>3. At(s, i) < At(a, i)
    <3>1. CASE i \in 1..Len(k)
      BY <1>3, <1>4, <2>1, <2>2, <3>1 DEF LessFrom
    <3>2. CASE i = Len(k) + 1
      BY <1>4, <1>5, <2>2, <3>2
    <3> QED
      BY <1>2, <2>2, <3>1, <3>2
  <2>4. ASSUME NEW j \in 1..(i - 1)
        PROVE  At(s, j) = At(a, j)
    <3>1. j \in 1..Len(k) /\ j \in 1..Len(n)
      BY <1>2, <2>2
    <3> QED
      BY <1>3, <1>4, <2>1, <3>1 DEF LessFrom, Agree
  <2> QED
    BY <1>1, <2>3, <2>4, LessIs DEF LessFrom, Agree
<1>8. ASSUME Less(n, k)
      PROVE  ~ Less(s, a)
  <2>1. PICK i \in Positions : LessFrom(n, k, i)
    BY <1>1, <1>8, LessIs
  <2>2. i \in 1..Len(k) /\ i <= Len(n) + 1 /\ i \in Nat
    BY <1>1, <1>2, <2>1, LessWitness
  <2>3. ASSUME NEW j \in 1..(i - 1)
        PROVE  At(a, j) = At(s, j)
    <3>1. j \in 1..Len(k) /\ j \in 1..Len(n)
      BY <1>2, <2>2
    <3> QED
      BY <1>3, <1>4, <2>1, <3>1 DEF LessFrom, Agree
  <2>4. CASE At(a, i) < At(s, i)
    <3>1. Less(a, s)
      BY <1>1, <2>3, <2>4, LessIs DEF LessFrom, Agree
    <3> QED
      BY <1>1, <3>1, LessAsymmetric
  <2>5. CASE ~ (At(a, i) < At(s, i))
    <3>1. i = Len(n) + 1
      <4>1. i \notin 1..Len(n)
        BY <1>3, <1>4, <2>1, <2>2, <2>5 DEF LessFrom
      <4> QED
        BY <1>2, <2>2, <4>1
    <3>2. At(a, i) = At(s, i)
      BY <1>3, <1>5, <2>2, <2>5, <3>1
    <3>3. \A j \in 1..Len(a) : At(a, j) = At(s, j)
      BY <1>2, <2>3, <3>1, <3>2
    <3>4. a = s \/ Less(a, s)
      BY <1>1, <3>3, PrefixIs, PrefixFirst
    <3> QED
      BY <1>1, <3>4, LessAsymmetric, LessIrreflexive
  <2> QED
    BY <2>4, <2>5
<1>9. k = n \/ Less(k, n) \/ Less(n, k)
  BY <1>1, LessTotal
<1>10. Less(n, k) => ~ Less(k, n) /\ k # n
  BY <1>1, LessAsymmetric
<1> QED
  BY <1>6, <1>7, <1>8, <1>9, <1>10 DEF s, a

\* A scan from AfterPrefix(p) begins past all keys that begin with p.
LEMMA ScanAfterPrefix ==
  ASSUME NEW k \in Names, NEW v \in Bytes, NEW p \in Names, p # <<>>
  PROVE  Less(Stored(k, v), AfterPrefix(p)) <=> ~ (Less(p, k) /\ ~ IsPrefix(p, k))
<1> DEFINE s == Stored(k, v)
           a == AfterPrefix(p)
           m == Len(p)
<1>1. s \in Strings /\ a \in Strings /\ k \in Strings /\ p \in Strings
  BY StoredAt, AfterPrefixAt, NameIs
<1>2. /\ Len(k) \in Nat /\ m \in Nat /\ m >= 1
      /\ Len(s) = Len(k) + 2 /\ Len(a) = m
  BY StoredAt, AfterPrefixAt, NameIs
<1>3. \A i \in 1..Len(k) : At(s, i) = At(k, i) /\ At(k, i) >= 2 /\ At(k, i) \in Nat
  BY StoredAt, NameIs, StringIs
<1>4. /\ \A i \in 1..m : At(p, i) >= 2 /\ At(p, i) \in Nat
      /\ \A i \in 1..(m - 1) : At(a, i) = At(p, i)
      /\ At(a, m) = At(p, m) + 1
  BY AfterPrefixAt, NameIs, StringIs
<1>5. At(s, Len(k) + 1) = 1
  BY StoredAt
<1> HIDE DEF s, a, m
<1>6. ASSUME IsPrefix(p, k)
      PROVE  Less(s, a)
  <2>1. m <= Len(k) /\ \A i \in 1..m : At(p, i) = At(k, i)
    BY <1>1, <1>6, PrefixIs DEF m
  <2>2. m \in Positions /\ m \in 1..m /\ m \in 1..Len(k)
    BY <1>2, <2>1 DEF Positions
  <2>3. At(s, m) < At(a, m)
    BY <1>3, <1>4, <2>1, <2>2
  <2>4. \A j \in 1..(m - 1) : j \in 1..m /\ j \in 1..Len(k)
    BY <1>2, <2>1
  <2>5. LessFrom(s, a, m)
    BY <1>3, <1>4, <2>1, <2>3, <2>4 DEF LessFrom, Agree
  <2> QED
    BY <1>1, <2>2, <2>5, LessIs
<1>7. ASSUME Less(k, p)
      PROVE  Less(s, a)
  <2>1. PICK i \in Positions : LessFrom(k, p, i)
    BY <1>1, <1>7, LessIs
  <2>2. i \in 1..m /\ i <= Len(k) + 1 /\ i \in Nat
    BY <1>1, <1>2, <2>1, LessWitness DEF m
  <2>3. At(a, i) >= At(p, i) /\ At(a, i) \in Nat
    <3>1. CASE i \in 1..(m - 1)
      BY <1>4, <2>2, <3>1
    <3>2. CASE i = m
      BY <1>4, <2>2, <3>2
    <3> QED
      BY <1>2, <2>2, <3>1, <3>2
  <2>4. At(s, i) < At(a, i)
    <3>1. CASE i \in 1..Len(k)
      BY <1>3, <1>4, <2>1, <2>2, <2>3, <3>1 DEF LessFrom
    <3>2. CASE i = Len(k) + 1
      BY <1>4, <1>5, <2>2, <2>3, <3>2
    <3> QED
      BY <1>2, <2>2, <3>1, <3>2
  <2>5. ASSUME NEW j \in 1..(i - 1)
        PROVE  At(s, j) = At(a, j)
    <3>1. j \in 1..Len(k) /\ j \in 1..(m - 1)
      BY <1>2, <2>2
    <3> QED
      BY <1>3, <1>4, <2>1, <3>1 DEF LessFrom, Agree
  <2> QED
    BY <1>1, <2>4, <2>5, LessIs DEF LessFrom, Agree
<1>8. ASSUME Less(p, k), ~ IsPrefix(p, k)
      PROVE  ~ Less(s, a)
  <2>1. PICK i \in Positions : LessFrom(p, k, i)
    BY <1>1, <1>8, LessIs
  <2>2. i \in 1..Len(k) /\ i <= m + 1 /\ i \in Nat
    BY <1>1, <1>2, <2>1, LessWitness DEF m
  <2>3. i \in 1..m
    <3>1. i # m + 1
      <4> SUFFICES ASSUME i = m + 1
                   PROVE  FALSE
        OBVIOUS
      <4>1. \A j \in 1..m : At(p, j) = At(k, j)
        BY <1>2, <2>1 DEF LessFrom, Agree
      <4> QED
        BY <1>1, <1>8, <4>1, PrefixIs DEF m
    <3> QED
      BY <1>2, <2>2, <3>1
  <2>4. ASSUME NEW j \in 1..(i - 1)
        PROVE  At(a, j) = At(s, j)
    <3>1. j \in 1..Len(k) /\ j \in 1..(m - 1)
      BY <1>2, <2>2, <2>3
    <3> QED
      BY <1>3, <1>4, <2>1, <3>1 DEF LessFrom, Agree
  <2>5. CASE At(a, i) < At(s, i)
    <3>1. Less(a, s)
      BY <1>1, <2>4, <2>5, LessIs DEF LessFrom, Agree
    <3> QED
      BY <1>1, <3>1, LessAsymmetric
  <2>6. CASE ~ (At(a, i) < At(s, i))
    <3>1. At(p, i) < At(k, i) /\ At(s, i) = At(k, i) /\ At(k, i) \in Nat /\ At(p, i) \in Nat
      BY <1>3, <1>4, <2>1, <2>2, <2>3 DEF LessFrom
    <3>2. i = m
      <4>1. i \notin 1..(m - 1)
        BY <1>4, <2>6, <3>1
      <4> QED
        BY <1>2, <2>3, <4>1
    <3>3. At(a, i) = At(s, i)
      BY <1>4, <2>6, <3>1, <3>2
    <3>4. \A j \in 1..Len(a) : At(a, j) = At(s, j)
      BY <1>2, <2>4, <3>2, <3>3
    <3>5. a = s \/ Less(a, s)
      BY <1>1, <3>4, PrefixIs, PrefixFirst
    <3> QED
      BY <1>1, <3>5, LessAsymmetric, LessIrreflexive
  <2> QED
    BY <2>5, <2>6
<1>9. k = p \/ Less(k, p) \/ Less(p, k)
  BY <1>1, LessTotal
<1>10. k = p => IsPrefix(p, k)
  BY <1>1, PrefixReflexive
<1>11. Less(s, a) <=> ~ (Less(p, k) /\ ~ IsPrefix(p, k))
  BY <1>6, <1>7, <1>8, <1>9, <1>10
<1> QED
  BY <1>11 DEF s, a

------------------------------------------------------------------------------
(* Sorting a finite set by the number of members that come before.         *)

IsOrder(R, S) ==
  /\ \A x \in S : <<x, x>> \notin R
  /\ \A x, y, z \in S : <<x, y>> \in R /\ <<y, z>> \in R => <<x, z>> \in R
  /\ \A x, y \in S : x = y \/ <<x, y>> \in R \/ <<y, x>> \in R

Below(x, S, R) == {y \in S : <<y, x>> \in R}

LEMMA RankIs ==
  ASSUME NEW S, IsFiniteSet(S), NEW R, IsOrder(R, S), NEW x \in S
  PROVE  /\ IsFiniteSet(Below(x, S, R))
         /\ Cardinality(Below(x, S, R)) \in 0..(Cardinality(S) - 1)
<1>1. Below(x, S, R) \in SUBSET S /\ Below(x, S, R) # S
  BY DEF Below, IsOrder
<1>2. /\ IsFiniteSet(Below(x, S, R))
      /\ Cardinality(Below(x, S, R)) <= Cardinality(S)
      /\ Cardinality(Below(x, S, R)) # Cardinality(S)
  BY <1>1, FS_Subset
<1>3. Cardinality(S) \in Nat /\ Cardinality(Below(x, S, R)) \in Nat
  BY <1>2, FS_CardinalityType
<1> QED
  BY <1>2, <1>3

LEMMA RankGrows ==
  ASSUME NEW S, IsFiniteSet(S), NEW R, IsOrder(R, S), NEW x \in S, NEW y \in S, <<x, y>> \in R
  PROVE  Cardinality(Below(x, S, R)) < Cardinality(Below(y, S, R))
<1>1. Below(x, S, R) \in SUBSET Below(y, S, R) /\ Below(x, S, R) # Below(y, S, R)
  BY DEF Below, IsOrder
<1>2. IsFiniteSet(Below(x, S, R)) /\ IsFiniteSet(Below(y, S, R))
  BY RankIs
<1>3. /\ Cardinality(Below(x, S, R)) <= Cardinality(Below(y, S, R))
      /\ Cardinality(Below(x, S, R)) # Cardinality(Below(y, S, R))
  BY <1>1, <1>2, FS_Subset
<1>4. Cardinality(Below(y, S, R)) \in Nat /\ Cardinality(Below(x, S, R)) \in Nat
  BY <1>2, FS_CardinalityType
<1> QED
  BY <1>3, <1>4

\* Every place is taken.
LEMMA RankTaken ==
  ASSUME NEW S, IsFiniteSet(S), NEW R, IsOrder(R, S), NEW i \in 1..Cardinality(S)
  PROVE  \E x \in S : Cardinality(Below(x, S, R)) = i - 1
<1> DEFINE n == Cardinality(S)
           f == [x \in S |-> Cardinality(Below(x, S, R))]
           T == (0..(n - 1)) \ {i - 1}
<1>1. n \in Nat /\ n >= 1 /\ i - 1 \in 0..(n - 1)
  BY FS_CardinalityType
<1> SUFFICES ASSUME \A x \in S : Cardinality(Below(x, S, R)) # i - 1
             PROVE  FALSE
  OBVIOUS
<1>2. f \in [S -> T]
  BY RankIs
<1>3. IsFiniteSet(0..(n - 1)) /\ Cardinality(0..(n - 1)) = n
  <2>1. 0 \in Int /\ n - 1 \in Int /\ ~ (0 > n - 1) /\ n - 1 - 0 + 1 = n
    BY <1>1
  <2> QED
    BY <2>1, FS_Interval
<1>4. IsFiniteSet(T) /\ Cardinality(T) = n - 1
  <2>1. PICK D : D = 0..(n - 1)
    OBVIOUS
  <2>2. IsFiniteSet(D) /\ Cardinality(D) = n /\ i - 1 \in D
    BY <1>1, <1>3, <2>1
  <2>3. IsFiniteSet(D \ {i - 1}) /\ Cardinality(D \ {i - 1}) = n - 1
    BY <2>2, FS_RemoveElement
  <2> QED
    BY <2>1, <2>3
<1>5. Cardinality(T) < Cardinality(S)
  BY <1>1, <1>4
<1> HIDE DEF T, f
<1>6. PICK x, y \in S : x # y /\ f[x] = f[y]
  BY <1>2, <1>4, <1>5, FS_PigeonHole
<1>7. <<x, y>> \in R \/ <<y, x>> \in R
  BY <1>6 DEF IsOrder
<1>8. Cardinality(Below(x, S, R)) # Cardinality(Below(y, S, R))
  <2>1. Cardinality(Below(x, S, R)) \in 0..(n - 1) /\ Cardinality(Below(y, S, R)) \in 0..(n - 1)
    BY RankIs
  <2>2. \/ Cardinality(Below(x, S, R)) < Cardinality(Below(y, S, R))
        \/ Cardinality(Below(y, S, R)) < Cardinality(Below(x, S, R))
    BY <1>7, RankGrows
  <2> QED
    BY <1>1, <2>1, <2>2
<1> QED
  BY <1>6, <1>8 DEF f

\* f lists the members of S by their ranks.
RanksInOrder(f, S, R) ==
  /\ f \in Seq(S) /\ Len(f) = Cardinality(S)
  /\ \A i \in 1..Len(f) : Cardinality(Below(f[i], S, R)) = i - 1

LEMMA SortedIs ==
  ASSUME NEW S, IsFiniteSet(S), NEW R, IsOrder(R, S), NEW f, RanksInOrder(f, S, R)
  PROVE  /\ f \in Seq(S) /\ Len(f) \in Nat /\ \A i \in 1..Len(f) : f[i] \in S
         /\ \A i, j \in 1..Len(f) : i < j => <<f[i], f[j]>> \in R
         /\ \A x \in S : \E i \in 1..Len(f) : f[i] = x
<1>1. f \in Seq(S) /\ Len(f) \in Nat /\ Len(f) = Cardinality(S)
  BY FS_CardinalityType DEF RanksInOrder
<1>2. \A i \in 1..Len(f) : f[i] \in S
  BY <1>1, ElementOfSeq
<1>3. \A i \in 1..Len(f) : Cardinality(Below(f[i], S, R)) = i - 1
  BY DEF RanksInOrder
<1>4. ASSUME NEW i \in 1..Len(f), NEW j \in 1..Len(f), i < j
      PROVE  <<f[i], f[j]>> \in R
  <2>1. f[i] \in S /\ f[j] \in S
    BY <1>2
  <2>2. f[i] # f[j]
    BY <1>1, <1>3, <1>4
  <2>3. ~ (<<f[j], f[i]>> \in R)
    <3> SUFFICES ASSUME <<f[j], f[i]>> \in R
                 PROVE  FALSE
      OBVIOUS
    <3>1. Cardinality(Below(f[j], S, R)) < Cardinality(Below(f[i], S, R))
      BY <2>1, RankGrows
    <3> QED
      BY <1>1, <1>3, <1>4, <3>1
  <2> QED
    BY <2>1, <2>2, <2>3 DEF IsOrder
<1>5. ASSUME NEW x \in S
      PROVE  \E i \in 1..Len(f) : f[i] = x
  <2> DEFINE c == Cardinality(Below(x, S, R))
  <2>1. c \in 0..(Cardinality(S) - 1)
    BY RankIs
  <2>2. PICK i \in 1..Len(f) : i - 1 = c
    <3>1. c + 1 \in 1..Len(f) /\ (c + 1) - 1 = c
      BY <1>1, <2>1
    <3> QED
      BY <3>1
  <2> HIDE DEF c
  <2>3. Cardinality(Below(f[i], S, R)) = c /\ f[i] \in S
    BY <1>2, <1>3, <2>2
  <2>4. ~ (<<x, f[i]>> \in R)
    <3> SUFFICES ASSUME <<x, f[i]>> \in R
                 PROVE  FALSE
      OBVIOUS
    <3>1. c < Cardinality(Below(f[i], S, R))
      BY <2>3, RankGrows DEF c
    <3> QED
      BY <2>1, <2>3, <3>1
  <2>5. ~ (<<f[i], x>> \in R)
    <3> SUFFICES ASSUME <<f[i], x>> \in R
                 PROVE  FALSE
      OBVIOUS
    <3>1. Cardinality(Below(f[i], S, R)) < c
      BY <2>3, RankGrows DEF c
    <3> QED
      BY <2>1, <2>3, <3>1
  <2>6. f[i] = x
    BY <2>3, <2>4, <2>5 DEF IsOrder
  <2> QED
    BY <2>2, <2>6
<1> QED
  BY <1>1, <1>2, <1>4, <1>5

\* A nonempty finite set has a first member.
LEMMA FirstExists ==
  ASSUME NEW S, IsFiniteSet(S), S # {}, NEW R, IsOrder(R, S)
  PROVE  \E x \in S : \A y \in S : y # x => <<x, y>> \in R
<1>1. Cardinality(S) \in Nat /\ Cardinality(S) # 0
  BY FS_CardinalityType, FS_EmptySet
<1>2. 1 \in 1..Cardinality(S) /\ 1 - 1 = 0
  BY <1>1
<1>3. PICK x \in S : Cardinality(Below(x, S, R)) = 0
  BY <1>2, RankTaken
<1>4. Below(x, S, R) = {}
  BY <1>3, RankIs, FS_EmptySet
<1> QED
  BY <1>4 DEF Below, IsOrder

\* A list by ranks, whichever member is chosen for each.
LEMMA ChosenIsSorted ==
  ASSUME NEW S, IsFiniteSet(S), NEW R, NEW f, DOMAIN f = 1..Cardinality(S),
         f = [i \in 1..Cardinality(S) |-> f[i]],
         \A i \in 1..Cardinality(S) : f[i] \in S /\ Cardinality(Below(f[i], S, R)) = i - 1
  PROVE  RanksInOrder(f, S, R)
<1>1. Cardinality(S) \in Nat
  BY FS_CardinalityType
<1>2. f \in [1..Cardinality(S) -> S]
  OBVIOUS
<1>3. f \in Seq(S)
  BY <1>1, <1>2, SeqDef
<1>4. Len(f) = Cardinality(S)
  BY <1>1, <1>2, <1>3, LenProperties
<1> QED
  BY <1>3, <1>4 DEF RanksInOrder

NameOrder(S) == {e \in S \X S : NameBefore(e[1], e[2])}

LEMMA NamesSorted ==
  ASSUME NEW S, IsFiniteSet(S), IsOrder(NameOrder(S), S)
  PROVE  RanksInOrder(InOrder(S, NameBefore), S, NameOrder(S))
<1> DEFINE rank(x) == Cardinality({y \in S : NameBefore(y, x)})
           f == InOrder(S, NameBefore)
<1>1. \A x \in S : {y \in S : NameBefore(y, x)} = Below(x, S, NameOrder(S))
  BY DEF Below, NameOrder
<1>2. f = [i \in 1..Cardinality(S) |-> CHOOSE x \in S : rank(x) = i - 1]
  BY DEF InOrder
<1>3. ASSUME NEW i \in 1..Cardinality(S)
      PROVE  f[i] \in S /\ Cardinality(Below(f[i], S, NameOrder(S))) = i - 1
  <2>1. \E x \in S : rank(x) = i - 1
    BY <1>1, RankTaken
  <2>2. f[i] = CHOOSE x \in S : rank(x) = i - 1
    BY <1>2
  <2> HIDE DEF f, rank
  <2>3. f[i] \in S /\ rank(f[i]) = i - 1
    BY <2>1, <2>2
  <2> QED
    BY <1>1, <2>3 DEF rank
<1>4. DOMAIN f = 1..Cardinality(S) /\ f = [i \in 1..Cardinality(S) |-> f[i]]
  BY <1>2
<1> HIDE DEF f
<1>5. RanksInOrder(f, S, NameOrder(S))
  BY <1>3, <1>4, ChosenIsSorted
<1> QED
  BY <1>5 DEF f

RowOrder(S) == {e \in S \X S : RowBefore(e[1], e[2])}

LEMMA RowsSorted ==
  ASSUME NEW S, IsFiniteSet(S), IsOrder(RowOrder(S), S)
  PROVE  RanksInOrder(InOrder(S, RowBefore), S, RowOrder(S))
<1> DEFINE rank(x) == Cardinality({y \in S : RowBefore(y, x)})
           f == InOrder(S, RowBefore)
<1>1. \A x \in S : {y \in S : RowBefore(y, x)} = Below(x, S, RowOrder(S))
  BY DEF Below, RowOrder
<1>2. f = [i \in 1..Cardinality(S) |-> CHOOSE x \in S : rank(x) = i - 1]
  BY DEF InOrder
<1>3. ASSUME NEW i \in 1..Cardinality(S)
      PROVE  f[i] \in S /\ Cardinality(Below(f[i], S, RowOrder(S))) = i - 1
  <2>1. \E x \in S : rank(x) = i - 1
    BY <1>1, RankTaken
  <2>2. f[i] = CHOOSE x \in S : rank(x) = i - 1
    BY <1>2
  <2> HIDE DEF f, rank
  <2>3. f[i] \in S /\ rank(f[i]) = i - 1
    BY <2>1, <2>2
  <2> QED
    BY <1>1, <2>3 DEF rank
<1>4. DOMAIN f = 1..Cardinality(S) /\ f = [i \in 1..Cardinality(S) |-> f[i]]
  BY <1>2
<1> HIDE DEF f
<1>5. RanksInOrder(f, S, RowOrder(S))
  BY <1>3, <1>4, ChosenIsSorted
<1> QED
  BY <1>5 DEF f

------------------------------------------------------------------------------
(* Common prefixes.                                                        *)

\* Where a delimiter after the prefix of the request ends in k.
Ends(k) ==
  {e \in (Len(req.prefix) + Len(req.delimiter))..Len(k) :
     SubSeq(k, e - Len(req.delimiter) + 1, e) = req.delimiter}

\* The first n bytes of a name.
LEMMA CutIs ==
  ASSUME NEW k \in Names, NEW n \in 0..Len(k)
  PROVE  /\ SubSeq(k, 1, n) \in Names /\ Len(SubSeq(k, 1, n)) = n
         /\ \A i \in 1..n : SubSeq(k, 1, n)[i] = k[i]
         /\ IsPrefix(SubSeq(k, 1, n), k)
<1> DEFINE u == SubSeq(k, 1, n)
<1>1. Len(k) \in Nat /\ k \in Strings
  BY NameIs
<1>2. \A i \in 1..n : i \in 1..Len(k)
  BY <1>1
<1>3. \A i \in 1..n : k[i] \in Bytes
  BY <1>2, ElementOfSeq DEF Names
<1>4. /\ u \in Names /\ Len(u) = n
      /\ \A i \in 1..n : u[i] = k[i]
  <2>1. /\ u \in Seq(Bytes)
        /\ Len(u) = IF 1 <= n THEN n - 1 + 1 ELSE 0
        /\ \A i \in 1..n - 1 + 1 : u[i] = k[1 + i - 1]
    BY <1>1, <1>3, SubSeqProperties DEF Names
  <2>2. Len(u) = n
    BY <1>1, <2>1
  <2>3. \A i \in 1..n : i \in 1..n - 1 + 1 /\ 1 + i - 1 = i
    BY <1>1
  <2> QED
    BY <2>1, <2>2, <2>3 DEF Names
<1> HIDE DEF u
<1>5. IsPrefix(u, k)
  <2>1. u \in Strings
    BY <1>4, NameIs
  <2>2. n <= Len(k)
    BY <1>1
  <2> QED
    BY <1>1, <1>4, <2>1, <2>2, PrefixIs
<1> QED
  BY <1>4, <1>5 DEF u

LEMMA RequestIs ==
  ASSUME req \in Requests
  PROVE  /\ req.prefix \in Names /\ Len(req.prefix) \in Nat
         /\ req.op \in {"v1", "v2", "versions"}
         /\ req.delimiter # Missing
              => req.delimiter \in Names /\ Len(req.delimiter) \in Nat /\ Len(req.delimiter) >= 1
         /\ req.max_keys \in Nat \cup {Missing}
         /\ req.start \in Names \cup {Missing}
<1>1. /\ req.prefix \in Names /\ req.op \in {"v1", "v2", "versions"}
      /\ req.delimiter \in (Names \ {<<>>}) \cup {Missing}
      /\ req.max_keys \in Nat \cup {Missing} /\ req.start \in Names \cup {Missing}
  BY ListingAssumption
<1>2. ASSUME req.delimiter # Missing
      PROVE  req.delimiter \in Names /\ Len(req.delimiter) \in Nat /\ Len(req.delimiter) >= 1
  <2>1. req.delimiter \in Names /\ req.delimiter # <<>>
    BY <1>1, <1>2
  <2>2. Len(req.delimiter) \in Nat /\ Len(req.delimiter) # 0
    BY <2>1, EmptySeq DEF Names
  <2> QED
    BY <2>1, <2>2
<1> QED
  BY <1>1, <1>2, NameIs

\* Arithmetic on the places of a delimiter of length b in a name of length c.
LEMMA PlacesAre ==
  ASSUME NEW a \in Nat, NEW b \in Nat, NEW c \in Nat, NEW e \in (a + b)..c
  PROVE  /\ e \in Nat /\ a + b <= e /\ e <= c /\ a <= e /\ (b >= 1 => e >= 1)
         /\ b >= 1 => /\ e - b + 1 \in Int /\ e - b + 1 <= e /\ e - (e - b + 1) + 1 = b
                     /\ \A i \in (e - b + 1)..e : i \in 1..c
         /\ \A i \in 1..b : e - b + i \in 1..c /\ (e - b + 1) + i - 1 = e - b + i
OBVIOUS

LEMMA IsPlace ==
  ASSUME NEW a \in Nat, NEW b \in Nat, NEW c \in Nat, NEW e \in Nat, a + b <= e, e <= c
  PROVE  e \in (a + b)..c
OBVIOUS

LEMMA EndsAre ==
  ASSUME req \in Requests, req.delimiter # Missing, NEW k \in Names, NEW e \in Nat
  PROVE  e \in Ends(k) <=>
           /\ Len(req.prefix) + Len(req.delimiter) <= e /\ e <= Len(k)
           /\ \A i \in 1..Len(req.delimiter) :
                k[e - Len(req.delimiter) + i] = req.delimiter[i]
<1> DEFINE d == req.delimiter
           p == Len(req.prefix)
           a == e - Len(d) + 1
           u == SubSeq(k, a, e)
<1>1. d \in Names /\ Len(d) \in Nat /\ Len(d) >= 1 /\ p \in Nat /\ Len(k) \in Nat
  BY RequestIs, NameIs
<1>2. e \in Ends(k) <=> p + Len(d) <= e /\ e <= Len(k) /\ u = d
  BY <1>1 DEF Ends
<1>3. ASSUME p + Len(d) <= e, e <= Len(k)
      PROVE  u = d <=> \A i \in 1..Len(d) : k[e - Len(d) + i] = d[i]
  <2>0. e \in (p + Len(d))..Len(k)
    BY <1>1, <1>3, IsPlace
  <2>1. a \in Int /\ e \in Int /\ a <= e /\ e - a + 1 = Len(d)
    BY <1>1, <2>0, PlacesAre
  <2>2. \A i \in a..e : i \in 1..Len(k)
    BY <1>1, <2>0, PlacesAre
  <2>3. \A i \in a..e : k[i] \in Bytes
    BY <2>2, ElementOfSeq DEF Names
  <2>4. /\ u \in Seq(Bytes)
        /\ Len(u) = IF a <= e THEN e - a + 1 ELSE 0
        /\ \A i \in 1..e - a + 1 : u[i] = k[a + i - 1]
    <3> HIDE DEF a
    <3> QED
      BY <2>1, <2>3, SubSeqProperties
  <2>5. Len(u) = Len(d)
    BY <2>1, <2>4
  <2>6. \A i \in 1..Len(d) : a + i - 1 = e - Len(d) + i
    BY <1>1, <2>0, PlacesAre
  <2>7. \A i \in 1..Len(d) : u[i] = k[e - Len(d) + i]
    BY <2>1, <2>4, <2>6
  <2> HIDE DEF a, u, d, p
  <2> QED
    BY <1>1, <2>4, <2>5, <2>7, SeqEqual DEF Names
<1> QED
  BY <1>2, <1>3

LEMMA EndIs ==
  ASSUME req \in Requests, req.delimiter # Missing, NEW k \in Names, NEW e \in Ends(k)
  PROVE  e \in Nat /\ e <= Len(k) /\ e >= 1 /\ Len(req.prefix) <= e
<1>1. Len(req.prefix) \in Nat /\ Len(req.delimiter) \in Nat /\ Len(req.delimiter) >= 1 /\ Len(k) \in Nat
  BY RequestIs, NameIs
<1>2. e \in (Len(req.prefix) + Len(req.delimiter))..Len(k)
  BY DEF Ends
<1> QED
  BY <1>1, <1>2, PlacesAre

\* A beginning of k has those ends of k that fall into it.
LEMMA EndsOfPrefix ==
  ASSUME req \in Requests, req.delimiter # Missing, NEW g \in Names, NEW k \in Names,
         IsPrefix(g, k), NEW e \in Nat, e <= Len(g)
  PROVE  e \in Ends(g) <=> e \in Ends(k)
<1> DEFINE d == req.delimiter
           p == Len(req.prefix)
<1>1. d \in Names /\ Len(d) \in Nat /\ Len(d) >= 1 /\ p \in Nat
  BY RequestIs
<1>2. Len(g) \in Nat /\ Len(k) \in Nat /\ Len(g) <= Len(k) /\ \A j \in 1..Len(g) : g[j] = k[j]
  BY NameIs, PrefixIs
<1>3. ASSUME p + Len(d) <= e, NEW i \in 1..Len(d)
      PROVE  g[e - Len(d) + i] = k[e - Len(d) + i]
  <2>0. e \in (p + Len(d))..Len(g)
    BY <1>1, <1>2, <1>3, IsPlace
  <2>1. e - Len(d) + i \in 1..Len(g)
    BY <1>1, <1>2, <2>0, PlacesAre
  <2> QED
    BY <1>2, <2>1
<1>4. e <= Len(g) /\ e <= Len(k)
  BY <1>2
<1> QED
  BY <1>3, <1>4, EndsAre

LEMMA CommonPrefixIs ==
  ASSUME req \in Requests, NEW k \in Names
  PROVE  /\ req.delimiter = Missing \/ Ends(k) = {} => CommonPrefix(k) = Missing
         /\ \A c \in Ends(k) :
              req.delimiter # Missing /\ (\A f \in Ends(k) : c <= f)
                => CommonPrefix(k) = SubSeq(k, 1, c)
<1>1. CommonPrefix(k) = IF req.delimiter = Missing \/ Ends(k) = {} THEN Missing
                        ELSE SubSeq(k, 1, CHOOSE e \in Ends(k) : \A f \in Ends(k) : e <= f)
  BY DEF CommonPrefix, Ends
<1>2. ASSUME NEW c \in Ends(k), req.delimiter # Missing, \A f \in Ends(k) : c <= f
      PROVE  CommonPrefix(k) = SubSeq(k, 1, c)
  <2>1. Ends(k) \subseteq Nat
    BY <1>2, EndIs
  <2> DEFINE x == CHOOSE e \in Ends(k) : \A f \in Ends(k) : e <= f
  <2>2. x \in Ends(k) /\ \A f \in Ends(k) : x <= f
    BY <1>2, Zenon
  <2>3. x = c
    <3>1. x <= c /\ c <= x /\ x \in Nat /\ c \in Nat
      BY <1>2, <2>1, <2>2
    <3> HIDE DEF x
    <3> QED
      BY <3>1
  <2> QED
    BY <1>1, <1>2, <2>3
<1> QED
  BY <1>1, <1>2

\* A key with an end has a least one, and its group is what goes up to it.
LEMMA GroupCut ==
  ASSUME req \in Requests, NEW k \in Names, CommonPrefix(k) # Missing
  PROVE  /\ req.delimiter # Missing
         /\ \E c \in Ends(k) : /\ \A f \in Ends(k) : c <= f
                               /\ c \in Nat /\ c <= Len(k) /\ c >= 1 /\ Len(req.prefix) <= c
                               /\ CommonPrefix(k) = SubSeq(k, 1, c)
<1>1. req.delimiter # Missing /\ Ends(k) # {}
  BY CommonPrefixIs
<1>3. Ends(k) \subseteq Nat
  BY <1>1, EndIs
<1>4. PICK c \in Ends(k) : \A f \in Ends(k) : c <= f
  BY <1>1, <1>3, LeastNumber
<1>5. c \in Nat /\ c <= Len(k) /\ c >= 1 /\ Len(req.prefix) <= c
  BY <1>1, EndIs
<1>6. CommonPrefix(k) = SubSeq(k, 1, c)
  BY <1>1, <1>4, CommonPrefixIs
<1> QED
  BY <1>1, <1>4, <1>5, <1>6

\* A group is a name, a beginning of its keys, and its own group.
LEMMA GroupIs ==
  ASSUME req \in Requests, NEW k \in Names, CommonPrefix(k) # Missing
  PROVE  /\ CommonPrefix(k) \in Names /\ CommonPrefix(k) # <<>>
         /\ IsPrefix(CommonPrefix(k), k)
         /\ IsPrefix(req.prefix, k) => IsPrefix(req.prefix, CommonPrefix(k))
         /\ CommonPrefix(CommonPrefix(k)) = CommonPrefix(k)
<1> DEFINE g == CommonPrefix(k)
<1>1. PICK c \in Ends(k) : /\ \A f \in Ends(k) : c <= f
                           /\ c \in Nat /\ c <= Len(k) /\ c >= 1 /\ Len(req.prefix) <= c
                           /\ g = SubSeq(k, 1, c)
  BY GroupCut
<1>2. req.delimiter # Missing
  BY GroupCut
<1>3. c \in 0..Len(k)
  BY <1>1, NameIs
<1>4. g \in Names /\ Len(g) = c /\ IsPrefix(g, k)
  BY <1>1, <1>3, CutIs
<1> HIDE DEF g
<1>5. g # <<>>
  BY <1>1, <1>4, EmptySeq DEF Names
<1>6. ASSUME IsPrefix(req.prefix, k)
      PROVE  IsPrefix(req.prefix, g)
  <2>1. req.prefix \in Strings /\ g \in Strings /\ k \in Strings
    BY <1>4, RequestIs, NameIs
  <2>2. Len(req.prefix) <= Len(g)
    BY <1>1, <1>4
  <2> QED
    BY <1>4, <1>6, <2>1, <2>2, PrefixesNest
<1>7. CommonPrefix(g) = g
  <2>1. c \in Ends(g)
    <3>1. c <= Len(g)
      BY <1>1, <1>4
    <3> QED
      BY <1>1, <1>2, <1>4, <3>1, EndsOfPrefix
  <2>2. ASSUME NEW f \in Ends(g)
        PROVE  c <= f
    <3>1. f \in Nat /\ f <= Len(g)
      BY <1>2, <1>4, EndIs
    <3>2. f \in Ends(k)
      BY <1>2, <1>4, <3>1, EndsOfPrefix
    <3> QED
      BY <1>1, <3>2
  <2>3. CommonPrefix(g) = SubSeq(g, 1, c)
    BY <1>2, <1>4, <2>1, <2>2, CommonPrefixIs
  <2>4. SubSeq(g, 1, c) = g
    BY <1>4, SubSeqFull DEF Names
  <2> QED
    BY <2>3, <2>4
<1> QED
  BY <1>4, <1>5, <1>6, <1>7 DEF g

\* All that begins with a group belongs to it.
LEMMA GroupTakesAll ==
  ASSUME req \in Requests, NEW h \in Names, NEW k \in Names, CommonPrefix(h) = h, IsPrefix(h, k)
  PROVE  CommonPrefix(k) = h
<1>1. h # Missing
  BY ListingAssumption
<1>2. PICK c \in Ends(h) : /\ \A f \in Ends(h) : c <= f
                           /\ c \in Nat /\ c <= Len(h) /\ h = SubSeq(h, 1, c)
  BY <1>1, GroupCut
<1>3. req.delimiter # Missing
  BY <1>1, GroupCut
<1>4. c = Len(h) /\ Len(h) \in Nat
  <2>1. c \in 0..Len(h) /\ Len(h) \in Nat
    BY <1>2, NameIs
  <2> QED
    BY <1>2, <2>1, CutIs
<1>5. c \in Ends(k)
  BY <1>2, <1>3, EndsOfPrefix
<1>6. ASSUME NEW f \in Ends(k)
      PROVE  c <= f
  <2>1. f \in Nat
    BY <1>3, EndIs
  <2>2. CASE f <= Len(h)
    BY <1>2, <1>3, <2>1, <2>2, EndsOfPrefix
  <2>3. CASE f > Len(h)
    BY <1>2, <1>4, <2>1, <2>3
  <2> QED
    BY <1>4, <2>1, <2>2, <2>3
<1>7. CommonPrefix(k) = SubSeq(k, 1, c)
  BY <1>3, <1>5, <1>6, CommonPrefixIs
<1>8. SubSeq(k, 1, c) = h
  <2>1. Len(k) \in Nat /\ Len(h) <= Len(k) /\ \A i \in 1..Len(h) : h[i] = k[i]
    BY NameIs, PrefixIs
  <2>2. c \in 0..Len(k)
    BY <1>4, <2>1
  <2>3. SubSeq(k, 1, c) \in Names /\ Len(SubSeq(k, 1, c)) = c
        /\ \A i \in 1..c : SubSeq(k, 1, c)[i] = k[i]
    BY <2>2, CutIs
  <2> QED
    BY <1>4, <2>1, <2>3, SeqEqual DEF Names
<1> QED
  BY <1>7, <1>8

------------------------------------------------------------------------------
(* What a key is listed as.                                                *)

LEMMA ItemIs ==
  ASSUME req \in Requests, NEW k \in Names
  PROVE  /\ Item(k) \in [what : {"object", "prefix"}, name : Names]
         /\ Item(k).name \in Names
         /\ \/ Item(k).what = "object" /\ Item(k).name = k /\ CommonPrefix(k) = Missing
            \/ /\ Item(k).what = "prefix" /\ Item(k).name # <<>>
               /\ CommonPrefix(k) = Item(k).name
               /\ CommonPrefix(Item(k).name) = Item(k).name
         /\ IsPrefix(Item(k).name, k) /\ Covers(Item(k), k)
         /\ Item(Item(k).name) = Item(k)
         /\ IsPrefix(req.prefix, k) => IsPrefix(req.prefix, Item(k).name)
<1>1. CASE CommonPrefix(k) = Missing
  <2>1. Item(k) = [what |-> "object", name |-> k]
    BY <1>1 DEF Item
  <2>2. IsPrefix(k, k)
    BY NameIs, PrefixReflexive
  <2> QED
    BY <1>1, <2>1, <2>2 DEF Covers
<1>2. CASE CommonPrefix(k) # Missing
  <2> DEFINE g == CommonPrefix(k)
  <2>1. Item(k) = [what |-> "prefix", name |-> g]
    BY <1>2 DEF Item
  <2>2. /\ g \in Names /\ g # <<>> /\ IsPrefix(g, k) /\ CommonPrefix(g) = g
        /\ IsPrefix(req.prefix, k) => IsPrefix(req.prefix, g)
    BY <1>2, GroupIs
  <2>3. Item(g) = [what |-> "prefix", name |-> g]
    BY <1>2, <2>2 DEF Item
  <2> HIDE DEF g
  <2>4. g = CommonPrefix(k)
    BY DEF g
  <2> QED
    BY <2>1, <2>2, <2>3, <2>4 DEF Covers
<1> QED
  BY <1>1, <1>2

\* A key belongs to the item that covers it.
LEMMA CoveredItem ==
  ASSUME req \in Requests, NEW n \in Names, Item(n).name = n, NEW k \in Names, Covers(Item(n), k)
  PROVE  Item(k) = Item(n)
<1>1. CASE Item(n).what = "object"
  BY <1>1 DEF Covers
<1>2. CASE Item(n).what = "prefix"
  <2>1. CommonPrefix(n) = n
    BY <1>2, ItemIs
  <2>2. IsPrefix(n, k)
    BY <1>2 DEF Covers
  <2>3. CommonPrefix(k) = n
    BY <2>1, <2>2, GroupTakesAll
  <2>4. n # Missing
    BY ListingAssumption
  <2> QED
    BY <2>1, <2>3, <2>4 DEF Item
<1> QED
  BY <1>1, <1>2, ItemIs

\* The items of ascending keys ascend: a key past n does not lead to an item before n.
LEMMA ItemAfter ==
  ASSUME req \in Requests, NEW n \in Names, Item(n).name = n, NEW k \in Names, Less(n, k)
  PROVE  Item(k) = Item(n) \/ Less(n, Item(k).name)
<1> DEFINE m == Item(k).name
<1> SUFFICES ASSUME ~ Less(n, m)
             PROVE  Item(k) = Item(n)
  OBVIOUS
<1>1. m \in Names /\ IsPrefix(m, k)
  BY ItemIs
<1>2. m \in Strings /\ n \in Strings /\ k \in Strings
  BY <1>1, NameIs
<1>3. IsPrefix(m, n)
  BY <1>1, <1>2, BetweenPrefix
<1>4. Item(k).what = "prefix" /\ CommonPrefix(m) = m /\ CommonPrefix(k) = m
  BY ItemIs
<1>5. CommonPrefix(n) = m
  BY <1>1, <1>3, <1>4, GroupTakesAll
<1> QED
  BY <1>4, <1>5 DEF Item

------------------------------------------------------------------------------
(* The inductive invariant.                                                *)

Items ==
  [what : {"object", "prefix"}, name : Names]
    \cup [what : {"version"}, name : Names, version : Versions, is_latest : BOOLEAN]

\* The table holds one row for a key and a version.
IsTable(rs) ==
  /\ rs \subseteq Rows /\ IsFiniteSet(rs)
  /\ \A r, s \in rs : r.key = s.key /\ r.version = s.version => r = s

InputOK ==
  /\ IsTable(rows)
  /\ req \in Requests
  /\ status \in {"ready", "admitted", "done", "refused"}
  /\ cursor \in Cursors \cup {Missing}
  /\ out \in Seq(Items)
  /\ status = "admitted" => req.max_keys # 0

\* The history brackets what the bucket shows now.
HistoryOK == steady \subseteq Shown(rows) /\ Shown(rows) \subseteq ever

\* What was listed belongs to the prefix, and the name of an item tells what kind
\* of item it is.
ListedOK ==
  \A i \in DOMAIN out :
    /\ IsPrefix(req.prefix, out[i].name)
    /\ out[i].what = "version" <=> req.op = "versions"
    /\ req.op # "versions" => Item(out[i].name) = out[i]

\* The listing goes on where the last page ended.
CursorOK ==
  status \in {"ready", "admitted"}
    => cursor = IF out = <<>> THEN FirstCursor(req) ELSE NextCursor(Last(out))

\* What the cursor has passed, as a set of keys and not of bytes.
Ahead(c, k) ==
  \/ c = Missing
  \/ Less(c.name, k) /\ (c.after = "prefix" => ~ IsPrefix(c.name, k))

\* A key that was there throughout is on a page or still ahead.
CoverageOK ==
  status \in {"ready", "admitted"} =>
    \A k \in steady :
      Asked(k) => Ahead(cursor, k) \/ \E i \in DOMAIN out : Current(out[i], k)

ListingInv ==
  /\ InputOK /\ HistoryOK /\ ListedOK /\ CursorOK /\ CoverageOK
  /\ NothingMissed /\ ListedOnce /\ NothingInvented

------------------------------------------------------------------------------
(* What a page reads.                                                      *)

\* The scan takes k up, whatever its versions are.
Begun(k) == IF cursor = Missing THEN ~ Less(k, req.prefix) ELSE Ahead(cursor, k)

\* A cursor that the code can make.
IsCursor(c) == c \in Cursors /\ (c.after = "prefix" => c.name # <<>>)

LEMMA RowIs ==
  ASSUME NEW r \in Rows
  PROVE  /\ r.key \in Names /\ r.key \in Strings
         /\ r.version \in Bytes /\ r.version \in Nat /\ r.last_modified \in Nat
         /\ RowKey(r) = Stored(r.key, r.version) /\ RowKey(r) \in Strings
<1>1. r.key \in Names /\ r.version \in Bytes /\ r.last_modified \in Nat
  BY ListingAssumption DEF Rows
<1>2. r.version \in Nat
  BY <1>1 DEF Bytes
<1> QED
  BY <1>1, <1>2, NameIs, StoredAt DEF RowKey, Stored

LEMMA ScanBegins ==
  ASSUME req \in Requests, cursor = Missing \/ IsCursor(cursor), NEW k \in Names, NEW v \in Bytes
  PROVE  ~ Less(Stored(k, v), ScanStart) <=> Begun(k)
<1>1. CASE cursor = Missing
  BY <1>1, RequestIs, ScanFromPrefix DEF ScanStart, Begun
<1>2. CASE cursor # Missing
  <2>1. cursor.name \in Names /\ cursor.after \in {"key", "prefix"}
    BY <1>2 DEF IsCursor, Cursors
  <2>2. CASE cursor.after = "key"
    <3>1. ScanStart = AfterKey(cursor.name)
      BY <1>2, <2>2 DEF ScanStart
    <3>2. Begun(k) <=> Less(cursor.name, k)
      BY <1>2, <2>2 DEF Begun, Ahead
    <3> QED
      BY <2>1, <3>1, <3>2, ScanAfterKey
  <2>3. CASE cursor.after = "prefix"
    <3>1. ScanStart = AfterPrefix(cursor.name) /\ cursor.name # <<>>
      BY <1>2, <2>3 DEF ScanStart, IsCursor
    <3>2. Begun(k) <=> Less(cursor.name, k) /\ ~ IsPrefix(cursor.name, k)
      BY <1>2, <2>3 DEF Begun, Ahead
    <3> QED
      BY <2>1, <3>1, <3>2, ScanAfterPrefix
  <2> QED
    BY <2>1, <2>2, <2>3
<1> QED
  BY <1>1, <1>2

Committed(rs) == {r \in rs : r.state = "Committed"}

From == {r \in Committed(rows) : Begun(r.key)}

Beyond == {r \in From : ~ IsPrefix(req.prefix, r.key)}

LEMMA ScannedAre ==
  ASSUME req \in Requests, cursor = Missing \/ IsCursor(cursor), IsTable(rows)
  PROVE  Scanned = {r \in From : \A s \in Beyond : Less(RowKey(r), RowKey(s))}
<1>1. \A r \in rows : r \in Rows
  BY DEF IsTable
<1>2. \A r \in rows : ~ Less(RowKey(r), ScanStart) <=> Begun(r.key)
  BY <1>1, RowIs, ScanBegins
<1>3. {r \in rows : r.state = "Committed" /\ ~ Less(RowKey(r), ScanStart)} = From
  BY <1>2 DEF From, Committed
<1> QED
  BY <1>3 DEF Scanned, Beyond

\* A scan reads committed rows with the prefix, all of a key or none.
LEMMA ScannedIs ==
  ASSUME req \in Requests, cursor = Missing \/ IsCursor(cursor), IsTable(rows)
  PROVE  /\ Scanned \subseteq Committed(rows)
         /\ \A r \in Scanned : Begun(r.key) /\ IsPrefix(req.prefix, r.key)
         /\ \A r \in Scanned, s \in Committed(rows) : r.key = s.key => s \in Scanned
<1>1. \A r \in From : r \in Rows /\ r \in Committed(rows) /\ Begun(r.key)
  BY DEF IsTable, From, Committed
<1>2. ASSUME NEW r \in Scanned
      PROVE  r \in From /\ IsPrefix(req.prefix, r.key)
  <2>1. r \in From /\ \A s \in Beyond : Less(RowKey(r), RowKey(s))
    BY ScannedAre
  <2>2. ~ Less(RowKey(r), RowKey(r))
    BY <1>1, <2>1, RowIs, LessIrreflexive
  <2> QED
    BY <2>1, <2>2 DEF Beyond
<1>3. ASSUME NEW r \in Scanned, NEW s \in Committed(rows), r.key = s.key
      PROVE  s \in Scanned
  <2>1. s \in From
    BY <1>1, <1>2, <1>3 DEF From
  <2>2. ASSUME NEW t \in Beyond
        PROVE  Less(RowKey(s), RowKey(t))
    <3>1. r \in Rows /\ s \in Rows /\ t \in Rows
      BY <1>1, <1>2, <2>1 DEF Beyond
    <3>2. Less(RowKey(r), RowKey(t))
      BY <2>2, ScannedAre
    <3>3. r.key # t.key
      BY <1>2 DEF Beyond
    <3>4. Less(r.key, t.key) \/ Less(t.key, r.key)
      BY <3>1, <3>3, RowIs, LessTotal
    <3>5. ~ Less(t.key, r.key)
      <4> SUFFICES ASSUME Less(t.key, r.key)
                   PROVE  FALSE
        OBVIOUS
      <4>1. Less(RowKey(t), RowKey(r))
        BY <3>1, RowIs, StoredInOrder
      <4> QED
        BY <3>1, <3>2, <4>1, RowIs, LessAsymmetric
    <3>6. Less(s.key, t.key)
      BY <1>3, <3>4, <3>5
    <3> QED
      BY <3>1, <3>6, RowIs, StoredInOrder
  <2> QED
    BY <2>1, <2>2, ScannedAre
<1> QED
  BY <1>1, <1>2, <1>3

\* It reaches every key with the prefix that it takes up, unless it began before the
\* prefix.
LEMMA ScanReaches ==
  ASSUME req \in Requests, cursor = Missing \/ IsCursor(cursor), IsTable(rows),
         cursor = Missing \/ ~ Less(cursor.name, req.prefix),
         NEW r \in Committed(rows), Begun(r.key), IsPrefix(req.prefix, r.key)
  PROVE  r \in Scanned
<1>1. r \in From /\ r \in Rows
  BY DEF From, Committed, IsTable
<1>2. ASSUME NEW s \in Beyond
      PROVE  Less(RowKey(r), RowKey(s))
  <2>1. s \in Rows /\ Begun(s.key) /\ ~ IsPrefix(req.prefix, s.key)
    BY DEF Beyond, From, Committed, IsTable
  <2>2. r.key \in Strings /\ s.key \in Strings /\ req.prefix \in Strings
    BY <1>1, <2>1, RowIs, RequestIs, NameIs
  <2>3. ~ Less(s.key, req.prefix)
    <3>1. CASE cursor = Missing
      BY <2>1, <3>1 DEF Begun
    <3>2. CASE cursor # Missing
      <4>1. cursor.name \in Strings
        BY <3>2, NameIs DEF IsCursor, Cursors
      <4>2. Less(cursor.name, s.key) /\ ~ Less(cursor.name, req.prefix)
        BY <2>1, <3>2 DEF Begun, Ahead
      <4>3. Less(req.prefix, s.key)
        BY <2>2, <4>1, <4>2, LessMixed
      <4> QED
        BY <2>2, <4>3, LessAsymmetric
    <3> QED
      BY <3>1, <3>2
  <2>4. Less(r.key, s.key)
    BY <2>1, <2>2, <2>3, BeyondPrefix
  <2> QED
    BY <1>1, <2>1, <2>4, RowIs, StoredInOrder
<1> QED
  BY <1>1, <1>2, ScannedAre

------------------------------------------------------------------------------
(* What the rows of a key show.                                            *)

LEMMA NewerIs ==
  ASSUME NEW r \in Rows, NEW s \in Rows, NEW t \in Rows
  PROVE  /\ ~ Newer(r, r)
         /\ Newer(r, s) => ~ Newer(s, r)
         /\ Newer(r, s) /\ Newer(s, t) => Newer(r, t)
         /\ r.version # s.version => Newer(r, s) \/ Newer(s, r)
<1>1. PICK a, b, c, x, y, z \in Nat :
        /\ a = r.last_modified /\ b = s.last_modified /\ c = t.last_modified
        /\ x = r.version /\ y = s.version /\ z = t.version
  BY RowIs
<1> QED
  BY <1>1 DEF Newer

\* Rows of one key, the newest first.
NewerOrder(S) == {e \in S \X S : Newer(e[1], e[2])}

LEMMA LatestIs ==
  ASSUME NEW S, IsTable(S), NEW k \in KeysOf(S)
  PROVE  /\ Latest(k, S) \in S /\ Latest(k, S).key = k
         /\ \A s \in S : s.key = k /\ s # Latest(k, S) => Newer(Latest(k, S), s)
<1> DEFINE T == {r \in S : r.key = k}
<1>1. T \subseteq S /\ T # {} /\ \A r \in T : r \in Rows
  BY DEF KeysOf, IsTable
<1>2. IsFiniteSet(T)
  BY <1>1, FS_Subset DEF IsTable
<1>3. IsOrder(NewerOrder(T), T)
  <2>1. ASSUME NEW x \in T
        PROVE  <<x, x>> \notin NewerOrder(T)
    BY <1>1, NewerIs DEF NewerOrder
  <2>2. ASSUME NEW x \in T, NEW y \in T, NEW z \in T,
               <<x, y>> \in NewerOrder(T), <<y, z>> \in NewerOrder(T)
        PROVE  <<x, z>> \in NewerOrder(T)
    BY <1>1, <2>2, NewerIs DEF NewerOrder
  <2>3. ASSUME NEW x \in T, NEW y \in T, x # y
        PROVE  <<x, y>> \in NewerOrder(T) \/ <<y, x>> \in NewerOrder(T)
    <3>1. x.version # y.version
      BY <2>3 DEF IsTable
    <3>2. Newer(x, y) \/ Newer(y, x)
      BY <1>1, <3>1, NewerIs
    <3> QED
      BY <3>2 DEF NewerOrder
  <2> QED
    BY <2>1, <2>2, <2>3 DEF IsOrder
<1> HIDE DEF T
<1>4. PICK x \in T : \A y \in T : y # x => <<x, y>> \in NewerOrder(T)
  BY <1>1, <1>2, <1>3, FirstExists
<1>5. \E r \in S : r.key = k /\ \A s \in S : s.key = k /\ s # r => Newer(r, s)
  BY <1>4 DEF T, NewerOrder
<1> QED
  BY <1>5, Zenon DEF Latest

LEMMA PartOfTable ==
  ASSUME NEW S, NEW C, IsTable(C), S \subseteq C
  PROVE  IsTable(S)
BY FS_Subset DEF IsTable

LEMMA CommittedIsTable ==
  ASSUME NEW rs, IsTable(rs)
  PROVE  IsTable(Committed(rs))
<1>1. Committed(rs) \subseteq rs
  BY DEF Committed
<1> QED
  BY <1>1, PartOfTable

\* Some object of C with key k that nothing in C is newer than.
ShownIn(k, C) ==
  \E r \in C : /\ r.key = k /\ r.kind = "Object"
               /\ \A s \in C : s.key = r.key => ~ Newer(s, r)

\* A part of the table with all rows of its keys shows of them what the table shows.
LEMMA VisibleIs ==
  ASSUME NEW C, IsTable(C), NEW S, S \subseteq C,
         \A r \in S, s \in C : r.key = s.key => s \in S,
         NEW k \in KeysOf(S)
  PROVE  k \in Visible(S) <=> ShownIn(k, C)
<1> DEFINE x == Latest(k, S)
<1>1. IsTable(S)
  BY PartOfTable
<1>2. x \in S /\ x.key = k /\ \A s \in S : s.key = k /\ s # x => Newer(x, s)
  BY <1>1, LatestIs
<1>3. \A r \in C : r \in Rows
  BY DEF IsTable
<1>4. \A s \in C : s.key = k => s \in S
  BY <1>2
<1> HIDE DEF x
<1>5. ASSUME x.kind = "Object"
      PROVE  ShownIn(k, C)
  <2>1. ASSUME NEW s \in C, s.key = k
        PROVE  ~ Newer(s, x)
    <3>1. s \in S /\ s \in Rows /\ x \in Rows
      BY <1>2, <1>3, <1>4, <2>1
    <3>2. CASE s = x
      BY <3>1, <3>2, NewerIs
    <3>3. CASE s # x
      BY <1>2, <2>1, <3>1, <3>3, NewerIs
    <3> QED
      BY <3>2, <3>3
  <2>2. x \in C
    BY <1>2
  <2> QED
    BY <1>2, <1>5, <2>1, <2>2 DEF ShownIn
<1>6. ASSUME ShownIn(k, C)
      PROVE  x.kind = "Object"
  <2>1. PICK r \in C : /\ r.key = k /\ r.kind = "Object"
                       /\ \A s \in C : s.key = r.key => ~ Newer(s, r)
    BY <1>6 DEF ShownIn
  <2>2. r \in S /\ x \in C
    BY <1>2, <1>4, <2>1
  <2>3. ~ Newer(x, r)
    BY <1>2, <2>1, <2>2
  <2>4. r = x
    BY <1>2, <2>1, <2>2, <2>3
  <2> QED
    BY <2>1, <2>4
<1>7. k \in Visible(S) <=> x.kind = "Object"
  BY DEF Visible, x
<1> QED
  BY <1>5, <1>6, <1>7

LEMMA ShownIs ==
  ASSUME NEW rs, IsTable(rs), NEW k
  PROVE  k \in Shown(rs) <=>
           \/ req.op = "versions" /\ k \in KeysOf(Committed(rs))
           \/ req.op # "versions" /\ ShownIn(k, Committed(rs))
<1> DEFINE C == Committed(rs)
           current == {r \in C : \A s \in C : s.key = r.key => ~ Newer(s, r)}
<1>1. Shown(rs) = KeysOf(IF req.op = "versions" THEN C ELSE {r \in current : r.kind = "Object"})
  BY DEF Shown, Committed
<1>2. CASE req.op = "versions"
  BY <1>1, <1>2
<1>3. CASE req.op # "versions"
  <2>1. Shown(rs) = {r.key : r \in {r \in current : r.kind = "Object"}}
    BY <1>1, <1>3 DEF KeysOf
  <2> HIDE DEF C
  <2>2. k \in Shown(rs) <=> ShownIn(k, C)
    BY <2>1 DEF ShownIn
  <2> QED
    BY <1>3, <2>2 DEF C
<1> QED
  BY <1>2, <1>3

------------------------------------------------------------------------------
(* Pages.                                                                  *)

LEMMA LimitIs ==
  ASSUME req \in Requests, req.max_keys # 0
  PROVE  Limit \in Nat /\ Limit >= 1
<1>1. MaxMaxKeys \in Nat /\ MaxMaxKeys >= 1
  BY ListingAssumption
<1>2. CASE req.max_keys = Missing
  BY <1>1, <1>2 DEF Limit
<1>3. CASE req.max_keys # Missing
  <2>1. req.max_keys \in Nat
    BY <1>3, RequestIs
  <2>2. PICK m \in Nat : m = req.max_keys
    BY <2>1
  <2>3. m >= 1
    BY <2>2
  <2>4. Limit = IF m > MaxMaxKeys THEN MaxMaxKeys ELSE m
    BY <1>3, <2>2 DEF Limit
  <2> QED
    BY <1>1, <2>3, <2>4
<1> QED
  BY <1>2, <1>3

\* A page is a beginning of what there is: all of it, or the first Limit.
LEMMA PageIs ==
  ASSUME NEW X, NEW seq \in Seq(X), Limit \in Nat, Limit >= 1
  PROVE  /\ PageOf(seq).items \in Seq(X) /\ PageOf(seq).truncated \in BOOLEAN
         /\ Len(PageOf(seq).items) \in Nat /\ Len(PageOf(seq).items) <= Len(seq)
         /\ \A i \in 1..Len(PageOf(seq).items) : PageOf(seq).items[i] = seq[i]
         /\ ~ PageOf(seq).truncated => Len(PageOf(seq).items) = Len(seq)
         /\ PageOf(seq).truncated
              => Len(PageOf(seq).items) >= 1 /\ Len(PageOf(seq).items) = Limit
<1>1. PICK len \in Nat : len = Len(seq)
  BY LenProperties
<1>2. PICK n \in Nat : /\ n = IF len > Limit THEN Limit ELSE len
                       /\ n <= len /\ (~ (len > Limit) => n = len) /\ (len > Limit => n >= 1 /\ n = Limit)
  OBVIOUS
<1> DEFINE u == SubSeq(seq, 1, n)
<1>3. PageOf(seq) = [items |-> u, truncated |-> len > Limit]
  BY <1>1, <1>2 DEF PageOf
<1>4. \A i \in 1..n : seq[i] \in X
  <2>1. \A i \in 1..n : i \in 1..Len(seq)
    BY <1>1, <1>2
  <2> QED
    BY <2>1, ElementOfSeq
<1>5. /\ u \in Seq(X)
      /\ Len(u) = IF 1 <= n THEN n - 1 + 1 ELSE 0
      /\ \A i \in 1..n - 1 + 1 : u[i] = seq[1 + i - 1]
  BY <1>4, SubSeqProperties
<1>6. Len(u) = n /\ \A i \in 1..n : i \in 1..n - 1 + 1 /\ 1 + i - 1 = i
  BY <1>5
<1> HIDE DEF u
<1>7. \A i \in 1..Len(u) : u[i] = seq[i]
  BY <1>5, <1>6
<1>8. PageOf(seq).items = u /\ PageOf(seq).truncated = (len > Limit)
  BY <1>3
<1>9. Len(u) \in Nat /\ Len(u) <= Len(seq)
  BY <1>1, <1>2, <1>6
<1>10. (len > Limit) \in BOOLEAN
  OBVIOUS
<1>11. ~ PageOf(seq).truncated => Len(u) = Len(seq)
  BY <1>1, <1>2, <1>6, <1>8
<1>12. PageOf(seq).truncated => Len(u) >= 1 /\ Len(u) = Limit
  BY <1>2, <1>6, <1>8
<1> QED
  BY <1>5, <1>7, <1>8, <1>9, <1>10, <1>11, <1>12

\* What is not on a page whose list is sorted comes after all that is.
LEMMA PageOfSorted ==
  ASSUME NEW X, NEW seq \in Seq(X), Limit \in Nat, Limit >= 1,
         NEW j \in 1..Len(seq)
  PROVE  \/ j \in 1..Len(PageOf(seq).items) /\ PageOf(seq).items[j] = seq[j]
         \/ /\ PageOf(seq).truncated
            /\ Len(PageOf(seq).items) \in 1..Len(seq) /\ Len(PageOf(seq).items) < j
            /\ Last(PageOf(seq).items) = seq[Len(PageOf(seq).items)]
<1> DEFINE u == PageOf(seq).items
           tr == PageOf(seq).truncated
<1>1. /\ Len(u) \in Nat /\ Len(u) <= Len(seq) /\ tr \in BOOLEAN
      /\ \A i \in 1..Len(u) : u[i] = seq[i]
      /\ ~ tr => Len(u) = Len(seq)
      /\ tr => Len(u) >= 1
  BY PageIs
<1>2. PICK n, len \in Nat : n = Len(u) /\ len = Len(seq)
  BY <1>1, LenProperties
<1> HIDE DEF u, tr
<1>3. CASE j \in 1..n
  BY <1>1, <1>2, <1>3 DEF u
<1>4. CASE j \notin 1..n
  <2>1. j \in 1..len
    BY <1>2
  <2>2. n < j
    BY <1>4, <2>1
  <2>3. tr
    BY <1>1, <1>2, <2>1, <2>2
  <2>4. n \in 1..n /\ n \in 1..len
    BY <1>1, <1>2, <2>3
  <2>5. Last(u) = seq[n]
    BY <1>1, <1>2, <2>4 DEF Last
  <2> QED
    BY <1>2, <2>2, <2>3, <2>4, <2>5 DEF u, tr
<1> QED
  BY <1>3, <1>4

ItemsOf(V) == {Item(k) : k \in V}

LEMMA ItemsFinite ==
  ASSUME NEW S, IsFiniteSet(S)
  PROVE  IsFiniteSet(ItemsOf(Visible(S)))
<1> DEFINE T == {r \in S : r.key \in Visible(S)}
           f == [r \in T |-> Item(r.key)]
<1>1. IsFiniteSet(T)
  BY FS_Subset
<1>2. \A k \in Visible(S) : \E r \in T : r.key = k
  BY DEF Visible, KeysOf
<1>3. f \in Surjection(T, ItemsOf(Visible(S)))
  BY <1>2 DEF Surjection, ItemsOf
<1> HIDE DEF f, T
<1> QED
  BY <1>1, <1>3, FS_Surjection

\* The items of a page have one order: no two have the same name.
LEMMA ItemsInOrder ==
  ASSUME req \in Requests, NEW V, V \subseteq Names
  PROVE  IsOrder(NameOrder(ItemsOf(V)), ItemsOf(V))
<1> DEFINE I == ItemsOf(V)
<1>1. \A x \in I : x.name \in Strings /\ Item(x.name) = x
  BY ItemIs, NameIs DEF ItemsOf
<1>2. ASSUME NEW x \in I, NEW y \in I
      PROVE  <<x, y>> \in NameOrder(I) <=> Less(x.name, y.name)
  BY DEF NameOrder, NameBefore
<1> HIDE DEF I
<1>3. ASSUME NEW x \in I
      PROVE  <<x, x>> \notin NameOrder(I)
  BY <1>1, <1>2, LessIrreflexive
<1>4. ASSUME NEW x \in I, NEW y \in I, NEW z \in I,
             <<x, y>> \in NameOrder(I), <<y, z>> \in NameOrder(I)
      PROVE  <<x, z>> \in NameOrder(I)
  BY <1>1, <1>2, <1>4, LessTransitive
<1>5. ASSUME NEW x \in I, NEW y \in I, x # y
      PROVE  <<x, y>> \in NameOrder(I) \/ <<y, x>> \in NameOrder(I)
  <2>1. x.name # y.name
    BY <1>1, <1>5
  <2> QED
    BY <1>1, <1>2, <2>1, LessTotal
<1>6. IsOrder(NameOrder(I), I)
  BY <1>3, <1>4, <1>5 DEF IsOrder
<1> QED
  BY <1>6 DEF I

\* A page of objects: the names ascend, and what is not on it comes after it.
LEMMA ObjectsPageIs ==
  ASSUME req \in Requests, req.max_keys # 0, NEW S, IsTable(S)
  PROVE  /\ ObjectsPage(S).items \in Seq(ItemsOf(Visible(S)))
         /\ ObjectsPage(S).truncated \in BOOLEAN
         /\ ObjectsPage(S).truncated => Len(ObjectsPage(S).items) >= 1
         /\ \A i, j \in 1..Len(ObjectsPage(S).items) :
              i < j => Less(ObjectsPage(S).items[i].name, ObjectsPage(S).items[j].name)
         /\ \A k \in Visible(S) :
              \/ \E i \in 1..Len(ObjectsPage(S).items) : ObjectsPage(S).items[i] = Item(k)
              \/ /\ ObjectsPage(S).truncated
                 /\ Less(Last(ObjectsPage(S).items).name, Item(k).name)
<1> DEFINE I == ItemsOf(Visible(S))
           f == InOrder(I, NameBefore)
           u == PageOf(f).items
           tr == PageOf(f).truncated
<1>1. ObjectsPage(S) = PageOf(f)
  BY DEF ObjectsPage, ItemsOf
<1>2. Visible(S) \subseteq Names
  BY RowIs DEF Visible, KeysOf, IsTable
<1>3. IsFiniteSet(I) /\ IsOrder(NameOrder(I), I)
  BY <1>2, ItemsFinite, ItemsInOrder DEF IsTable
<1>4. RanksInOrder(f, I, NameOrder(I))
  <2> HIDE DEF I
  <2> QED
    BY <1>3, NamesSorted
<1> HIDE DEF f, I
<1>5. /\ f \in Seq(I) /\ Len(f) \in Nat
      /\ \A i, j \in 1..Len(f) : i < j => <<f[i], f[j]>> \in NameOrder(I)
      /\ \A x \in I : \E i \in 1..Len(f) : f[i] = x
  BY <1>3, <1>4, SortedIs
<1>6. \A i, j \in 1..Len(f) : i < j => Less(f[i].name, f[j].name)
  BY <1>5 DEF NameOrder, NameBefore
<1>7. Limit \in Nat /\ Limit >= 1
  BY LimitIs
<1>8. /\ u \in Seq(I) /\ tr \in BOOLEAN
      /\ Len(u) \in Nat /\ Len(u) <= Len(f)
      /\ \A i \in 1..Len(u) : u[i] = f[i]
      /\ tr => Len(u) >= 1
  BY <1>5, <1>7, PageIs
<1>9. ASSUME NEW i \in 1..Len(u), NEW j \in 1..Len(u), i < j
      PROVE  Less(u[i].name, u[j].name)
  <2>1. i \in 1..Len(f) /\ j \in 1..Len(f)
    <3>1. PICK n, m \in Nat : n = Len(u) /\ m = Len(f) /\ n <= m
      BY <1>5, <1>8
    <3> HIDE DEF u
    <3> QED
      BY <3>1
  <2> QED
    BY <1>6, <1>8, <1>9, <2>1
<1>10. ASSUME NEW k \in Visible(S)
       PROVE  \/ \E i \in 1..Len(u) : u[i] = Item(k)
              \/ tr /\ Less(Last(u).name, Item(k).name)
  <2>1. Item(k) \in I
    BY DEF I, ItemsOf
  <2>2. PICK j \in 1..Len(f) : f[j] = Item(k)
    BY <1>5, <2>1
  <2>3. \/ j \in 1..Len(u) /\ u[j] = f[j]
        \/ tr /\ Len(u) \in 1..Len(f) /\ Len(u) < j /\ Last(u) = f[Len(u)]
    BY <1>5, <1>7, PageOfSorted
  <2> HIDE DEF u, tr
  <2> QED
    BY <1>6, <2>2, <2>3
<1> HIDE DEF u, tr
<1>11. ObjectsPage(S).items = u /\ ObjectsPage(S).truncated = tr
  BY <1>1 DEF u, tr
<1> QED
  BY <1>8, <1>9, <1>10, <1>11 DEF I

\* The rows of a table have one order: by key, and the newest first.
LEMMA RowsInOrder ==
  ASSUME NEW S, IsTable(S)
  PROVE  IsOrder(RowOrder(S), S)
<1>1. \A r \in S : r \in Rows /\ r.key \in Strings
  BY RowIs DEF IsTable
<1>2. ASSUME NEW x \in S, NEW y \in S
      PROVE  <<x, y>> \in RowOrder(S) <=> Less(x.key, y.key) \/ (x.key = y.key /\ Newer(x, y))
  BY DEF RowOrder, RowBefore
<1>3. ASSUME NEW x \in S
      PROVE  <<x, x>> \notin RowOrder(S)
  BY <1>1, <1>2, LessIrreflexive, NewerIs
<1>4. ASSUME NEW x \in S, NEW y \in S, NEW z \in S,
             <<x, y>> \in RowOrder(S), <<y, z>> \in RowOrder(S)
      PROVE  <<x, z>> \in RowOrder(S)
  <2>1. Less(x.key, y.key) /\ Less(y.key, z.key) => Less(x.key, z.key)
    BY <1>1, LessTransitive
  <2>2. Newer(x, y) /\ Newer(y, z) => Newer(x, z)
    BY <1>1, NewerIs
  <2> QED
    BY <1>2, <1>4, <2>1, <2>2
<1>5. ASSUME NEW x \in S, NEW y \in S, x # y
      PROVE  <<x, y>> \in RowOrder(S) \/ <<y, x>> \in RowOrder(S)
  <2>1. CASE x.key = y.key
    <3>1. x.version # y.version
      BY <1>5, <2>1 DEF IsTable
    <3>2. Newer(x, y) \/ Newer(y, x)
      BY <1>1, <3>1, NewerIs
    <3> QED
      BY <1>2, <2>1, <3>2
  <2>2. CASE x.key # y.key
    <3>1. Less(x.key, y.key) \/ Less(y.key, x.key)
      BY <1>1, <2>2, LessTotal
    <3> QED
      BY <1>2, <3>1
  <2> QED
    BY <2>1, <2>2
<1> QED
  BY <1>3, <1>4, <1>5 DEF IsOrder

Entry(r, S) == [what |-> "version", name |-> r.key, version |-> r.version,
                is_latest |-> r = Latest(r.key, S)]

EntriesOf(S) == {Entry(r, S) : r \in S}

\* A page of versions: the keys ascend, the versions of a key differ, and a key whose
\* current version is not on the page comes after all that is.
LEMMA VersionsPageIs ==
  ASSUME req \in Requests, req.max_keys # 0, NEW S, IsTable(S)
  PROVE  /\ VersionsPage(S).items \in Seq(EntriesOf(S))
         /\ VersionsPage(S).truncated \in BOOLEAN
         /\ VersionsPage(S).truncated => Len(VersionsPage(S).items) >= 1
         /\ \A i, j \in 1..Len(VersionsPage(S).items) :
              i < j => \/ Less(VersionsPage(S).items[i].name, VersionsPage(S).items[j].name)
                       \/ /\ VersionsPage(S).items[i].name = VersionsPage(S).items[j].name
                          /\ VersionsPage(S).items[i].version # VersionsPage(S).items[j].version
         /\ \A k \in KeysOf(S) :
              \/ \E i \in 1..Len(VersionsPage(S).items) :
                   VersionsPage(S).items[i].name = k /\ VersionsPage(S).items[i].is_latest
              \/ /\ VersionsPage(S).truncated
                 /\ Less(Last(VersionsPage(S).items).name, k)
<1> DEFINE f == InOrder(S, RowBefore)
           g == [i \in DOMAIN f |-> Entry(f[i], S)]
           u == PageOf(g).items
           tr == PageOf(g).truncated
<1>1. VersionsPage(S) = PageOf(g)
  BY DEF VersionsPage, Entry
<1>2. IsFiniteSet(S) /\ IsOrder(RowOrder(S), S) /\ \A r \in S : r \in Rows
  BY RowsInOrder DEF IsTable
<1>3. RanksInOrder(f, S, RowOrder(S))
  BY <1>2, RowsSorted
<1> HIDE DEF f
<1>4. /\ f \in Seq(S) /\ Len(f) \in Nat /\ \A i \in 1..Len(f) : f[i] \in S
      /\ \A i, j \in 1..Len(f) : i < j => <<f[i], f[j]>> \in RowOrder(S)
      /\ \A x \in S : \E i \in 1..Len(f) : f[i] = x
  BY <1>2, <1>3, SortedIs
<1>5. \A i, j \in 1..Len(f) :
        i < j => Less(f[i].key, f[j].key) \/ (f[i].key = f[j].key /\ Newer(f[i], f[j]))
  BY <1>4 DEF RowOrder, RowBefore
<1>6. g \in Seq(EntriesOf(S)) /\ Len(g) = Len(f) /\ \A i \in 1..Len(f) : g[i] = Entry(f[i], S)
  <2>1. DOMAIN f = 1..Len(f)
    BY <1>4, LenProperties
  <2>2. g \in [1..Len(f) -> EntriesOf(S)]
    BY <1>4, <2>1 DEF EntriesOf
  <2>3. g \in Seq(EntriesOf(S))
    BY <1>4, <2>2, SeqDef
  <2>4. Len(g) = Len(f)
    BY <1>4, <2>2, <2>3, LenProperties
  <2> QED
    BY <2>1, <2>3, <2>4
<1> HIDE DEF g
<1>7. Limit \in Nat /\ Limit >= 1
  BY LimitIs
<1>8. /\ u \in Seq(EntriesOf(S)) /\ tr \in BOOLEAN
      /\ Len(u) \in Nat /\ Len(u) <= Len(f)
      /\ \A i \in 1..Len(u) : u[i] = g[i]
      /\ tr => Len(u) >= 1
  BY <1>6, <1>7, PageIs
<1>9. \A i \in 1..Len(u) : i \in 1..Len(f)
  <2>1. PICK n, m \in Nat : n = Len(u) /\ m = Len(f) /\ n <= m
    BY <1>4, <1>8
  <2> HIDE DEF u
  <2> QED
    BY <2>1
<1>10. ASSUME NEW i \in 1..Len(u), NEW j \in 1..Len(u), i < j
       PROVE  \/ Less(u[i].name, u[j].name)
              \/ u[i].name = u[j].name /\ u[i].version # u[j].version
  <2>1. i \in 1..Len(f) /\ j \in 1..Len(f)
    BY <1>9
  <2>2. u[i] = Entry(f[i], S) /\ u[j] = Entry(f[j], S)
    BY <1>6, <1>8, <2>1
  <2> HIDE DEF u
  <2>3. /\ u[i].name = f[i].key /\ u[j].name = f[j].key
        /\ u[i].version = f[i].version /\ u[j].version = f[j].version
    BY <2>2 DEF Entry
  <2>4. f[i] \in S /\ f[j] \in S /\ f[i] \in Rows /\ f[j] \in Rows
    BY <1>2, <1>4, <2>1
  <2>5. Less(f[i].key, f[j].key) \/ (f[i].key = f[j].key /\ Newer(f[i], f[j]))
    BY <1>5, <1>10, <2>1
  <2>6. f[i].key = f[j].key /\ Newer(f[i], f[j]) => f[i].version # f[j].version
    BY <2>4, NewerIs DEF IsTable
  <2> QED
    BY <2>3, <2>5, <2>6
<1>11. ASSUME NEW k \in KeysOf(S)
       PROVE  \/ \E i \in 1..Len(u) : u[i].name = k /\ u[i].is_latest
              \/ tr /\ Less(Last(u).name, k)
  <2> DEFINE x == Latest(k, S)
  <2>1. x \in S /\ x.key = k /\ \A s \in S : s.key = k /\ s # x => Newer(x, s)
    BY LatestIs
  <2>2. PICK j \in 1..Len(f) : f[j] = x
    BY <1>4, <2>1
  <2>3. \/ j \in 1..Len(u) /\ u[j] = g[j]
        \/ tr /\ Len(u) \in 1..Len(f) /\ Len(u) < j /\ Last(u) = g[Len(u)]
    BY <1>6, <1>7, <2>2, PageOfSorted
  <2> HIDE DEF u, tr
  <2>4. CASE j \in 1..Len(u) /\ u[j] = g[j]
    <3>1. u[j] = Entry(x, S)
      BY <1>6, <2>2, <2>4
    <3>2. u[j].name = k /\ u[j].is_latest = (x = Latest(x.key, S))
      BY <2>1, <3>1 DEF Entry
    <3>3. x = Latest(x.key, S)
      BY <2>1
    <3> QED
      BY <2>4, <3>2, <3>3
  <2>5. CASE tr /\ Len(u) \in 1..Len(f) /\ Len(u) < j /\ Last(u) = g[Len(u)]
    <3>1. PICK n \in 1..Len(f) : n = Len(u) /\ n < j
      BY <2>5
    <3>2. f[n] \in S /\ f[n] \in Rows /\ x \in Rows
      BY <1>2, <1>4, <2>1
    <3>3. Last(u).name = f[n].key
      <4>1. Last(u) = Entry(f[n], S)
        BY <1>6, <2>5, <3>1
      <4> QED
        BY <4>1 DEF Entry
    <3>4. Less(f[n].key, x.key) \/ (f[n].key = x.key /\ Newer(f[n], x))
      BY <1>5, <2>2, <3>1
    <3>5. ~ (f[n].key = x.key /\ Newer(f[n], x))
      BY <2>1, <3>2, NewerIs
    <3> QED
      BY <2>1, <2>5, <3>3, <3>4, <3>5
  <2> QED
    BY <2>3, <2>4, <2>5
<1> HIDE DEF u, tr
<1>12. VersionsPage(S).items = u /\ VersionsPage(S).truncated = tr
  BY <1>1 DEF u, tr
<1> QED
  BY <1>8, <1>10, <1>11, <1>12

------------------------------------------------------------------------------
(* A page in a state of the listing.                                       *)

LEMMA OutIs ==
  ASSUME out \in Seq(Items)
  PROVE  /\ Len(out) \in Nat /\ DOMAIN out = 1..Len(out)
         /\ \A i \in DOMAIN out : out[i] \in Items /\ out[i].name \in Names
         /\ out # <<>> => /\ Len(out) \in DOMAIN out /\ Last(out) = out[Len(out)]
                          /\ Last(out).name \in Names
<1>1. Len(out) \in Nat /\ DOMAIN out = 1..Len(out)
  BY LenProperties
<1>2. \A i \in DOMAIN out : out[i] \in Items
  BY <1>1, ElementOfSeq
<1>3. \A x \in Items : x.name \in Names
  BY DEF Items
<1>4. ASSUME out # <<>>
      PROVE  Len(out) \in DOMAIN out /\ Last(out) = out[Len(out)]
  <2>1. Len(out) # 0
    BY <1>4, EmptySeq
  <2>2. Len(out) \in 1..Len(out)
    BY <1>1, <2>1
  <2> QED
    BY <1>1, <2>2 DEF Last
<1> QED
  BY <1>1, <1>2, <1>3, <1>4

\* The last item that was listed is the item of its own name.
LEMMA LastIs ==
  ASSUME InputOK, ListedOK, out # <<>>
  PROVE  /\ Last(out).name \in Names /\ Last(out).name \in Strings
         /\ IsPrefix(req.prefix, Last(out).name)
         /\ Last(out).what = "version" <=> req.op = "versions"
         /\ req.op # "versions" => Item(Last(out).name) = Last(out)
<1>1. Len(out) \in DOMAIN out /\ Last(out) = out[Len(out)] /\ Last(out).name \in Names
  BY OutIs DEF InputOK
<1> QED
  BY <1>1, NameIs DEF ListedOK

\* The cursor is one that can be scanned from, and one that a page led to does not
\* come before the prefix.
LEMMA CursorIs ==
  ASSUME InputOK, ListedOK, CursorOK, status \in {"ready", "admitted"}
  PROVE  /\ cursor = Missing \/ IsCursor(cursor)
         /\ out = <<>> => cursor = FirstCursor(req)
         /\ out # <<>> => /\ cursor = NextCursor(Last(out)) /\ cursor # Missing
                          /\ ~ Less(cursor.name, req.prefix)
<1>1. req \in Requests
  BY DEF InputOK
<1>2. CASE out = <<>>
  <2>1. cursor = FirstCursor(req)
    BY <1>2 DEF CursorOK
  <2>2. cursor = Missing \/ IsCursor(cursor)
    BY <1>1, <2>1, RequestIs DEF FirstCursor, IsCursor, Cursors
  <2> QED
    BY <1>2, <2>1, <2>2
<1>3. CASE out # <<>>
  <2> DEFINE x == Last(out)
  <2>1. cursor = NextCursor(x)
    BY <1>3 DEF CursorOK
  <2>2. /\ x.name \in Names /\ x.name \in Strings /\ IsPrefix(req.prefix, x.name)
        /\ req.op # "versions" => Item(x.name) = x
    BY <1>3, LastIs
  <2> HIDE DEF x
  <2>3. x.what = "prefix" /\ req.op = "v2" => x.name # <<>>
    BY <1>1, <2>2, ItemIs
  <2>4. cursor.name = x.name /\ IsCursor(cursor)
    BY <2>1, <2>2, <2>3 DEF NextCursor, IsCursor, Cursors
  <2>5. cursor # Missing
    BY <2>4, ListingAssumption DEF IsCursor
  <2>6. ~ Less(x.name, req.prefix)
    <3>1. req.prefix \in Strings
      BY <1>1, RequestIs, NameIs
    <3>2. req.prefix = x.name \/ Less(req.prefix, x.name)
      BY <2>2, <3>1, PrefixFirst
    <3> QED
      BY <2>2, <3>1, <3>2, LessAsymmetric, LessIrreflexive
  <2> QED
    BY <1>3, <2>1, <2>4, <2>5, <2>6 DEF x
<1> QED
  BY <1>2, <1>3

\* x is what the request lists k as.
ListedAs(x, k) ==
  IF req.op = "versions" THEN x.what = "version" /\ x.name = k ELSE x = Item(k)

\* Every item of a page stands for a key that the bucket shows and that the scan
\* took up.
LEMMA PageShows ==
  ASSUME InputOK, ListedOK, CursorOK, status = "admitted",
         NEW page, page = Page(Scanned)
  PROVE  /\ page.items \in Seq(Items) /\ page.truncated \in BOOLEAN
         /\ page.truncated => Len(page.items) >= 1
         /\ \A i \in 1..Len(page.items) :
              \E k \in Shown(rows) : /\ k \in Names /\ Begun(k) /\ IsPrefix(req.prefix, k)
                                     /\ ListedAs(page.items[i], k)
         /\ \A i, j \in 1..Len(page.items) :
              i < j => \/ Less(page.items[i].name, page.items[j].name)
                       \/ /\ req.op = "versions" /\ page.items[i].name = page.items[j].name
                          /\ page.items[i].version # page.items[j].version
<1> DEFINE S == Scanned
           C == Committed(rows)
<1>1. req \in Requests /\ req.max_keys # 0 /\ IsTable(rows)
  BY DEF InputOK
<1>2. cursor = Missing \/ IsCursor(cursor)
  BY CursorIs
<1>3. /\ S \subseteq C /\ \A r \in S : Begun(r.key) /\ IsPrefix(req.prefix, r.key)
      /\ \A r \in S, s \in C : r.key = s.key => s \in S
  BY <1>1, <1>2, ScannedIs
<1>4. IsTable(C) /\ IsTable(S)
  BY <1>1, <1>3, CommittedIsTable, PartOfTable
<1> HIDE DEF S, C
<1>5. \A r \in S : r \in Rows /\ r.key \in Names
  BY <1>4, RowIs DEF IsTable
<1>6. CASE req.op = "versions"
  <2>1. page = VersionsPage(S)
    BY <1>6 DEF Page, S
  <2>2. /\ page.items \in Seq(EntriesOf(S)) /\ page.truncated \in BOOLEAN
        /\ page.truncated => Len(page.items) >= 1
        /\ \A i, j \in 1..Len(page.items) :
              i < j => \/ Less(page.items[i].name, page.items[j].name)
                       \/ /\ page.items[i].name = page.items[j].name
                          /\ page.items[i].version # page.items[j].version
    BY <1>1, <1>4, <2>1, VersionsPageIs
  <2>3. EntriesOf(S) \subseteq Items
    <3>1. ASSUME NEW r \in S
          PROVE  Entry(r, S) \in Items
      <4>1. PICK b \in BOOLEAN : b = (r = Latest(r.key, S))
        OBVIOUS
      <4>2. r.key \in Names /\ r.version \in Versions
        BY <1>5 DEF Rows
      <4>3. [what |-> "version", name |-> r.key, version |-> r.version, is_latest |-> b] \in Items
        BY <4>2 DEF Items
      <4> QED
        BY <4>1, <4>3 DEF Entry
    <3> QED
      BY <3>1 DEF EntriesOf
  <2>4. page.items \in Seq(Items)
    BY <2>2, <2>3, SeqMonotonic
  <2>5. ASSUME NEW i \in 1..Len(page.items)
        PROVE  \E k \in Shown(rows) : /\ k \in Names /\ Begun(k) /\ IsPrefix(req.prefix, k)
                                      /\ ListedAs(page.items[i], k)
    <3>1. page.items[i] \in EntriesOf(S)
      BY <2>2, ElementOfSeq
    <3>2. PICK r \in S : page.items[i] = Entry(r, S)
      BY <3>1 DEF EntriesOf
    <3>3. r.key \in Shown(rows)
      <4>1. r.key \in KeysOf(C)
        BY <1>3 DEF KeysOf
      <4> QED
        BY <1>1, <1>6, <4>1, ShownIs DEF C
    <3>4. ListedAs(page.items[i], r.key)
      BY <1>6, <3>2 DEF ListedAs, Entry
    <3> QED
      BY <1>3, <1>5, <3>3, <3>4
  <2> QED
    BY <1>6, <2>2, <2>4, <2>5
<1>7. CASE req.op # "versions"
  <2>1. page = ObjectsPage(S)
    BY <1>7 DEF Page, S
  <2>2. /\ page.items \in Seq(ItemsOf(Visible(S))) /\ page.truncated \in BOOLEAN
        /\ page.truncated => Len(page.items) >= 1
        /\ \A i, j \in 1..Len(page.items) :
             i < j => Less(page.items[i].name, page.items[j].name)
    BY <1>1, <1>4, <2>1, ObjectsPageIs
  <2>3. ASSUME NEW k \in Visible(S)
        PROVE  k \in Shown(rows) /\ k \in Names /\ Begun(k) /\ IsPrefix(req.prefix, k)
    <3>1. k \in KeysOf(S)
      BY DEF Visible
    <3>2. PICK r \in S : k = r.key
      BY <3>1 DEF KeysOf
    <3>3. ShownIn(k, C)
      BY <1>3, <1>4, <3>1, VisibleIs
    <3>4. k \in Shown(rows)
      BY <1>1, <1>7, <3>3, ShownIs DEF C
    <3> QED
      BY <1>3, <1>5, <3>2, <3>4
  <2>4. ItemsOf(Visible(S)) \subseteq Items
    BY <1>1, <2>3, ItemIs DEF ItemsOf, Items
  <2>5. page.items \in Seq(Items)
    BY <2>2, <2>4, SeqMonotonic
  <2>6. ASSUME NEW i \in 1..Len(page.items)
        PROVE  \E k \in Shown(rows) : /\ k \in Names /\ Begun(k) /\ IsPrefix(req.prefix, k)
                                      /\ ListedAs(page.items[i], k)
    <3>1. page.items[i] \in ItemsOf(Visible(S))
      BY <2>2, ElementOfSeq
    <3>2. PICK k \in Visible(S) : page.items[i] = Item(k)
      BY <3>1 DEF ItemsOf
    <3>3. ListedAs(page.items[i], k)
      BY <1>7, <3>2 DEF ListedAs
    <3> QED
      BY <2>3, <3>3
  <2> QED
    BY <2>2, <2>5, <2>6
<1> QED
  BY <1>6, <1>7

\* What was asked for and is ahead of the cursor is on the page, or ahead of the
\* next one.
LEMMA PageReaches ==
  ASSUME InputOK, ListedOK, CursorOK, status = "admitted",
         NEW page, page = Page(Scanned),
         NEW k \in Shown(rows), Asked(k), Ahead(cursor, k)
  PROVE  \/ \E i \in 1..Len(page.items) : Current(page.items[i], k)
         \/ page.truncated /\ Ahead(NextCursor(Last(page.items)), k)
<1> DEFINE S == Scanned
           C == Committed(rows)
<1>1. req \in Requests /\ req.max_keys # 0 /\ IsTable(rows)
  BY DEF InputOK
<1>2. cursor = Missing \/ IsCursor(cursor)
  BY CursorIs
<1>3. /\ S \subseteq C
      /\ \A r \in S, s \in C : r.key = s.key => s \in S
  BY <1>1, <1>2, ScannedIs
<1>4. IsTable(C) /\ IsTable(S)
  BY <1>1, <1>3, CommittedIsTable, PartOfTable
<1>5. IsPrefix(req.prefix, k)
  BY DEF Asked
<1>6. PICK r \in C : r.key = k
  BY <1>1, ShownIs DEF ShownIn, KeysOf
<1>7. r \in Rows /\ k \in Names /\ k \in Strings /\ req.prefix \in Strings /\ req.prefix \in Names
  BY <1>1, <1>4, <1>6, RowIs, RequestIs, NameIs DEF IsTable
<1>8. Begun(k)
  <2>1. CASE cursor = Missing
    <3>1. req.prefix = k \/ Less(req.prefix, k)
      BY <1>5, <1>7, PrefixFirst
    <3>2. ~ Less(k, req.prefix)
      BY <1>7, <3>1, LessAsymmetric, LessIrreflexive
    <3> QED
      BY <2>1, <3>2 DEF Begun
  <2>2. CASE cursor # Missing
    BY <2>2 DEF Begun
  <2> QED
    BY <2>1, <2>2
<1>9. cursor = Missing \/ ~ Less(cursor.name, req.prefix)
  <2>1. CASE out = <<>>
    <3>1. cursor = FirstCursor(req)
      BY <2>1, CursorIs
    <3>2. cursor # Missing => cursor.name = req.start /\ req.start # Missing
      BY <3>1 DEF FirstCursor
    <3> QED
      BY <3>2 DEF Asked
  <2>2. CASE out # <<>>
    BY <2>2, CursorIs
  <2> QED
    BY <2>1, <2>2
<1>10. r \in S /\ k \in KeysOf(S)
  <2>1. r \in S
    BY <1>1, <1>2, <1>5, <1>6, <1>8, <1>9, ScanReaches
  <2> QED
    BY <1>6, <2>1 DEF KeysOf
<1> HIDE DEF S, C
<1>11. CASE req.op = "versions"
  <2>1. page = VersionsPage(S)
    BY <1>11 DEF Page, S
  <2>2. /\ page.items \in Seq(EntriesOf(S)) /\ page.truncated => Len(page.items) >= 1
        /\ \/ \E i \in 1..Len(page.items) : page.items[i].name = k /\ page.items[i].is_latest
           \/ page.truncated /\ Less(Last(page.items).name, k)
    BY <1>1, <1>4, <1>10, <2>1, VersionsPageIs
  <2>3. \A i \in 1..Len(page.items) : page.items[i].what = "version"
    <3>1. page.items \in Seq(EntriesOf(S))
      BY <1>1, <1>4, <2>1, VersionsPageIs
    <3>2. \A i \in 1..Len(page.items) : page.items[i] \in EntriesOf(S)
      BY <3>1, ElementOfSeq
    <3> QED
      BY <3>2 DEF EntriesOf, Entry
  <2>4. ASSUME NEW i \in 1..Len(page.items), page.items[i].name = k, page.items[i].is_latest
        PROVE  Current(page.items[i], k)
    BY <2>3, <2>4 DEF Current, Covers
  <2>5. ASSUME Less(Last(page.items).name, k)
        PROVE  Ahead(NextCursor(Last(page.items)), k)
    BY <1>11, <2>5 DEF NextCursor, Ahead
  <2> QED
    BY <2>2, <2>4, <2>5
<1>12. CASE req.op # "versions"
  <2>1. page = ObjectsPage(S)
    BY <1>12 DEF Page, S
  <2>2. ShownIn(k, C)
    BY <1>1, <1>12, ShownIs DEF C
  <2>3. k \in Visible(S)
    BY <1>3, <1>4, <1>10, <2>2, VisibleIs DEF S, C
  <2>4. /\ page.items \in Seq(ItemsOf(Visible(S)))
        /\ page.truncated => Len(page.items) >= 1
    BY <1>1, <1>4, <2>1, ObjectsPageIs
  <2>5. \/ \E i \in 1..Len(page.items) : page.items[i] = Item(k)
        \/ page.truncated /\ Less(Last(page.items).name, Item(k).name)
    BY <1>1, <1>4, <2>1, <2>3, ObjectsPageIs
  <2>6. ASSUME NEW i \in 1..Len(page.items), page.items[i] = Item(k)
        PROVE  Current(page.items[i], k)
    BY <1>1, <1>7, <2>6, ItemIs DEF Current
  <2>7. ASSUME page.truncated, Less(Last(page.items).name, Item(k).name)
        PROVE  Ahead(NextCursor(Last(page.items)), k)
    <3> DEFINE x == Last(page.items)
    <3>1. x \in ItemsOf(Visible(S))
      <4>1. PICK n \in Nat : n = Len(page.items) /\ n >= 1
        BY <2>4, <2>7, LenProperties
      <4>2. n \in 1..Len(page.items)
        BY <4>1
      <4>3. page.items[n] \in ItemsOf(Visible(S))
        BY <2>4, <4>2, ElementOfSeq
      <4> QED
        BY <4>1, <4>3 DEF Last
    <3>2. PICK l \in Visible(S) : x = Item(l)
      BY <3>1 DEF ItemsOf
    <3>3. l \in Names
      BY <1>4, RowIs DEF Visible, KeysOf, IsTable
    <3> HIDE DEF x
    <3>4. x.name \in Names /\ Item(x.name) = x /\ x.name \in Strings
      BY <1>1, <3>2, <3>3, ItemIs, NameIs
    <3>5. Item(k).name \in Names /\ Item(k).name \in Strings /\ IsPrefix(Item(k).name, k)
      BY <1>1, <1>7, ItemIs, NameIs
    <3>6. Less(x.name, k)
      <4>1. Item(k).name = k \/ Less(Item(k).name, k)
        BY <1>7, <3>5, PrefixFirst
      <4> QED
        BY <1>7, <2>7, <3>4, <3>5, <4>1, LessTransitive DEF x
    <3>7. ASSUME x.what = "prefix", IsPrefix(x.name, k)
          PROVE  FALSE
      <4>1. Covers(Item(x.name), k)
        BY <3>4, <3>7 DEF Covers
      <4>2. Item(k) = x
        BY <1>1, <1>7, <3>4, <4>1, CoveredItem
      <4> QED
        BY <2>7, <3>4, <4>2, LessIrreflexive DEF x
    <3> QED
      BY <3>6, <3>7 DEF NextCursor, Ahead, x
  <2> QED
    BY <2>5, <2>6, <2>7
<1> QED
  BY <1>11, <1>12

\* What a page lists comes after everything that was listed before, but for the common
\* prefix a V1 page ended with.
LEMMA PageComesAfter ==
  ASSUME InputOK, ListedOK, CursorOK, ListedOnce, status = "admitted",
         NEW i \in DOMAIN out, NEW k \in Names, Begun(k), NEW x, ListedAs(x, k)
  PROVE  \/ Less(out[i].name, x.name)
         \/ req.op = "v1" /\ out[i] = x /\ out[i].what = "prefix"
<1> DEFINE y == Last(out)
<1>1. req \in Requests /\ out \in Seq(Items)
  BY DEF InputOK
<1>2. out # <<>>
  BY <1>1, EmptySeq, LenProperties
<1>3. /\ y.name \in Names /\ y.name \in Strings
      /\ req.op # "versions" => Item(y.name) = y
  BY <1>2, LastIs
<1>4. cursor = NextCursor(y) /\ cursor # Missing
  BY <1>2, CursorIs
<1>5. out[i].name \in Strings /\ k \in Strings
  BY <1>1, OutIs, NameIs
<1>6. Len(out) \in DOMAIN out /\ y = out[Len(out)] /\ (i = Len(out) \/ i < Len(out))
  <2>1. Len(out) \in Nat /\ DOMAIN out = 1..Len(out) /\ Len(out) \in DOMAIN out /\ y = out[Len(out)]
    BY <1>1, <1>2, OutIs
  <2>2. PICK n \in Nat : n = Len(out)
    BY <2>1
  <2>3. i \in 1..n
    BY <2>1, <2>2
  <2>4. i = n \/ i < n
    BY <2>3
  <2> QED
    BY <2>1, <2>2, <2>4
<1>7. \/ out[i].name = y.name /\ (req.op = "versions" \/ out[i] = y)
      \/ Less(out[i].name, y.name)
  BY <1>6 DEF ListedOnce
<1>8. Less(y.name, k) /\ (req.op = "v2" /\ y.what = "prefix" => ~ IsPrefix(y.name, k))
  BY <1>4 DEF Begun, Ahead, NextCursor
<1> HIDE DEF y
<1>9. CASE req.op = "versions"
  <2>1. x.name = k
    BY <1>9 DEF ListedAs
  <2>2. Less(out[i].name, k)
    BY <1>3, <1>5, <1>7, <1>8, LessTransitive
  <2> QED
    BY <2>1, <2>2
<1>10. CASE req.op # "versions"
  <2>1. x = Item(k) /\ Item(y.name) = y
    BY <1>3, <1>10 DEF ListedAs
  <2>2. x.name \in Strings
    BY <1>1, <2>1, ItemIs, NameIs
  <2>3. x = y \/ Less(y.name, x.name)
    BY <1>1, <1>3, <1>8, <2>1, ItemAfter
  <2>4. CASE Less(y.name, x.name)
    BY <1>3, <1>5, <1>7, <2>2, <2>4, LessTransitive
  <2>5. CASE x = y
    <3>1. y.what = "prefix"
      <4>1. y.what # "object"
        <5> SUFFICES ASSUME y.what = "object"
                     PROVE  FALSE
          OBVIOUS
        <5>1. y.name = k
          BY <1>1, <2>1, <2>5, ItemIs
        <5> QED
          BY <1>5, <1>8, <5>1, LessIrreflexive
      <4> QED
        BY <1>1, <2>1, <2>5, <4>1, ItemIs
    <3>2. IsPrefix(y.name, k)
      BY <1>1, <2>1, <2>5, ItemIs
    <3>3. req.op = "v1"
      BY <1>1, <1>8, <1>10, <3>1, <3>2, RequestIs
    <3>4. CASE out[i].name = y.name
      BY <1>7, <1>10, <2>5, <3>1, <3>3, <3>4, <1>3, <1>5, LessIrreflexive
    <3>5. CASE Less(out[i].name, y.name)
      BY <2>5, <3>5
    <3> QED
      BY <1>7, <3>4, <3>5
  <2> QED
    BY <2>3, <2>4, <2>5
<1> QED
  BY <1>9, <1>10

\* The places of a concatenation u of s and t.
Joins(u, s, t) ==
  /\ \A i \in DOMAIN s : i \in DOMAIN u /\ u[i] = s[i]
  /\ \A j \in 1..Len(t) : Len(s) + j \in DOMAIN u /\ u[Len(s) + j] = t[j]
  /\ \A i \in DOMAIN u : i \in DOMAIN s \/ \E j \in 1..Len(t) : i = Len(s) + j
  /\ \A i \in DOMAIN s, j \in 1..Len(t) : i < Len(s) + j
  /\ Len(t) >= 1 => u # <<>> /\ Last(u) = Last(t)

LEMMA Appended ==
  ASSUME NEW X, NEW s \in Seq(X), NEW t \in Seq(X)
  PROVE  s \o t \in Seq(X) /\ Joins(s \o t, s, t)
<1> DEFINE u == s \o t
<1>1. PICK m, n \in Nat : m = Len(s) /\ n = Len(t)
  BY LenProperties
<1>2. /\ u \in Seq(X) /\ Len(u) = m + n
      /\ \A i \in 1..m + n : u[i] = IF i <= m THEN s[i] ELSE t[i - m]
  BY <1>1, ConcatProperties
<1> HIDE DEF u
<1>3. DOMAIN u = 1..(m + n) /\ DOMAIN s = 1..m /\ DOMAIN u = 1..Len(u)
  BY <1>1, <1>2, LenProperties
<1>4. ASSUME NEW i \in 1..m
      PROVE  i \in 1..(m + n) /\ u[i] = s[i]
  BY <1>2
<1>5. ASSUME NEW j \in 1..n
      PROVE  m + j \in 1..(m + n) /\ u[m + j] = t[j]
  <2>1. m + j \in 1..(m + n) /\ ~ (m + j <= m) /\ m + j - m = j
    OBVIOUS
  <2> QED
    BY <1>2, <2>1
<1>6. ASSUME NEW i \in 1..(m + n), i \notin 1..m
      PROVE  \E j \in 1..n : i = m + j
  <2>1. i - m \in 1..n /\ i = m + (i - m)
    BY <1>6
  <2> QED
    BY <2>1
<1>7. \A i \in 1..m, j \in 1..n : i < m + j
  OBVIOUS
<1>8. ASSUME n >= 1
      PROVE  u # <<>> /\ Last(u) = Last(t)
  <2>1. n \in 1..n /\ m + n # 0
    BY <1>8
  <2>2. u[m + n] = t[n]
    BY <1>5, <2>1
  <2>3. u # <<>>
    BY <1>2, <2>1, EmptySeq
  <2> QED
    BY <1>1, <1>2, <2>2, <2>3 DEF Last
<1>9. u \in Seq(X) /\ Joins(u, s, t)
  BY <1>1, <1>2, <1>3, <1>4, <1>5, <1>6, <1>7, <1>8 DEF Joins
<1> QED
  BY <1>9 DEF u

------------------------------------------------------------------------------
(* Every step keeps the invariant.                                         *)

\* A page keeps it.
LEMMA ListPageKeeps ==
  ASSUME ListingInv, ListPage
  PROVE  ListingInv'
<1>0. /\ InputOK /\ HistoryOK /\ ListedOK /\ CursorOK /\ CoverageOK
      /\ NothingMissed /\ ListedOnce /\ NothingInvented
  BY DEF ListingInv
<1>1. status = "admitted"
  BY DEF ListPage
<1>2. /\ rows' = rows /\ req' = req /\ steady' = steady /\ ever' = ever
  BY DEF ListPage, bucketVars
<1>3. PICK page : /\ page = Page(Scanned)
                  /\ out' = out \o page.items
                  /\ status' = IF page.truncated THEN "ready" ELSE "done"
                  /\ cursor' = IF page.truncated THEN NextCursor(Last(page.items)) ELSE cursor
  BY DEF ListPage
<1> DEFINE new == page.items
           N == Len(out)
<1>4. /\ new \in Seq(Items) /\ page.truncated \in BOOLEAN
      /\ page.truncated => Len(new) >= 1
      /\ \A j \in 1..Len(new) :
           \E k \in Shown(rows) : /\ k \in Names /\ Begun(k) /\ IsPrefix(req.prefix, k)
                                  /\ ListedAs(new[j], k)
      /\ \A i, j \in 1..Len(new) :
           i < j => \/ Less(new[i].name, new[j].name)
                    \/ /\ req.op = "versions" /\ new[i].name = new[j].name
                       /\ new[i].version # new[j].version
  BY <1>0, <1>1, <1>3, PageShows
<1>5. req \in Requests /\ out \in Seq(Items)
  BY <1>0 DEF InputOK
<1>6. /\ out' \in Seq(Items)
      /\ \A i \in DOMAIN out : i \in DOMAIN out' /\ out'[i] = out[i]
      /\ \A j \in 1..Len(new) : N + j \in DOMAIN out' /\ out'[N + j] = new[j]
      /\ \A i \in DOMAIN out' : i \in DOMAIN out \/ \E j \in 1..Len(new) : i = N + j
      /\ \A i \in DOMAIN out, j \in 1..Len(new) : i < N + j
      /\ Len(new) >= 1 => out' # <<>> /\ Last(out') = Last(new)
  <2>1. out' = out \o new /\ new \in Seq(Items)
    BY <1>3, <1>4
  <2> HIDE DEF new
  <2>2. out' \in Seq(Items) /\ Joins(out', out, new)
    BY <1>5, <2>1, Appended
  <2> QED
    BY <2>2 DEF Joins
<1> HIDE DEF new, N
<1>7. InputOK'
  <2>1. cursor' \in Cursors \cup {Missing}
    <3>1. CASE page.truncated
      <4>1. Last(new) \in Items
        <5>1. PICK n \in Nat : n = Len(new) /\ n >= 1
          BY <1>4, <3>1, LenProperties
        <5>2. n \in 1..Len(new)
          BY <5>1
        <5> QED
          BY <1>4, <5>1, <5>2, ElementOfSeq DEF Last
      <4>2. Last(new).name \in Names
        BY <4>1 DEF Items
      <4> QED
        BY <1>3, <3>1, <4>2 DEF NextCursor, Cursors, new
    <3>2. CASE ~ page.truncated
      BY <1>0, <1>3, <3>2 DEF InputOK
    <3> QED
      BY <3>1, <3>2
  <2>2. status' \in {"ready", "done"}
    BY <1>3
  <2> QED
    BY <1>0, <1>2, <1>6, <2>1, <2>2 DEF InputOK
<1>8. Shown(rows)' = Shown(rows)
  BY <1>2 DEF Shown
<1>9. HistoryOK'
  BY <1>0, <1>2, <1>8 DEF HistoryOK
<1>10. ListedOK'
  <2> SUFFICES ASSUME NEW i \in DOMAIN out'
               PROVE  /\ IsPrefix(req.prefix, out'[i].name)
                      /\ out'[i].what = "version" <=> req.op = "versions"
                      /\ req.op # "versions" => Item(out'[i].name) = out'[i]
    <3>1. \A i \in DOMAIN out' : (Item(out[i].name))' = Item(out'[i].name)
      BY <1>2 DEF Item, CommonPrefix
    <3> QED
      BY <1>2, <3>1 DEF ListedOK
  <2>1. CASE i \in DOMAIN out
    BY <1>0, <1>6, <2>1 DEF ListedOK
  <2>2. CASE \E j \in 1..Len(new) : i = N + j
    <3>1. PICK j \in 1..Len(new) : i = N + j
      BY <2>2
    <3>2. out'[i] = new[j]
      BY <1>6, <3>1
    <3>3. PICK k \in Names : IsPrefix(req.prefix, k) /\ ListedAs(new[j], k)
      BY <1>4
    <3>4. CASE req.op = "versions"
      BY <3>2, <3>3, <3>4 DEF ListedAs
    <3>5. CASE req.op # "versions"
      <4>1. out'[i] = Item(k)
        BY <3>2, <3>3, <3>5 DEF ListedAs
      <4> QED
        BY <1>5, <3>3, <3>5, <4>1, ItemIs
    <3> QED
      BY <3>4, <3>5
  <2> QED
    BY <1>6, <2>1, <2>2
<1>11. CursorOK'
  <2> SUFFICES ASSUME status' \in {"ready", "admitted"}
               PROVE  cursor' = IF out' = <<>> THEN FirstCursor(req') ELSE NextCursor(Last(out'))
    BY <1>2 DEF CursorOK, NextCursor
  <2>1. page.truncated
    BY <1>3, <1>4
  <2>2. out' # <<>> /\ Last(out') = Last(new)
    BY <1>4, <1>6, <2>1
  <2> QED
    BY <1>3, <2>1, <2>2 DEF new
<1>12. ASSUME NEW k \in steady, Asked(k)
       PROVE  \/ \E i \in DOMAIN out' : Current(out'[i], k)
              \/ page.truncated /\ Ahead(NextCursor(Last(new)), k)
  <2>1. CASE \E i \in DOMAIN out : Current(out[i], k)
    BY <1>6, <2>1
  <2>2. CASE Ahead(cursor, k)
    <3>1. k \in Shown(rows)
      BY <1>0 DEF HistoryOK
    <3>2. \/ \E j \in 1..Len(new) : Current(new[j], k)
          \/ page.truncated /\ Ahead(NextCursor(Last(new)), k)
      BY <1>0, <1>1, <1>3, <1>12, <2>2, <3>1, PageReaches DEF new
    <3> QED
      BY <1>6, <3>2
  <2> QED
    BY <1>0, <1>1, <1>12, <2>1, <2>2 DEF CoverageOK
<1>13. \A k : Asked(k)' <=> Asked(k)
  BY <1>2 DEF Asked
<1>14. CoverageOK'
  <2> SUFFICES ASSUME status' \in {"ready", "admitted"}, NEW k \in steady, Asked(k)
               PROVE  Ahead(cursor', k) \/ \E i \in DOMAIN out' : Current(out'[i], k)
    BY <1>2, <1>13 DEF CoverageOK
  <2>1. page.truncated /\ cursor' = NextCursor(Last(new))
    BY <1>3, <1>4 DEF new
  <2> QED
    BY <1>12, <2>1
<1>15. NothingMissed'
  <2> SUFFICES ASSUME status' = "done", NEW k \in steady, Asked(k)
               PROVE  \E i \in DOMAIN out' : Current(out'[i], k)
    BY <1>2, <1>13 DEF NothingMissed
  <2>1. ~ page.truncated
    BY <1>3
  <2> QED
    BY <1>12, <2>1
<1>16. ListedOnce'
  <2> SUFFICES ASSUME NEW i \in DOMAIN out', NEW j \in DOMAIN out', i < j
               PROVE  \/ Less(out'[i].name, out'[j].name)
                      \/ /\ req.op = "versions"
                         /\ out'[i].name = out'[j].name /\ out'[i].version # out'[j].version
                      \/ /\ req.op = "v1"
                         /\ out'[i] = out'[j] /\ out'[i].what = "prefix"
    BY <1>2 DEF ListedOnce
  <2>0. N \in Nat /\ DOMAIN out = 1..N
    BY <1>5, OutIs DEF N
  <2>1. CASE i \in DOMAIN out /\ j \in DOMAIN out
    BY <1>0, <1>6, <2>1 DEF ListedOnce
  <2>2. ASSUME i \in DOMAIN out, NEW b \in 1..Len(new), j = N + b
        PROVE  \/ Less(out'[i].name, out'[j].name)
               \/ req.op = "v1" /\ out'[i] = out'[j] /\ out'[i].what = "prefix"
    <3>1. out'[i] = out[i] /\ out'[j] = new[b]
      BY <1>6, <2>2
    <3>2. PICK k \in Names : Begun(k) /\ ListedAs(new[b], k)
      BY <1>4
    <3>3. \/ Less(out[i].name, new[b].name)
          \/ req.op = "v1" /\ out[i] = new[b] /\ out[i].what = "prefix"
      BY <1>0, <1>1, <2>2, <3>2, PageComesAfter
    <3> QED
      BY <3>1, <3>3
  <2>3. ASSUME NEW a \in 1..Len(new), NEW b \in 1..Len(new), i = N + a, j = N + b
        PROVE  \/ Less(out'[i].name, out'[j].name)
               \/ /\ req.op = "versions"
                  /\ out'[i].name = out'[j].name /\ out'[i].version # out'[j].version
    <3>1. out'[i] = new[a] /\ out'[j] = new[b]
      BY <1>6, <2>3
    <3>2. a < b
      <4>1. PICK m, c, d \in Nat : m = N /\ c = a /\ d = b
        BY <2>0
      <4>2. m + c < m + d
        BY <2>3, <4>1
      <4> QED
        BY <4>1, <4>2
    <3> QED
      BY <1>4, <3>1, <3>2
  <2>4. ASSUME NEW a \in 1..Len(new), i = N + a, j \in DOMAIN out
        PROVE  FALSE
    <3>1. j < i
      BY <1>6, <2>4
    <3>2. i \in Nat /\ j \in Nat
      BY <2>0, <2>4
    <3> QED
      BY <3>1, <3>2
  <2> QED
    BY <1>6, <2>1, <2>2, <2>3, <2>4
<1>17. NothingInvented'
  <2> SUFFICES ASSUME NEW i \in DOMAIN out'
               PROVE  \E k \in ever : IsPrefix(req.prefix, k) /\ Covers(out'[i], k)
    BY <1>2 DEF NothingInvented
  <2>1. CASE i \in DOMAIN out
    BY <1>0, <1>6, <2>1 DEF NothingInvented
  <2>2. CASE \E j \in 1..Len(new) : i = N + j
    <3>1. PICK j \in 1..Len(new) : i = N + j
      BY <2>2
    <3>2. out'[i] = new[j]
      BY <1>6, <3>1
    <3>3. PICK k \in Shown(rows) : k \in Names /\ IsPrefix(req.prefix, k) /\ ListedAs(new[j], k)
      BY <1>4
    <3>4. k \in ever
      BY <1>0 DEF HistoryOK
    <3>5. Covers(new[j], k)
      <4>1. CASE req.op = "versions"
        BY <3>3, <4>1 DEF ListedAs, Covers
      <4>2. CASE req.op # "versions"
        BY <1>5, <3>3, <4>2, ItemIs DEF ListedAs
      <4> QED
        BY <4>1, <4>2
    <3> QED
      BY <3>2, <3>3, <3>4, <3>5
  <2> QED
    BY <1>6, <2>1, <2>2
<1> QED
  BY <1>7, <1>9, <1>10, <1>11, <1>14, <1>15, <1>16, <1>17 DEF ListingInv

LEMMA InitHolds ==
  ASSUME Init
  PROVE  ListingInv
<1>1. req \in Requests /\ rows \in Contents /\ out = <<>> /\ status = "ready"
  BY DEF Init
<1>2. IsTable(rows)
  BY <1>1, ListingAssumption DEF IsTable
<1>3. out \in Seq(Items) /\ DOMAIN out = {} /\ cursor = FirstCursor(req)
  BY <1>1, EmptySeq DEF Init
<1>4. cursor \in Cursors \cup {Missing}
  BY <1>1, <1>3, RequestIs DEF FirstCursor, Cursors
<1>5. InputOK
  BY <1>1, <1>2, <1>3, <1>4 DEF InputOK
<1>6. HistoryOK
  BY DEF Init, HistoryOK
<1>7. CursorOK
  BY <1>1, <1>3 DEF CursorOK
<1>8. CoverageOK
  <2> SUFFICES ASSUME NEW k \in steady, Asked(k)
               PROVE  Ahead(cursor, k)
    BY DEF CoverageOK
  <2>1. CASE req.start = Missing
    BY <1>3, <2>1 DEF FirstCursor, Ahead
  <2>2. CASE req.start # Missing
    <3>1. Less(req.start, k)
      BY <2>2 DEF Asked
    <3>2. cursor = Missing \/ cursor = [after |-> "key", name |-> req.start]
      BY <1>3 DEF FirstCursor
    <3> QED
      BY <3>1, <3>2 DEF Ahead
  <2> QED
    BY <2>1, <2>2
<1>9. ListedOK /\ NothingMissed /\ ListedOnce /\ NothingInvented
  BY <1>1, <1>3 DEF ListedOK, NothingMissed, ListedOnce, NothingInvented
<1> QED
  BY <1>5, <1>6, <1>7, <1>8, <1>9 DEF ListingInv

\* A step that leaves the listing alone and the history in order keeps it.
LEMMA QuietKeeps ==
  ASSUME ListingInv,
         req' = req, cursor' = cursor, out' = out,
         \/ status' = status
         \/ status = "ready" /\ status' = "admitted" /\ req.max_keys # 0
         \/ status = "ready" /\ status' = "refused",
         IsTable(rows'), steady' \subseteq steady, ever \subseteq ever',
         steady' \subseteq Shown(rows)', Shown(rows)' \subseteq ever'
  PROVE  ListingInv'
<1>0. /\ InputOK /\ HistoryOK /\ ListedOK /\ CursorOK /\ CoverageOK
      /\ NothingMissed /\ ListedOnce /\ NothingInvented
  BY DEF ListingInv
<1>1. InputOK'
  BY <1>0 DEF InputOK
<1>2. HistoryOK'
  BY DEF HistoryOK
<1>3. ListedOK'
  <2>1. \A i \in DOMAIN out' : (Item(out[i].name))' = Item(out[i].name)
    BY DEF Item, CommonPrefix
  <2> QED
    BY <1>0, <2>1 DEF ListedOK
<1>4. CursorOK'
  BY <1>0 DEF CursorOK, NextCursor
<1>5. \A k : Asked(k)' <=> Asked(k)
  BY DEF Asked
<1>6. CoverageOK'
  BY <1>0, <1>5 DEF CoverageOK
<1>7. NothingMissed'
  BY <1>0, <1>5 DEF NothingMissed
<1>8. ListedOnce'
  BY <1>0 DEF ListedOnce
<1>9. NothingInvented'
  BY <1>0 DEF NothingInvented
<1> QED
  BY <1>1, <1>2, <1>3, <1>4, <1>6, <1>7, <1>8, <1>9 DEF ListingInv

\* So does a write that leaves a table.
LEMMA WriteKeeps ==
  ASSUME ListingInv, NEW rs, IsTable(rs), Write(rs)
  PROVE  ListingInv'
<1>1. /\ rows' = rs /\ steady' = steady \cap Shown(rs) /\ ever' = ever \cup Shown(rs)
      /\ req' = req /\ cursor' = cursor /\ out' = out /\ status' = status
  BY DEF Write, listVars
<1>2. Shown(rows)' = Shown(rs)
  BY <1>1 DEF Shown
<1> QED
  BY <1>1, <1>2, QuietKeeps

\* One row in place of those with its key and version leaves a table.
LEMMA ReplacedIsTable ==
  ASSUME IsTable(rows), NEW r \in Rows, NEW T, T \subseteq Without(r.key, r.version)
  PROVE  IsTable(T \cup {r})
<1>1. T \subseteq rows
  BY DEF Without
<1>2. IsTable(T)
  BY <1>1, PartOfTable
<1>3. IsFiniteSet(T \cup {r})
  BY <1>2, FS_AddElement DEF IsTable
<1>4. \A s \in T : s.key # r.key \/ s.version # r.version
  BY DEF Without
<1> QED
  BY <1>2, <1>3, <1>4 DEF IsTable

LEMMA StepKeeps ==
  ASSUME ListingInv, [Next]_vars
  PROVE  ListingInv'
<1>0. IsTable(rows) /\ HistoryOK
  BY DEF ListingInv, InputOK
<1>1. CASE Admit
  <2>1. /\ rows' = rows /\ req' = req /\ steady' = steady /\ ever' = ever
        /\ cursor' = cursor /\ out' = out
        /\ \/ status = "ready" /\ status' = "admitted" /\ req.max_keys # 0
           \/ status = "ready" /\ status' = "refused"
    BY <1>1 DEF Admit, bucketVars
  <2>2. Shown(rows)' = Shown(rows)
    BY <2>1 DEF Shown
  <2> QED
    BY <1>0, <2>1, <2>2, QuietKeeps DEF HistoryOK
<1>2. CASE ListPage
  BY <1>2, ListPageKeeps
<1>3. ASSUME NEW r \in Writable, PutManifest(r)
      PROVE  ListingInv'
  <2>1. r \in Rows
    BY ListingAssumption
  <2>2. IsTable(Without(r.key, r.version) \cup {r})
    BY <1>0, <2>1, ReplacedIsTable
  <2> QED
    BY <1>3, <2>2, WriteKeeps DEF PutManifest
<1>4. ASSUME NEW r \in rows, DeleteManifest(r)
      PROVE  ListingInv'
  <2>1. IsTable(rows \ {r})
    BY <1>0, PartOfTable
  <2> QED
    BY <1>4, <2>1, WriteKeeps DEF DeleteManifest
<1>5. ASSUME NEW u \in rows, NEW r \in Writable, CompleteMultipart(u, r)
      PROVE  ListingInv'
  <2>1. r \in Rows
    BY ListingAssumption
  <2>2. Without(r.key, r.version) \ {u} \subseteq Without(r.key, r.version)
    OBVIOUS
  <2>3. IsTable((Without(r.key, r.version) \ {u}) \cup {r})
    BY <1>0, <2>1, <2>2, ReplacedIsTable
  <2> QED
    BY <1>5, <2>3, WriteKeeps DEF CompleteMultipart
<1>6. ASSUME DeleteBucket \/ vars' = vars
      PROVE  ListingInv'
  <2>1. /\ rows' = rows /\ req' = req /\ steady' = steady /\ ever' = ever
        /\ cursor' = cursor /\ out' = out /\ status' = status
    BY <1>6 DEF DeleteBucket, vars, bucketVars, listVars
  <2>2. Shown(rows)' = Shown(rows)
    BY <2>1 DEF Shown
  <2> QED
    BY <1>0, <2>1, <2>2, QuietKeeps DEF HistoryOK
<1> QED
  BY <1>1, <1>2, <1>3, <1>4, <1>5, <1>6 DEF Next

\* A page that is followed by another ends past the place where it began.  The first
\* page has no such place, and a V1 marker that names a common prefix may come back.
CursorAdvances ==
  ListPage /\ status' = "ready" /\ out # <<>> /\ (req.op # "v1" \/ req.delimiter = Missing)
    => Less(cursor.name, cursor'.name)

LEMMA PageAdvances ==
  ASSUME ListingInv
  PROVE  CursorAdvances
<1> SUFFICES ASSUME ListPage, status' = "ready", out # <<>>,
                    req.op # "v1" \/ req.delimiter = Missing
             PROVE  Less(cursor.name, cursor'.name)
  BY DEF CursorAdvances
<1>0. InputOK /\ ListedOK /\ CursorOK /\ ListedOnce /\ status = "admitted"
  BY DEF ListingInv, ListPage
<1>1. PICK page : /\ page = Page(Scanned)
                  /\ status' = IF page.truncated THEN "ready" ELSE "done"
                  /\ cursor' = IF page.truncated THEN NextCursor(Last(page.items)) ELSE cursor
  BY DEF ListPage
<1>2. page.truncated /\ cursor'.name = Last(page.items).name
  BY <1>1, <1>0, PageShows DEF NextCursor
<1>3. cursor.name = Last(out).name
  BY <1>0, CursorIs DEF NextCursor
<1>4. PICK n \in 1..Len(page.items) : Last(page.items) = page.items[n]
  <2>1. page.items \in Seq(Items) /\ Len(page.items) >= 1
    BY <1>0, <1>1, <1>2, PageShows
  <2>2. PICK n \in Nat : n = Len(page.items) /\ n >= 1
    BY <2>1, LenProperties
  <2>3. n \in 1..Len(page.items)
    BY <2>2
  <2> QED
    BY <2>2, <2>3 DEF Last
<1>5. PICK k \in Names : Begun(k) /\ ListedAs(page.items[n], k)
  BY <1>0, <1>1, PageShows
<1>6. Len(out) \in DOMAIN out /\ Last(out) = out[Len(out)]
  BY <1>0, OutIs DEF InputOK
<1>7. \/ Less(Last(out).name, page.items[n].name)
      \/ req.op = "v1" /\ Last(out).what = "prefix"
  BY <1>0, <1>5, <1>6, PageComesAfter
<1>8. ~ (req.op = "v1" /\ Last(out).what = "prefix")
  <2> SUFFICES ASSUME req.op = "v1", Last(out).what = "prefix"
               PROVE  FALSE
    OBVIOUS
  <2>1. Last(out).name \in Names /\ Item(Last(out).name) = Last(out) /\ req.delimiter = Missing
    BY <1>0, LastIs
  <2>2. CommonPrefix(Last(out).name) = Missing
    BY <1>0, <2>1, CommonPrefixIs DEF InputOK
  <2> QED
    BY <2>1, <2>2 DEF Item
<1> QED
  BY <1>2, <1>3, <1>4, <1>7, <1>8

------------------------------------------------------------------------------
(* The versions that are lost where a page ends.                           *)

\* The version is on a page, or a page ended with another one of its key.
ListedOrLost(r) ==
  \/ \E i \in DOMAIN out : out[i].name = r.key /\ out[i].version = r.version
  \/ \E n \in 1..pages : EndedWith(n, r.key)

\* In a listing of versions every page but the last is full, and while nothing is
\* written each version is listed, lost or ahead of the cursor.
SeamOK ==
  /\ pages \in Nat /\ changes \in Nat
  /\ req.op = "versions" /\ req.max_keys # 0 /\ status \in {"ready", "admitted"}
       => Len(out) = pages * Limit
  /\ req.op = "versions" /\ changes = 0 /\ status # "refused" =>
       \A r \in rows :
         r.state = "Committed" /\ Asked(r.key) =>
           \/ ListedOrLost(r)
           \/ status \in {"ready", "admitted"} /\ Ahead(cursor, r.key)

\* A row is on the page of a scan that took it up, or the page is full and ends with
\* its key or one before it.
LEMMA VersionsPageTakes ==
  ASSUME req \in Requests, req.max_keys # 0, NEW S, IsTable(S)
  PROVE  /\ VersionsPage(S).truncated => Len(VersionsPage(S).items) = Limit
         /\ \A r \in S :
              \/ \E i \in 1..Len(VersionsPage(S).items) :
                   /\ VersionsPage(S).items[i].name = r.key
                   /\ VersionsPage(S).items[i].version = r.version
              \/ /\ VersionsPage(S).truncated
                 /\ \/ Last(VersionsPage(S).items).name = r.key
                    \/ Less(Last(VersionsPage(S).items).name, r.key)
<1> DEFINE f == InOrder(S, RowBefore)
           g == [i \in DOMAIN f |-> Entry(f[i], S)]
           u == PageOf(g).items
           tr == PageOf(g).truncated
<1>1. VersionsPage(S) = PageOf(g)
  BY DEF VersionsPage, Entry
<1>2. IsFiniteSet(S) /\ IsOrder(RowOrder(S), S) /\ \A r \in S : r \in Rows
  BY RowsInOrder DEF IsTable
<1>3. RanksInOrder(f, S, RowOrder(S))
  BY <1>2, RowsSorted
<1> HIDE DEF f
<1>4. /\ f \in Seq(S) /\ Len(f) \in Nat /\ \A i \in 1..Len(f) : f[i] \in S
      /\ \A i, j \in 1..Len(f) : i < j => <<f[i], f[j]>> \in RowOrder(S)
      /\ \A x \in S : \E i \in 1..Len(f) : f[i] = x
  BY <1>2, <1>3, SortedIs
<1>5. \A i, j \in 1..Len(f) : i < j => Less(f[i].key, f[j].key) \/ f[i].key = f[j].key
  BY <1>4 DEF RowOrder, RowBefore
<1>6. g \in Seq(EntriesOf(S)) /\ Len(g) = Len(f) /\ \A i \in 1..Len(f) : g[i] = Entry(f[i], S)
  <2>1. DOMAIN f = 1..Len(f)
    BY <1>4, LenProperties
  <2>2. g \in [1..Len(f) -> EntriesOf(S)]
    BY <1>4, <2>1 DEF EntriesOf
  <2>3. g \in Seq(EntriesOf(S))
    BY <1>4, <2>2, SeqDef
  <2>4. Len(g) = Len(f)
    BY <1>4, <2>2, <2>3, LenProperties
  <2> QED
    BY <2>1, <2>3, <2>4
<1> HIDE DEF g
<1>7. Limit \in Nat /\ Limit >= 1
  BY LimitIs
<1>8. tr => Len(u) = Limit
  BY <1>6, <1>7, PageIs
<1>9. ASSUME NEW r \in S
      PROVE  \/ \E i \in 1..Len(u) : u[i].name = r.key /\ u[i].version = r.version
             \/ tr /\ (Last(u).name = r.key \/ Less(Last(u).name, r.key))
  <2>1. PICK j \in 1..Len(f) : f[j] = r
    BY <1>4
  <2>2. \/ j \in 1..Len(u) /\ u[j] = g[j]
        \/ tr /\ Len(u) \in 1..Len(f) /\ Len(u) < j /\ Last(u) = g[Len(u)]
    BY <1>6, <1>7, <2>1, PageOfSorted
  <2> HIDE DEF u, tr
  <2>3. CASE j \in 1..Len(u) /\ u[j] = g[j]
    <3>1. u[j] = Entry(r, S)
      BY <1>6, <2>1, <2>3
    <3> QED
      BY <2>3, <3>1 DEF Entry
  <2>4. CASE tr /\ Len(u) \in 1..Len(f) /\ Len(u) < j /\ Last(u) = g[Len(u)]
    <3>1. PICK n \in 1..Len(f) : n = Len(u) /\ n < j
      BY <2>4
    <3>2. Last(u) = Entry(f[n], S)
      BY <1>6, <2>4, <3>1
    <3>3. Last(u).name = f[n].key
      BY <3>2 DEF Entry
    <3>4. Less(f[n].key, r.key) \/ f[n].key = r.key
      BY <1>5, <2>1, <3>1
    <3> QED
      BY <2>4, <3>3, <3>4
  <2> QED
    BY <2>2, <2>3, <2>4
<1> HIDE DEF u, tr
<1>10. VersionsPage(S).items = u /\ VersionsPage(S).truncated = tr
  BY <1>1 DEF u, tr
<1> QED
  BY <1>8, <1>9, <1>10

\* A committed row that was asked for and is ahead of the cursor is one of the scan.
LEMMA ScanTakes ==
  ASSUME InputOK, ListedOK, CursorOK, status = "admitted",
         NEW r \in rows, r.state = "Committed", Asked(r.key), Ahead(cursor, r.key)
  PROVE  r \in Scanned
<1>1. req \in Requests /\ IsTable(rows)
  BY DEF InputOK
<1>2. cursor = Missing \/ IsCursor(cursor)
  BY CursorIs
<1>3. r \in Committed(rows) /\ IsTable(Committed(rows))
  BY <1>1, CommittedIsTable DEF Committed
<1>4. IsPrefix(req.prefix, r.key)
  BY DEF Asked
<1>5. r \in Rows /\ r.key \in Strings /\ req.prefix \in Strings
  BY <1>1, <1>3, RowIs, RequestIs, NameIs DEF IsTable
<1>6. Begun(r.key)
  <2>1. CASE cursor = Missing
    <3>1. req.prefix = r.key \/ Less(req.prefix, r.key)
      BY <1>4, <1>5, PrefixFirst
    <3>2. ~ Less(r.key, req.prefix)
      BY <1>5, <3>1, LessAsymmetric, LessIrreflexive
    <3> QED
      BY <2>1, <3>2 DEF Begun
  <2>2. CASE cursor # Missing
    BY <2>2 DEF Begun
  <2> QED
    BY <2>1, <2>2
<1>7. cursor = Missing \/ ~ Less(cursor.name, req.prefix)
  <2>1. CASE out = <<>>
    <3>1. cursor # Missing => cursor.name = req.start /\ req.start # Missing
      BY <2>1, CursorIs DEF FirstCursor
    <3> QED
      BY <3>1 DEF Asked
  <2>2. CASE out # <<>>
    BY <2>2, CursorIs
  <2> QED
    BY <2>1, <2>2
<1> QED
  BY <1>1, <1>2, <1>3, <1>4, <1>6, <1>7, ScanReaches

\* A page keeps what is known of the versions.
LEMMA SeamPageKeeps ==
  ASSUME ListingInv, SeamOK, ListPage
  PROVE  SeamOK'
<1>0. InputOK /\ ListedOK /\ CursorOK /\ status = "admitted"
  BY DEF ListingInv, ListPage
<1>1. /\ rows' = rows /\ req' = req /\ changes' = changes /\ pages' = pages + 1
      /\ pages \in Nat /\ changes \in Nat
  BY DEF ListPage, bucketVars, SeamOK
<1>2. PICK page : /\ page = Page(Scanned)
                  /\ out' = out \o page.items
                  /\ status' = IF page.truncated THEN "ready" ELSE "done"
                  /\ cursor' = IF page.truncated THEN NextCursor(Last(page.items)) ELSE cursor
  BY DEF ListPage
<1>3. req \in Requests /\ req.max_keys # 0 /\ out \in Seq(Items) /\ IsTable(rows)
  BY <1>0 DEF InputOK
<1>4. Limit' = Limit /\ Limit \in Nat /\ Limit >= 1
  BY <1>1, <1>3, LimitIs DEF Limit
<1>5. pages' \in Nat /\ changes' \in Nat
  BY <1>1
<1>6. CASE req.op # "versions"
  BY <1>1, <1>5, <1>6 DEF SeamOK
<1>7. CASE req.op = "versions"
  <2> DEFINE S == Scanned
             new == page.items
  <2>1. IsTable(S)
    <3>1. S \subseteq Committed(rows)
      BY <1>0, <1>3, CursorIs, ScannedIs
    <3> QED
      BY <1>3, <3>1, CommittedIsTable, PartOfTable
  <2>2. page = VersionsPage(S)
    BY <1>2, <1>7 DEF Page
  <2>3. new \in Seq(Items) /\ page.truncated \in BOOLEAN
    BY <1>0, <1>2, PageShows
  <2>4. /\ page.truncated => Len(new) = Limit
        /\ \A r \in S :
             \/ \E i \in 1..Len(new) : new[i].name = r.key /\ new[i].version = r.version
             \/ /\ page.truncated
                /\ Last(new).name = r.key \/ Less(Last(new).name, r.key)
    BY <1>3, <2>1, <2>2, VersionsPageTakes
  <2>5. out' = out \o new
    BY <1>2
  <2> HIDE DEF S, new
  <2>6. out' \in Seq(Items) /\ Joins(out', out, new)
    BY <1>3, <2>3, <2>5, Appended
  <2>7. Len(out) = pages * Limit
    BY <1>0, <1>3, <1>7 DEF SeamOK
  <2>8. PICK m, l, p \in Nat : m = Len(new) /\ l = Limit /\ p = pages
    BY <1>1, <1>4, <2>3, LenProperties
  <2>9. Len(out') = p * l + m
    BY <1>3, <2>3, <2>5, <2>7, <2>8, ConcatProperties
  <2>10. p * l + l = (p + 1) * l
    OBVIOUS
  <2>11. status' \in {"ready", "admitted"} => Len(out') = pages' * Limit'
    BY <1>1, <1>2, <1>4, <2>3, <2>4, <2>8, <2>9, <2>10
  <2>12. ASSUME page.truncated
         PROVE  /\ pages' \in 1..pages'
                /\ pages' * Limit' \in DOMAIN out'
                /\ out'[pages' * Limit'] = Last(new)
    <3>1. m = l /\ l >= 1 /\ p + 1 \in 1..(p + 1)
      BY <1>4, <2>4, <2>8, <2>12
    <3>2. pages' = p + 1 /\ Limit' = l /\ (p + 1) * l = Len(out) + l
      BY <1>1, <1>4, <2>7, <2>8, <2>10
    <3>3. l \in 1..Len(new)
      BY <2>8, <3>1
    <3>4. Len(out) + l \in DOMAIN out' /\ out'[Len(out) + l] = new[l]
      BY <2>6, <3>3 DEF Joins
    <3>5. Last(new) = new[l]
      BY <2>8, <3>1 DEF Last
    <3> QED
      BY <3>1, <3>2, <3>4, <3>5
  <2>13. ASSUME changes' = 0, NEW r \in rows', r.state = "Committed", Asked(r.key)'
         PROVE  \/ ListedOrLost(r)'
                \/ status' \in {"ready", "admitted"} /\ Ahead(cursor, r.key)'
    <3>1. r \in rows /\ Asked(r.key) /\ changes = 0
      BY <1>1, <2>13 DEF Asked
    <3>2. ListedOrLost(r) \/ Ahead(cursor, r.key)
      BY <1>0, <1>7, <2>13, <3>1 DEF SeamOK
    <3>3. CASE \E i \in DOMAIN out : out[i].name = r.key /\ out[i].version = r.version
      BY <2>6, <3>3 DEF ListedOrLost, Joins
    <3>4. CASE \E n \in 1..pages : EndedWith(n, r.key)
      <4>1. PICK n \in 1..pages : EndedWith(n, r.key)
        BY <3>4
      <4>2. n \in 1..pages'
        BY <1>1
      <4>3. n * Limit \in DOMAIN out /\ out[n * Limit].name = r.key
        BY <4>1 DEF EndedWith
      <4>4. n * Limit' \in DOMAIN out' /\ out'[n * Limit'].name = r.key
        BY <1>4, <2>6, <4>3 DEF Joins
      <4>5. EndedWith(n, r.key)'
        BY <4>4 DEF EndedWith
      <4> QED
        BY <4>2, <4>5 DEF ListedOrLost
    <3>5. CASE Ahead(cursor, r.key)
      <4>1. r \in S
        BY <1>0, <2>13, <3>1, <3>5, ScanTakes DEF S
      <4>2. CASE \E i \in 1..Len(new) : new[i].name = r.key /\ new[i].version = r.version
        BY <2>6, <4>2 DEF ListedOrLost, Joins
      <4>3. CASE page.truncated /\ Last(new).name = r.key
        <5>1. PICK q \in 1..pages' : /\ q * Limit' \in DOMAIN out'
                                      /\ out'[q * Limit'] = Last(new)
          BY <2>12, <4>3
        <5>2. EndedWith(q, r.key)'
          BY <4>3, <5>1 DEF EndedWith
        <5> QED
          BY <5>1, <5>2 DEF ListedOrLost
      <4>4. CASE page.truncated /\ Less(Last(new).name, r.key)
        <5>1. cursor' = NextCursor(Last(new)) /\ status' = "ready"
          BY <1>2, <4>4 DEF new
        <5> QED
          BY <1>7, <4>4, <5>1 DEF NextCursor, Ahead
      <4> QED
        BY <2>4, <4>1, <4>2, <4>3, <4>4
    <3> QED
      BY <3>2, <3>3, <3>4, <3>5 DEF ListedOrLost
  <2> QED
    BY <1>1, <1>5, <2>11, <2>13 DEF SeamOK
<1> QED
  BY <1>6, <1>7

LEMMA SeamInit ==
  ASSUME Init
  PROVE  SeamOK
<1>1. /\ req \in Requests /\ out = <<>> /\ status = "ready" /\ pages = 0 /\ changes = 0
      /\ cursor = FirstCursor(req)
  BY DEF Init
<1>2. req.max_keys # 0 => Len(out) = pages * Limit
  <2>1. Len(out) = 0
    BY <1>1, EmptySeq
  <2>2. ASSUME NEW l \in Nat
        PROVE  0 * l = 0
    OBVIOUS
  <2> QED
    BY <1>1, <2>1, <2>2, LimitIs
<1>3. ASSUME NEW r \in rows, Asked(r.key)
      PROVE  Ahead(cursor, r.key)
  <2>1. CASE req.start = Missing
    BY <1>1, <2>1 DEF FirstCursor, Ahead
  <2>2. CASE req.start # Missing
    <3>1. Less(req.start, r.key)
      BY <1>3, <2>2 DEF Asked
    <3> QED
      BY <1>1, <3>1 DEF FirstCursor, Ahead
  <2> QED
    BY <2>1, <2>2
<1> QED
  BY <1>1, <1>2, <1>3 DEF SeamOK

LEMMA SeamKeeps ==
  ASSUME ListingInv, SeamOK, [Next]_vars
  PROVE  SeamOK'
<1>1. CASE ListPage
  BY <1>1, SeamPageKeeps
<1>2. ASSUME NEW rs, Write(rs)
      PROVE  SeamOK'
  <2>1. /\ req' = req /\ out' = out /\ status' = status /\ pages' = pages
        /\ changes' = changes + 1
    BY <1>2 DEF Write, listVars
  <2>2. pages' \in Nat /\ changes' \in Nat /\ changes' # 0
    BY <2>1 DEF SeamOK
  <2>3. Limit' = Limit
    BY <2>1 DEF Limit
  <2> QED
    BY <2>1, <2>2, <2>3 DEF SeamOK
<1>3. CASE Admit \/ DeleteBucket \/ vars' = vars
  <2>1. /\ rows' = rows /\ changes' = changes
        /\ req' = req /\ out' = out /\ cursor' = cursor /\ pages' = pages
        /\ \/ status' = status
           \/ status = "ready" /\ status' \in {"admitted", "refused"}
    BY <1>3 DEF Admit, DeleteBucket, vars, bucketVars, listVars
  <2>2. Limit' = Limit /\ \A k : Asked(k)' <=> Asked(k)
    BY <2>1 DEF Limit, Asked
  <2>3. \A r : ListedOrLost(r)' <=> ListedOrLost(r)
    BY <2>1, <2>2 DEF ListedOrLost, EndedWith
  <2> QED
    BY <2>1, <2>2, <2>3 DEF SeamOK
<1> QED
  BY <1>1, <1>2, <1>3 DEF Next, PutManifest, DeleteManifest, CompleteMultipart

------------------------------------------------------------------------------
(* The theorems.                                                           *)

\* The inductive invariant of a listing holds throughout: the cursor is the place of
\* the last item, and whatever was there all the time is on a page or ahead of it.
THEOREM ListingInvariant == Spec => []ListingInv
<1>1. Init => ListingInv
  BY InitHolds
<1>2. ListingInv /\ [Next]_vars => ListingInv'
  BY StepKeeps
<1> QED
  BY <1>1, <1>2, PTL DEF Spec

\* A key that the bucket shows all through a listing is on one of its pages, for any
\* keys, delimiter and page size and whatever is written in between.
THEOREM NothingIsMissed == Spec => []NothingMissed
<1>1. ListingInv => NothingMissed
  BY DEF ListingInv
<1> QED
  BY <1>1, ListingInvariant, PTL

\* The names on the pages ascend, so that no key and, but for V1, no common prefix is
\* listed twice.
THEOREM EachIsListedOnce == Spec => []ListedOnce
<1>1. ListingInv => ListedOnce
  BY DEF ListingInv
<1> QED
  BY <1>1, ListingInvariant, PTL

\* Whatever is listed has the prefix that was asked for, and the bucket has shown it
\* since the listing began.
THEOREM NothingIsInvented == Spec => []NothingInvented
<1>1. ListingInv => NothingInvented
  BY DEF ListingInv
<1> QED
  BY <1>1, ListingInvariant, PTL

\* A listing of versions beside which nothing is written lists all of them, but for
\* those of a key that a page ended with.
THEOREM LostOnlyAtSeams == Spec => []VersionsLostAtSeams
<1>1. Init => SeamOK
  BY SeamInit
<1>2. ListingInv /\ SeamOK /\ [Next]_vars => SeamOK'
  BY SeamKeeps
<1>3. SeamOK => VersionsLostAtSeams
  BY DEF SeamOK, VersionsLostAtSeams, ListedOrLost
<1> QED
  BY <1>1, <1>2, <1>3, ListingInvariant, PTL DEF Spec

\* No page leads back to where it began: the safety half of ListingEnds.
THEOREM CursorsAdvance == Spec => [][CursorAdvances]_vars
<1>1. ListingInv => CursorAdvances
  BY PageAdvances
<1> QED
  BY <1>1, ListingInvariant, PTL

==============================================================================
