--------------------------- MODULE RangeReadProofs ---------------------------
(***************************************************************************)
(* That GetObject and UploadPartCopy return exactly the bytes a range      *)
(* header means, for every number and every sizes of the parts, and that   *)
(* an empty first part is the only thing that makes a slice leave its      *)
(* buffer.                                                                 *)
(***************************************************************************)
EXTENDS RangeRead, SequenceTheorems, WellFoundedInduction, TLAPS

------------------------------------------------------------------------------
(* Induction, as the least counterexample.                                 *)

\* The order of the numbers as a relation.
LEMMA NatOrder ==
  \E R : IsWellFoundedOn(R, Nat) /\ \A x, y \in Nat : <<y, x>> \in R <=> y < x
<1> DEFINE R == OpToRel(<, Nat)
<1>1. IsWellFoundedOn(R, Nat)
  BY NatLessThanWellFounded
<1>2. \A x, y \in Nat : <<y, x>> \in R <=> y < x
  BY DEF OpToRel
<1> QED
  BY <1>1, <1>2, Zenon

\* A nonempty set of numbers has a least one.
LEMMA LeastNumber ==
  ASSUME NEW T, T \subseteq Nat, T # {}
  PROVE  \E x \in T : \A y \in T : x <= y
<1>1. PICK R : IsWellFoundedOn(R, Nat) /\ \A x, y \in Nat : <<y, x>> \in R <=> y < x
  BY NatOrder
<1>2. PICK x \in T : \A y \in T : ~ (<<y, x>> \in R)
  BY <1>1, WFMin
<1>3. ASSUME NEW y \in T
      PROVE  x <= y
  <2>1. x \in Nat /\ y \in Nat
    OBVIOUS
  <2>2. ~ (<<y, x>> \in R)
    BY <1>2
  <2>3. ~ (y < x)
    BY <1>1, <2>1, <2>2, Zenon
  <2> QED
    BY <2>1, <2>3
<1> QED
  BY <1>3

\* Mathematical induction over a set of numbers.
LEMMA SetInduction ==
  ASSUME NEW S, 0 \in S, \A n \in Nat : n \in S => n + 1 \in S
  PROVE  Nat \subseteq S
<1> DEFINE T == {n \in Nat : n \notin S}
<1> SUFFICES ASSUME T # {}
             PROVE  FALSE
  OBVIOUS
<1>1. PICK x \in T : \A y \in T : x <= y
  BY LeastNumber
<1>2. x \in Nat \ {0}
  OBVIOUS
<1>3. x - 1 \in Nat /\ x - 1 \notin T
  BY <1>1, <1>2
<1>4. (x - 1) + 1 \in S
  BY <1>3
<1> QED
  BY <1>2, <1>4

------------------------------------------------------------------------------
(* Where the parts of an object begin.                                     *)

Sizes == UNION {[1..n -> 0..MaxSize] : n \in 1..MaxParts}

\* f gives the offsets of the first m parts and the end of part m.
OffsetsUpTo(s, m, f) ==
  f = [n \in 1..(m + 1) |-> IF n = 1 THEN 0 ELSE f[n - 1] + s[n - 1]]

\* An object has at least one part, and at most MaxParts.
LEMMA SizesAre ==
  ASSUME NEW s \in Sizes
  PROVE  /\ Len(s) \in 1..MaxParts /\ s \in [1..Len(s) -> 0..MaxSize]
         /\ s \in Seq(0..MaxSize)
<1>1. PICK n \in 1..MaxParts : s \in [1..n -> 0..MaxSize]
  BY DEF Sizes
<1>2. n \in Nat
  BY RangeAssumption
<1>3. PICK T : T = 0..MaxSize
  OBVIOUS
<1>4. s \in Seq(T) /\ Len(s) = n
  <2>1. s \in [1..n -> T]
    BY <1>1, <1>3
  <2>2. s \in Seq(T)
    BY <1>2, <2>1, SeqDef
  <2> QED
    BY <1>2, <2>1, <2>2
<1> QED
  BY <1>1, <1>3, <1>4

\* Every object has offsets.
LEMMA OffsetsExist ==
  ASSUME NEW s, NEW k \in Nat
  PROVE  \E f : OffsetsUpTo(s, k, f)
<1> DEFINE S == {m \in Nat : \E f : OffsetsUpTo(s, m, f)}
<1>1. 0 \in S
  <2>1. OffsetsUpTo(s, 0, [n \in 1..(0 + 1) |-> 0])
    BY DEF OffsetsUpTo
  <2> QED
    BY <2>1
<1>2. ASSUME NEW m \in Nat, m \in S
      PROVE  m + 1 \in S
  <2>1. PICK f : OffsetsUpTo(s, m, f)
    BY <1>2
  <2> DEFINE g == [n \in 1..(m + 1 + 1) |-> IF n = m + 2 THEN f[m + 1] + s[m + 1] ELSE f[n]]
  <2>2. g[m + 2] = f[m + 1] + s[m + 1] /\ \A n \in 1..(m + 1) : g[n] = f[n]
    OBVIOUS
  <2>3. \A n \in 1..(m + 1) : f[n] = IF n = 1 THEN 0 ELSE f[n - 1] + s[n - 1]
    BY <2>1 DEF OffsetsUpTo
  <2>4. g = [n \in 1..(m + 1 + 1) |-> g[n]]
    OBVIOUS
  <2> HIDE DEF g
  <2>5. ASSUME NEW n \in 1..(m + 1 + 1)
        PROVE  g[n] = IF n = 1 THEN 0 ELSE g[n - 1] + s[n - 1]
    <3>1. CASE n = m + 2
      <4>1. n - 1 = m + 1 /\ n # 1 /\ g[m + 1] = f[m + 1]
        BY <2>2, <3>1
      <4> QED
        BY <2>2, <3>1, <4>1
    <3>2. CASE n # m + 2
      <4>1. n \in 1..(m + 1)
        BY <3>2
      <4>2. g[n] = f[n] /\ (n # 1 => g[n - 1] = f[n - 1])
        BY <2>2, <4>1
      <4> QED
        BY <2>3, <4>1, <4>2
    <3> QED
      BY <3>1, <3>2
  <2>6. OffsetsUpTo(s, m + 1, g)
    BY <2>4, <2>5 DEF OffsetsUpTo
  <2> QED
    BY <2>6
<1>3. Nat \subseteq S
  <2> HIDE DEF S
  <2> QED
    BY <1>1, <1>2, SetInduction
<1> QED
  BY <1>3

\* The first part begins at 0, each part where the one before ends, and no object
\* is larger than MaxParts parts of MaxSize.
LEMMA OffsetsAre ==
  ASSUME NEW s \in Sizes
  PROVE  /\ Offsets(s)[1] = 0
         /\ \A n \in 1..Len(s) : Offsets(s)[n + 1] = Offsets(s)[n] + s[n]
         /\ \A n \in 1..(Len(s) + 1) : Offsets(s)[n] \in 0..(MaxParts * MaxSize)
<1>1. PICK k \in Nat : k = Len(s)
  BY SizesAre, RangeAssumption
<1>2. /\ k \in 1..MaxParts /\ s \in [1..k -> 0..MaxSize]
      /\ MaxSize \in Nat /\ MaxParts \in Nat
  BY <1>1, SizesAre, RangeAssumption
<1>3. PICK at : at = Offsets(s)
  OBVIOUS
<1>4. OffsetsUpTo(s, k, at)
  BY <1>1, <1>3, OffsetsExist DEF Offsets, OffsetsUpTo
<1>5. at[1] = 0 /\ \A n \in 1..k : at[n + 1] = at[n] + s[n]
  <2>1. \A n \in 1..(k + 1) : at[n] = IF n = 1 THEN 0 ELSE at[n - 1] + s[n - 1]
    BY <1>4 DEF OffsetsUpTo
  <2>2. at[1] = 0
    BY <2>1
  <2>3. ASSUME NEW n \in 1..k
        PROVE  at[n + 1] = at[n] + s[n]
    <3>1. n + 1 \in 1..(k + 1) /\ n + 1 # 1 /\ (n + 1) - 1 = n
      OBVIOUS
    <3> QED
      BY <2>1, <3>1
  <2> QED
    BY <2>2, <2>3
<1> DEFINE S == {m \in Nat : m <= k => at[m + 1] \in 0..(m * MaxSize)}
<1>6. 0 \in S
  BY <1>2, <1>5
<1>7. ASSUME NEW m \in Nat, m \in S
      PROVE  m + 1 \in S
  <2> SUFFICES ASSUME m + 1 <= k
               PROVE  at[m + 1 + 1] \in 0..((m + 1) * MaxSize)
    OBVIOUS
  <2>1. at[m + 1] \in 0..(m * MaxSize)
    BY <1>7
  <2>2. m + 1 \in 1..k /\ s[m + 1] \in 0..MaxSize
    BY <1>2
  <2>3. at[m + 1 + 1] = at[m + 1] + s[m + 1]
    BY <1>5, <2>2
  <2>4. (m + 1) * MaxSize = m * MaxSize + MaxSize /\ m * MaxSize \in Nat
    BY <1>2
  <2> QED
    BY <1>2, <2>1, <2>2, <2>3, <2>4
<1>8. Nat \subseteq S
  <2> HIDE DEF S
  <2> QED
    BY <1>6, <1>7, SetInduction
<1>9. ASSUME NEW n \in 1..(k + 1)
      PROVE  at[n] \in 0..(MaxParts * MaxSize)
  <2>1. PICK m \in Nat : m = n - 1
    OBVIOUS
  <2>2. m <= k /\ at[m + 1] \in 0..(m * MaxSize) /\ m + 1 = n
    BY <1>8, <2>1
  <2>3. m * MaxSize <= MaxParts * MaxSize
    <3>1. PICK d \in Nat : MaxParts = m + d
      BY <1>2, <2>2
    <3>2. MaxParts * MaxSize = m * MaxSize + d * MaxSize /\ d * MaxSize \in Nat
      BY <1>2, <3>1
    <3> QED
      BY <1>2, <3>2
  <2>4. m * MaxSize \in Nat /\ MaxParts * MaxSize \in Nat
    BY <1>2
  <2> QED
    BY <2>2, <2>3, <2>4
<1> QED
  BY <1>1, <1>3, <1>5, <1>9

------------------------------------------------------------------------------
(* Spans of bytes.                                                         *)

\* s is the n bytes from a on.
IsRun(s, a, n) ==
  s \in Seq(Int) /\ Len(s) = n /\ \A i \in 1..n : s[i] = a + i - 1

\* That determines s.
LEMMA RunIsUnique ==
  ASSUME NEW a \in Int, NEW n \in Nat, NEW s, NEW t, IsRun(s, a, n), IsRun(t, a, n)
  PROVE  s = t
BY SeqEqual DEF IsRun

\* A span is a run of its length.
LEMMA SpanIsRun ==
  ASSUME NEW a \in Int, NEW b \in Int, NEW n \in Nat, n = b - a + 1
  PROVE  IsRun(Span(a, b), a, n)
<1>1. Span(a, b) = [i \in 1..n |-> a + i - 1]
  BY DEF Span
<1>2. Span(a, b) \in [1..n -> Int]
  BY <1>1
<1>3. Span(a, b) \in Seq(Int)
  BY <1>2, SeqDef
<1>4. Len(Span(a, b)) = n
  BY <1>2, <1>3
<1> QED
  BY <1>1, <1>3, <1>4 DEF IsRun

\* A span that ends before it begins is empty.
LEMMA EmptySpan ==
  ASSUME NEW a \in Int, NEW b \in Int, b < a
  PROVE  Span(a, b) = <<>>
<1>1. 1..(b - a + 1) = 1..0
  OBVIOUS
<1>2. Span(a, b) = [i \in 1..0 |-> a + i - 1]
  BY <1>1 DEF Span
<1> QED
  BY <1>2

\* Adjacent spans join.
LEMMA SpansJoin ==
  ASSUME NEW a \in Int, NEW b \in Int, NEW c \in Int, a <= b + 1, b <= c
  PROVE  Span(a, b) \o Span(b + 1, c) = Span(a, c)
<1>1. PICK m \in Nat : m = b - a + 1
  OBVIOUS
<1>2. PICK n \in Nat : n = c - b
  OBVIOUS
<1>3. PICK d \in Int : d = b + 1 /\ d = a + m
  BY <1>1
<1>4. PICK s : s = Span(a, b)
  OBVIOUS
<1>5. PICK t : t = Span(b + 1, c)
  OBVIOUS
<1>6. IsRun(s, a, m)
  BY <1>1, <1>4, SpanIsRun
<1>7. IsRun(t, d, n)
  <2>1. n = c - d + 1 /\ t = Span(d, c)
    BY <1>2, <1>3, <1>5
  <2> QED
    BY <2>1, SpanIsRun
<1>8. IsRun(Span(a, c), a, m + n)
  <2>1. m + n = c - a + 1 /\ m + n \in Nat
    BY <1>1, <1>2
  <2> QED
    BY <2>1, SpanIsRun
<1>9. IsRun(s \o t, a, m + n)
  <2>1. s \in Seq(Int) /\ t \in Seq(Int) /\ Len(s) = m /\ Len(t) = n
    BY <1>6, <1>7 DEF IsRun
  <2>2. PICK u : u = s \o t
    OBVIOUS
  <2>3. u \in Seq(Int) /\ Len(u) = m + n
    BY <2>1, <2>2, ConcatProperties
  <2>4. \A i \in 1..(m + n) : u[i] = IF i <= m THEN s[i] ELSE t[i - m]
    <3>1. \A i \in 1..(Len(s) + Len(t)) : u[i] = IF i <= Len(s) THEN s[i] ELSE t[i - Len(s)]
      BY <2>1, <2>2, ConcatProperties
    <3> QED
      BY <2>1, <3>1
  <2>5. ASSUME NEW i \in 1..(m + n)
        PROVE  u[i] = a + i - 1
    <3>1. CASE i <= m
      <4>1. i \in 1..m
        BY <3>1
      <4> QED
        BY <1>6, <2>4, <3>1, <4>1 DEF IsRun
    <3>2. CASE ~ (i <= m)
      <4>1. i - m \in 1..n
        BY <3>2
      <4>2. t[i - m] = d + (i - m) - 1
        BY <1>7, <4>1 DEF IsRun
      <4> QED
        BY <1>3, <2>4, <3>2, <4>2
    <3> QED
      BY <3>1, <3>2
  <2> QED
    BY <2>2, <2>3, <2>5 DEF IsRun
<1>10. s \o t = Span(a, c)
  <2>1. m + n \in Nat
    OBVIOUS
  <2> QED
    BY <1>8, <1>9, <2>1, RunIsUnique, Zenon
<1> QED
  BY <1>4, <1>5, <1>10

\* A slice of a span is a span.
LEMMA SpanSlice ==
  ASSUME NEW a \in Int, NEW b \in Int, NEW i \in Nat \ {0}, NEW j \in Nat,
         i <= j + 1, j <= b - a + 1
  PROVE  SubSeq(Span(a, b), i, j) = Span(a + i - 1, a + j - 1)
<1>1. PICK n \in Nat : n = b - a + 1
  OBVIOUS
<1>2. PICK m \in Nat : m = j - i + 1
  OBVIOUS
<1>3. PICK s : s = Span(a, b)
  OBVIOUS
<1>4. PICK c \in Int : c = a + i - 1
  OBVIOUS
<1>5. IsRun(s, a, n)
  BY <1>1, <1>3, SpanIsRun
<1>6. IsRun(Span(c, a + j - 1), c, m)
  <2>1. m = (a + j - 1) - c + 1 /\ a + j - 1 \in Int
    BY <1>2, <1>4
  <2> QED
    BY <2>1, SpanIsRun
<1>7. IsRun(SubSeq(s, i, j), c, m)
  <2>1. \A k \in i..j : s[k] = a + k - 1
    BY <1>1, <1>5 DEF IsRun
  <2>2. PICK u : u = SubSeq(s, i, j)
    OBVIOUS
  <2>3. \A k \in i..j : s[k] \in Int
    BY <2>1
  <2>4. u \in Seq(Int) /\ Len(u) = m
    <3>1. u \in Seq(Int) /\ Len(u) = IF i <= j THEN j - i + 1 ELSE 0
      BY <2>2, <2>3, SubSeqProperties
    <3> QED
      BY <1>2, <3>1
  <2>5. ASSUME NEW k \in 1..m
        PROVE  u[k] = c + k - 1
    <3>1. s \in Seq(Int) /\ j <= Len(s)
      BY <1>1, <1>5 DEF IsRun
    <3>2. SubSeq(s, i, j)[k] = s[i + k - 1]
      BY <1>2, <3>1
    <3>3. i + k - 1 \in i..j
      BY <1>2
    <3>4. s[i + k - 1] = a + (i + k - 1) - 1
      BY <2>1, <3>3
    <3> QED
      BY <1>4, <2>2, <3>2, <3>4
  <2> QED
    BY <2>2, <2>4, <2>5 DEF IsRun
<1>8. SubSeq(s, i, j) = Span(c, a + j - 1)
  BY <1>6, <1>7, RunIsUnique
<1> QED
  BY <1>3, <1>4, <1>8

\* The ends of an interval.
LEMMA IntervalEnds ==
  ASSUME NEW a \in Int, NEW b \in Int, a <= b
  PROVE  /\ (CHOOSE i \in a..b : \A j \in a..b : i <= j) = a
         /\ (CHOOSE i \in a..b : \A j \in a..b : i >= j) = b
OBVIOUS

------------------------------------------------------------------------------
(* The inductive invariant.                                                *)

\* The bytes of the range the header was resolved to.
Wanted == IF range = Missing THEN Span(0, ObjectSize - 1) ELSE Span(range[1], range[2])

InputOK ==
  /\ sizes \in Sizes
  /\ req \in [op : Requests, header : Headers]
  /\ next \in 1..(Len(sizes) + 1)
  /\ status \in {"parse", "reading", "done", "refused", "panic"}

\* The header was resolved to a range of the object, and to the one it means.
ResolvedOK ==
  status \in {"reading", "done"} =>
    /\ \/ range = Missing /\ req.op = "get"
       \/ range \in Nat \X Nat /\ range[1] <= range[2] /\ range[2] < ObjectSize
    /\ Meant = Wanted

\* What has been collected is what falls into the parts before the next one; the
\* cursor is where that begins, and past the first part it is not at 0 any more.
ReadOK ==
  /\ status = "parse" => next = 1 /\ cursor = 0 /\ out = <<>>
  /\ status = "reading" /\ req.op = "get" => out = Span(0, Offsets(sizes)[next] - 1)
  /\ status = "reading" /\ req.op = "copy" =>
       /\ cursor = Offsets(sizes)[next] /\ (next > 1 => cursor > 0)
       /\ out = Span(range[1], Least(range[2], cursor - 1))
  /\ status = "done" => out = Wanted
  /\ status = "panic" => req.op = "copy" /\ sizes[1] = 0

RangeInv == InputOK /\ ResolvedOK /\ ReadOK

------------------------------------------------------------------------------
(* The range headers.                                                      *)

\* The cursor of a copy never reaches the width of a u64.
LEMMA SizeIs ==
  ASSUME InputOK
  PROVE  ObjectSize \in Nat /\ ObjectSize < Wrap
<1>1. Len(sizes) + 1 \in 1..(Len(sizes) + 1)
  BY SizesAre, RangeAssumption DEF InputOK
<1>2. ObjectSize \in 0..(MaxParts * MaxSize)
  BY <1>1, OffsetsAre DEF InputOK, ObjectSize
<1>3. MaxParts * MaxSize \in Nat
  BY RangeAssumption
<1> QED
  BY <1>2, <1>3, RangeAssumption

\* The forms of a header.
LEMMA HeaderIs ==
  ASSUME InputOK, ~ NoHeader
  PROVE  \/ /\ req.header[1] \in Nat
            /\ req.header[2] \in Nat \cup {Missing}
         \/ req.header[1] = Missing /\ req.header[2] \in Nat
<1>1. req.header \in Headers
  BY DEF InputOK
<1> QED
  BY <1>1, RangeAssumption DEF Headers, NoHeader

\* A header that names the positions from a to b means those bytes.
LEMMA MeantInterval ==
  ASSUME NEW a \in Int, NEW b \in Int, a <= b, Named = a..b, ~ NoHeader
  PROVE  Meant = Span(a, b)
<1>1. Named # {}
  OBVIOUS
<1>2. /\ (CHOOSE i \in Named : \A j \in Named : i <= j) = a
      /\ (CHOOSE i \in Named : \A j \in Named : i >= j) = b
  BY IntervalEnds
<1> QED
  BY <1>1, <1>2, Zenon DEF Meant

\* parse_range_header finds the positions that the header names: none, or those
\* of a range within the object.
LEMMA ParseRangeIs ==
  ASSUME InputOK, ~ NoHeader,
         NEW r, r = ParseRange(req.header[1], req.header[2], ObjectSize)
  PROVE  \/ r = Missing /\ Named = {}
         \/ /\ r \in Nat \X Nat /\ r[1] <= r[2] /\ r[2] < ObjectSize
            /\ Named = r[1]..r[2]
<1>1. PICK size \in Nat : size = ObjectSize
  BY SizeIs
<1>2. PICK first : first = req.header[1]
  OBVIOUS
<1>3. PICK last : last = req.header[2]
  OBVIOUS
<1>4. \/ first \in Nat /\ last \in Nat \cup {Missing}
      \/ first = Missing /\ last \in Nat
  BY <1>2, <1>3, HeaderIs
<1>5. Named = {i \in 0..(size - 1) : IF first = Missing THEN i >= size - last
                                     ELSE i >= first /\ (last = Missing \/ i <= last)}
  BY <1>1, <1>2, <1>3 DEF Named
<1>6. r = ParseRange(first, last, size) /\ Missing \notin Nat
  BY <1>1, <1>2, <1>3, RangeAssumption
<1> DEFINE Found(a, b) == r = <<a, b>> /\ a \in Nat /\ b \in Nat /\ a <= b /\ b < size
                          /\ Named = a..b
<1>7. ASSUME NEW a, NEW b, Found(a, b)
      PROVE  /\ r \in Nat \X Nat /\ r[1] <= r[2] /\ r[2] < ObjectSize
             /\ Named = r[1]..r[2]
  BY <1>1, <1>7
<1>8. CASE size = 0
  <2>1. Named = {}
    BY <1>5, <1>8
  <2>2. r = Missing
    BY <1>6, <1>8 DEF ParseRange
  <2> QED
    BY <2>1, <2>2
<1>9. CASE size # 0 /\ first = Missing
  <2>1. last \in Nat
    BY <1>4, <1>6, <1>9
  <2>2. CASE last = 0
    <3>1. Named = {}
      BY <1>5, <1>9, <2>2
    <3>2. r = Missing
      BY <1>6, <1>9, <2>2 DEF ParseRange
    <3> QED
      BY <3>1, <3>2
  <2>3. CASE last # 0
    <3>1. PICK a : a = SaturatingSub(size, last)
      OBVIOUS
    <3>2. a \in Nat /\ a <= size - 1 /\ (a = size - last \/ (a = 0 /\ size <= last))
      BY <1>9, <2>1, <2>3, <3>1 DEF SaturatingSub
    <3>3. Named = a..(size - 1)
      BY <1>5, <1>9, <2>1, <3>2
    <3>4. SaturatingSub(size, 1) = size - 1
      BY <1>9 DEF SaturatingSub
    <3>5. r = <<a, size - 1>>
      <4>1. ~ (a > size - 1)
        BY <1>9, <3>2
      <4> QED
        BY <1>6, <1>9, <2>3, <3>1, <3>4, <4>1 DEF ParseRange
    <3> QED
      BY <1>7, <1>9, <3>2, <3>3, <3>5
  <2> QED
    BY <2>2, <2>3
<1>10. CASE size # 0 /\ first # Missing
  <2>1. first \in Nat /\ last \in Nat \cup {Missing}
    BY <1>4, <1>10
  <2>2. SaturatingSub(size, 1) = size - 1
    BY <1>10 DEF SaturatingSub
  <2>3. PICK b : b = IF last = Missing THEN size - 1 ELSE Least(last, size - 1)
    OBVIOUS
  <2>4. b \in Nat /\ b <= size - 1
    BY <1>10, <2>1, <2>3 DEF Least
  <2>5. Named = first..b
    <3>1. CASE last = Missing
      BY <1>5, <1>10, <2>1, <2>3, <3>1
    <3>2. CASE last # Missing
      BY <1>5, <1>10, <2>1, <2>3, <3>2 DEF Least
    <3> QED
      BY <3>1, <3>2
  <2>6. r = IF first > size - 1 \/ first > b THEN Missing ELSE <<first, b>>
    BY <1>6, <1>10, <2>2, <2>3 DEF ParseRange
  <2>7. CASE first > b
    BY <2>1, <2>4, <2>5, <2>6, <2>7
  <2>8. CASE ~ (first > b)
    <3>1. r = <<first, b>>
      BY <2>1, <2>4, <2>6, <2>8
    <3> QED
      BY <1>7, <2>1, <2>4, <2>5, <2>8, <3>1
  <2> QED
    BY <2>7, <2>8
<1> QED
  BY <1>8, <1>9, <1>10

\* parse_copy_range accepts a header only if all it names is in the object.
LEMMA CopyRangeIs ==
  ASSUME InputOK, ~ NoHeader, ~ CopyRangeRefused(req.header[1], req.header[2], ObjectSize)
  PROVE  /\ req.header \in Nat \X Nat /\ req.header[1] <= req.header[2]
         /\ req.header[2] < ObjectSize
         /\ Named = req.header[1]..req.header[2]
<1>1. req.header[1] \in Nat /\ req.header[2] \in Nat
  BY HeaderIs DEF CopyRangeRefused
<1>2. ObjectSize \in Nat
  BY SizeIs
<1>3. req.header[1] <= req.header[2] /\ req.header[2] < ObjectSize
  BY <1>1, <1>2 DEF CopyRangeRefused
<1>4. Named = req.header[1]..req.header[2]
  BY <1>1, <1>2, <1>3, RangeAssumption DEF Named
<1>5. req.header \in Nat \X Nat
  <2>1. req.header \in Headers
    BY DEF InputOK
  <2> QED
    BY <1>1, <2>1, RangeAssumption DEF Headers
<1> QED
  BY <1>3, <1>4, <1>5

------------------------------------------------------------------------------
(* One lemma per action.                                                   *)

\* What the request means does not change while it is served.
LEMMA SameMeaning ==
  ASSUME UNCHANGED <<sizes, req>>
  PROVE  ObjectSize' = ObjectSize /\ Meant' = Meant
<1>1. ObjectSize' = ObjectSize
  BY DEF ObjectSize
<1>2. Named' = Named /\ NoHeader' = NoHeader
  BY <1>1 DEF Named, NoHeader
<1> QED
  BY <1>1, <1>2 DEF Meant

\* A request starts with nothing read.
LEMMA InitOK ==
  ASSUME Init
  PROVE  RangeInv
<1>1. sizes \in Sizes
  BY DEF Init, Sizes
<1>2. next \in 1..(Len(sizes) + 1)
  BY <1>1, SizesAre, RangeAssumption DEF Init
<1> QED
  BY <1>1, <1>2 DEF Init, RangeInv, InputOK, ResolvedOK, ReadOK

\* get_or_head_object resolves the header to what it means.
LEMMA ParseGetOK ==
  ASSUME RangeInv, ParseGet
  PROVE  RangeInv'
<1> USE DEF RangeInv
<1>0. ObjectSize' = ObjectSize /\ Meant' = Meant
  BY SameMeaning DEF ParseGet
<1>1. InputOK'
  BY DEF ParseGet, InputOK
<1>2. ResolvedOK'
  <2>1. CASE NoHeader
    <3>1. range' = Missing /\ Meant = Span(0, ObjectSize - 1)
      BY <2>1 DEF ParseGet, Meant
    <3> QED
      BY <1>0, <3>1 DEF ParseGet, ResolvedOK, Wanted
  <2>2. CASE ~ NoHeader
    <3>1. PICK r : r = ParseRange(req.header[1], req.header[2], ObjectSize)
      OBVIOUS
    <3>2. range' = r
      BY <2>2, <3>1 DEF ParseGet
    <3>3. CASE r = Missing /\ Named = {}
      <4>1. Meant = Span(0, ObjectSize - 1)
        BY <3>3 DEF Meant
      <4> QED
        BY <1>0, <3>2, <3>3, <4>1 DEF ParseGet, ResolvedOK, Wanted
    <3>4. CASE /\ r \in Nat \X Nat /\ r[1] <= r[2] /\ r[2] < ObjectSize
               /\ Named = r[1]..r[2]
      <4>1. Meant = Span(r[1], r[2])
        BY <2>2, <3>4, MeantInterval
      <4>2. r # Missing
        BY <3>4, RangeAssumption
      <4> QED
        BY <1>0, <3>2, <3>4, <4>1, <4>2 DEF ResolvedOK, Wanted
    <3> QED
      BY <2>2, <3>1, <3>3, <3>4, ParseRangeIs
  <2> QED
    BY <2>1, <2>2
<1>3. ReadOK'
  <2>1. out' = <<>> /\ next' = 1 /\ sizes' = sizes /\ status' = "reading" /\ req' = req
        /\ req.op = "get"
    BY DEF ParseGet, ReadOK
  <2>2. Offsets(sizes)[1] - 1 = 0 - 1
    BY OffsetsAre DEF InputOK
  <2>3. Span(0, 0 - 1) = <<>>
    BY EmptySpan
  <2> QED
    BY <2>1, <2>2, <2>3 DEF ReadOK
<1> QED
  BY <1>1, <1>2, <1>3

\* upload_part_copy refuses the header or resolves it to what it means.
LEMMA ParseCopyOK ==
  ASSUME RangeInv, ParseCopy
  PROVE  RangeInv'
<1> USE DEF RangeInv
<1> DEFINE refused == IF NoHeader THEN ObjectSize = 0
                      ELSE CopyRangeRefused(req.header[1], req.header[2], ObjectSize)
<1>0. ObjectSize' = ObjectSize /\ Meant' = Meant
  BY SameMeaning DEF ParseCopy
<1>1. InputOK'
  BY DEF ParseCopy, InputOK
<1>2. CASE refused
  <2>1. status' = "refused"
    BY <1>2 DEF ParseCopy
  <2> QED
    BY <1>1, <2>1 DEF ResolvedOK, ReadOK
<1>3. CASE ~ refused
  <2>1. /\ status' = "reading" /\ range' = IF NoHeader THEN <<0, ObjectSize - 1>> ELSE req.header
        /\ out' = <<>> /\ next' = 1 /\ cursor' = 0 /\ sizes' = sizes /\ req' = req /\ req.op = "copy"
    BY <1>3 DEF ParseCopy, ReadOK
  <2>2. ObjectSize \in Nat
    BY SizeIs
  <2>3. /\ range' \in Nat \X Nat /\ range'[1] <= range'[2] /\ range'[2] < ObjectSize
        /\ Meant = Span(range'[1], range'[2])
    <3>1. CASE NoHeader
      <4>1. range' = <<0, ObjectSize - 1>> /\ ObjectSize # 0
        BY <1>3, <2>1, <3>1
      <4>2. Meant = Span(0, ObjectSize - 1)
        BY <3>1 DEF Meant
      <4> QED
        BY <2>2, <4>1, <4>2
    <3>2. CASE ~ NoHeader
      <4>1. range' = req.header
        BY <2>1, <3>2
      <4>2. /\ req.header \in Nat \X Nat /\ req.header[1] <= req.header[2]
            /\ req.header[2] < ObjectSize /\ Named = req.header[1]..req.header[2]
        BY <1>3, <3>2, CopyRangeIs
      <4>3. Meant = Span(req.header[1], req.header[2])
        BY <3>2, <4>2, MeantInterval
      <4> QED
        BY <4>1, <4>2, <4>3
    <3> QED
      BY <3>1, <3>2
  <2>4. range' # Missing
    BY <2>3, RangeAssumption
  <2>5. ResolvedOK'
    BY <1>0, <2>3, <2>4 DEF ResolvedOK, Wanted
  <2>6. ReadOK'
    <3>1. Offsets(sizes)[1] = 0
      BY OffsetsAre DEF InputOK
    <3>2. Least(range'[2], 0 - 1) = 0 - 1 /\ range'[1] \in Nat
      BY <2>3 DEF Least
    <3>3. Span(range'[1], 0 - 1) = <<>>
      BY <3>2, EmptySpan
    <3> QED
      BY <2>1, <3>1, <3>2, <3>3 DEF ReadOK
  <2> QED
    BY <1>1, <2>5, <2>6
<1> QED
  BY <1>2, <1>3

\* The buffer holds the parts read so far, one after the other.
LEMMA BufferPartOK ==
  ASSUME RangeInv, BufferPart
  PROVE  RangeInv'
<1> USE DEF RangeInv
<1>0. ObjectSize' = ObjectSize /\ Meant' = Meant
  BY SameMeaning DEF BufferPart
<1>1. Len(sizes) \in Nat /\ next \in 1..Len(sizes)
  BY SizesAre, RangeAssumption DEF BufferPart, InputOK
<1>2. InputOK'
  BY <1>1 DEF BufferPart, InputOK
<1>3. ResolvedOK'
  BY <1>0 DEF BufferPart, ResolvedOK, Wanted
<1>4. ReadOK'
  <2>1. PICK a \in Nat : a = Offsets(sizes)[next]
    BY <1>1, OffsetsAre DEF InputOK
  <2>2. PICK b \in Nat : b = Offsets(sizes)[next + 1]
    BY <1>1, OffsetsAre DEF InputOK
  <2>3. b = a + sizes[next] /\ sizes[next] \in Nat
    BY <1>1, <2>1, <2>2, OffsetsAre, SizesAre DEF InputOK
  <2>4. PartBytes(next) = Span(a, b - 1)
    BY <2>1, <2>3 DEF PartBytes
  <2>5. out = Span(0, a - 1)
    BY <2>1 DEF ReadOK, BufferPart
  <2>6. Span(0, a - 1) \o Span(a, b - 1) = Span(0, b - 1)
    <3>1. PICK c \in Int : c = a - 1
      OBVIOUS
    <3>2. PICK d \in Int : d = b - 1
      OBVIOUS
    <3>3. 0 <= c + 1 /\ c <= d /\ c + 1 = a
      BY <2>3, <3>1, <3>2
    <3>4. Span(0, c) \o Span(c + 1, d) = Span(0, d)
      BY <3>3, SpansJoin
    <3> QED
      BY <3>1, <3>2, <3>3, <3>4
  <2>7. /\ out' = Span(0, Offsets(sizes)[next + 1] - 1) /\ next' = next + 1
        /\ UNCHANGED <<sizes, req, status>> /\ status = "reading" /\ req.op = "get"
    BY <2>2, <2>4, <2>5, <2>6 DEF BufferPart
  <2> QED
    BY <2>7 DEF ReadOK
<1> QED
  BY <1>2, <1>3, <1>4

\* A range within the object is within the buffer of all its parts.
LEMMA SliceBufferOK ==
  ASSUME RangeInv, SliceBuffer
  PROVE  RangeInv'
<1> USE DEF RangeInv
<1>0. ObjectSize' = ObjectSize /\ Meant' = Meant
  BY SameMeaning DEF SliceBuffer
<1>1. PICK size \in Nat : size = ObjectSize
  BY SizeIs
<1>2. out = Span(0, size - 1)
  <2>1. next = Len(sizes) + 1
    BY SizesAre, RangeAssumption DEF SliceBuffer, InputOK
  <2> QED
    BY <1>1, <2>1 DEF ReadOK, SliceBuffer, ObjectSize
<1>3. Len(out) = size
  <2>1. IsRun(Span(0, size - 1), 0, size)
    BY SpanIsRun
  <2> QED
    BY <1>2, <2>1 DEF IsRun
<1>4. InputOK'
  BY DEF SliceBuffer, InputOK
<1>5. status' = "done" /\ out' = Wanted
  <2>1. CASE range = Missing
    BY <1>1, <1>2, <2>1 DEF SliceBuffer, Wanted
  <2>2. CASE range # Missing
    <3>1. PICK a \in Nat : a = range[1]
      BY <2>2 DEF ResolvedOK, SliceBuffer
    <3>2. PICK b \in Nat : b = range[2]
      BY <2>2 DEF ResolvedOK, SliceBuffer
    <3>3. a <= b /\ b < size
      BY <1>1, <2>2, <3>1, <3>2 DEF ResolvedOK, SliceBuffer
    <3>4. status' = "done" /\ out' = SubSeq(out, a + 1, b + 1)
      BY <1>3, <2>2, <3>1, <3>2, <3>3 DEF SliceBuffer
    <3>5. SubSeq(Span(0, size - 1), a + 1, b + 1) = Span(a, b)
      <4>1. PICK i \in Nat \ {0} : i = a + 1
        OBVIOUS
      <4>2. PICK j \in Nat : j = b + 1
        OBVIOUS
      <4>3. PICK e \in Int : e = size - 1
        OBVIOUS
      <4>4. PICK z \in Int : z = 0
        OBVIOUS
      <4>5. i <= j + 1 /\ j <= e - z + 1
        BY <3>3, <4>1, <4>2, <4>3, <4>4
      <4>6. SubSeq(Span(z, e), i, j) = Span(z + i - 1, z + j - 1)
        BY <4>5, SpanSlice
      <4>7. z + i - 1 = a /\ z + j - 1 = b
        BY <4>1, <4>2, <4>4
      <4> QED
        BY <4>1, <4>2, <4>3, <4>4, <4>6, <4>7
    <3> QED
      BY <1>2, <2>2, <3>1, <3>2, <3>4, <3>5 DEF Wanted
  <2> QED
    BY <2>1, <2>2
<1>6. Wanted' = Wanted
  BY <1>0 DEF SliceBuffer, Wanted
<1>7. ResolvedOK'
  BY <1>0, <1>6 DEF SliceBuffer, ResolvedOK
<1>8. ReadOK'
  BY <1>5, <1>6 DEF ReadOK
<1> QED
  BY <1>4, <1>7, <1>8

\* read_source_range.  The u64 that the code computes for the last byte of a part
\* is the last byte, unless the part is empty and the cursor at 0.
LEMMA CopyPartOK ==
  ASSUME RangeInv, CopyPart
  PROVE  RangeInv'
<1> USE DEF RangeInv
<1>0. ObjectSize' = ObjectSize /\ Meant' = Meant
  BY SameMeaning DEF CopyPart
<1>1. Len(sizes) \in Nat /\ next \in 1..Len(sizes)
  BY SizesAre, RangeAssumption DEF CopyPart, InputOK
<1>2. PICK c \in Nat : c = cursor /\ c = Offsets(sizes)[next]
  BY <1>1, OffsetsAre DEF InputOK, ReadOK, CopyPart
<1>3. PICK s \in Nat : s = sizes[next]
  BY <1>1, SizesAre DEF InputOK
<1>4. c + s = Offsets(sizes)[next + 1] /\ c + s < Wrap /\ Wrap \in Nat
  <2>1. c + s = Offsets(sizes)[next + 1]
    BY <1>1, <1>2, <1>3, OffsetsAre DEF InputOK
  <2>2. Offsets(sizes)[next + 1] \in 0..(MaxParts * MaxSize)
    BY <1>1, OffsetsAre DEF InputOK
  <2>3. MaxParts * MaxSize \in Nat
    BY RangeAssumption
  <2> QED
    BY <2>1, <2>2, <2>3, RangeAssumption
<1>5. PICK a \in Nat : a = range[1]
  BY DEF ResolvedOK, CopyPart
<1>6. PICK b \in Nat : b = range[2]
  BY DEF ResolvedOK, CopyPart
<1>7. a <= b /\ b + 1 < Wrap
  <2>1. a <= b /\ b < ObjectSize
    BY <1>5, <1>6 DEF ResolvedOK, CopyPart
  <2> QED
    BY <1>4, <2>1, SizeIs
<1>8. (next > 1 => c > 0) /\ out = Span(a, Least(b, c - 1))
  BY <1>2, <1>5, <1>6 DEF ReadOK, CopyPart
<1>9. /\ cursor' = c + s /\ next' = next + 1 /\ UNCHANGED <<sizes, req, range>>
      /\ req.op = "copy" /\ status' \in {"reading", "panic"}
  BY <1>2, <1>3 DEF CopyPart
<1>10. InputOK'
  BY <1>1, <1>9 DEF InputOK
<1>11. ResolvedOK'
  BY <1>0 DEF CopyPart, ResolvedOK, Wanted
<1> DEFINE localStart == SaturatingSub(a, c)
           skipped == PartEnd < a \/ c > b
           localEnd == IF PartEnd > b THEN b - c + 1 ELSE s
           inside == localStart <= localEnd /\ localEnd <= s
<1>12. /\ status' = IF skipped \/ inside THEN "reading" ELSE "panic"
       /\ out' = IF skipped \/ ~ inside THEN out
                 ELSE out \o SubSeq(PartBytes(next), localStart + 1, localEnd)
  BY <1>2, <1>3, <1>5, <1>6 DEF CopyPart, LocalEnd
<1>13. CASE c = 0 /\ s = 0
  <2>1. next = 1
    BY <1>1, <1>8, <1>13
  <2>2. PartEnd = Wrap - 1
    <3>1. PartEnd = (0 - 1) % Wrap
      BY <1>2, <1>3, <1>13 DEF PartEnd
    <3> QED
      BY <1>4, <3>1
  <2>3. ~ skipped /\ ~ inside
    <3>1. PartEnd > b /\ ~ (PartEnd < a)
      BY <1>4, <1>7, <2>2
    <3>2. localEnd = b - c + 1
      BY <3>1
    <3> QED
      BY <1>7, <1>13, <3>1, <3>2
  <2>4. status' = "panic"
    BY <1>12, <2>3
  <2> QED
    BY <1>3, <1>9, <1>10, <1>11, <1>13, <2>1, <2>4 DEF ReadOK
<1>14. CASE ~ (c = 0 /\ s = 0)
  <2>1. PartEnd = c + s - 1
    <3>1. PICK e \in Nat : e = c + s - 1
      BY <1>14
    <3>2. PartEnd = e % Wrap /\ e < Wrap
      BY <1>2, <1>3, <1>4, <3>1 DEF PartEnd
    <3> QED
      BY <1>4, <3>1, <3>2
  <2>2. skipped => c + s - 1 < a \/ c > b
    BY <2>1
  <2>3. ~ skipped => inside
    BY <1>7, <2>1 DEF SaturatingSub
  <2>4. status' = "reading"
    BY <1>12, <2>3
  <2>5. out' = Span(a, Least(b, c + s - 1))
    <3>1. CASE c + s - 1 < a
      <4>1. Least(b, c - 1) < a /\ Least(b, c + s - 1) < a
        BY <1>7, <3>1 DEF Least
      <4>2. Least(b, c - 1) \in Int /\ Least(b, c + s - 1) \in Int
        BY DEF Least
      <4>3. out = <<>> /\ Span(a, Least(b, c + s - 1)) = <<>>
        BY <1>8, <4>1, <4>2, EmptySpan
      <4>4. out' = out
        BY <1>12, <2>1, <3>1
      <4> QED
        BY <4>3, <4>4
    <3>2. CASE c > b
      <4>1. Least(b, c - 1) = b /\ Least(b, c + s - 1) = b
        BY <3>2 DEF Least
      <4>2. out' = out
        BY <1>12, <3>2
      <4> QED
        BY <1>8, <4>1, <4>2
    <3>3. CASE ~ (c + s - 1 < a) /\ ~ (c > b)
      <4>1. out' = out \o SubSeq(PartBytes(next), localStart + 1, localEnd)
        BY <1>12, <2>1, <2>3, <3>3
      <4>2. PartBytes(next) = Span(c, c + s - 1)
        BY <1>2, <1>3 DEF PartBytes
      <4>3. PICK i \in Nat \ {0} : i = localStart + 1
        <5>1. localStart \in Nat
          BY DEF SaturatingSub
        <5> QED
          BY <5>1
      <4>4. PICK j \in Nat : j = localEnd
        <5>1. localEnd \in Nat
          BY <3>3
        <5> QED
          BY <5>1
      <4>5. PICK p \in Int : p = c + i - 1
        OBVIOUS
      <4>6. PICK e \in Int : e = c + j - 1
        OBVIOUS
      <4>7. e = Least(b, c + s - 1)
        BY <2>1, <4>4, <4>6 DEF Least
      <4>8. p = IF a > c THEN a ELSE c
        BY <4>3, <4>5 DEF SaturatingSub
      <4>9. i <= j + 1 /\ j <= s
        BY <1>7, <2>1, <3>3, <4>3, <4>4 DEF SaturatingSub
      <4>10. SubSeq(PartBytes(next), i, j) = Span(p, e)
        <5>1. PICK d \in Int : d = c + s - 1
          OBVIOUS
        <5>2. j <= d - c + 1
          BY <4>9, <5>1
        <5>3. SubSeq(Span(c, d), i, j) = Span(c + i - 1, c + j - 1)
          <6>1. c \in Int
            OBVIOUS
          <6> HIDE DEF localStart, localEnd, skipped, inside
          <6> QED
            BY <4>9, <5>2, <6>1, SpanSlice, Zenon
        <5> QED
          BY <4>2, <4>5, <4>6, <5>1, <5>3
      <4>11. out' = out \o Span(p, e)
        BY <4>1, <4>3, <4>4, <4>10
      <4>12. PICK f \in Int : f = Least(b, c - 1)
        BY DEF Least
      <4>13. f = c - 1
        BY <3>3, <4>12 DEF Least
      <4>14. out = Span(a, f)
        BY <1>8, <4>12
      <4>15. CASE a > c - 1
        <5>1. p = a
          BY <4>8, <4>15
        <5>2. out = <<>>
          BY <4>13, <4>14, <4>15, EmptySpan
        <5>3. Span(a, e) \in Seq(Int)
          <6>1. PICK n \in Nat : n = e - a + 1
            BY <1>7, <3>3, <4>7 DEF Least
          <6> QED
            BY <6>1, SpanIsRun DEF IsRun
        <5>4. <<>> \o Span(a, e) = Span(a, e)
          BY <5>3, ConcatEmptySeq
        <5> QED
          BY <4>7, <4>11, <5>1, <5>2, <5>4
      <4>16. CASE ~ (a > c - 1)
        <5>1. p = f + 1 /\ a <= f + 1 /\ f <= e
          BY <1>7, <3>3, <4>7, <4>8, <4>13, <4>16 DEF Least
        <5>2. Span(a, f) \o Span(f + 1, e) = Span(a, e)
          BY <5>1, SpansJoin
        <5> QED
          BY <4>7, <4>11, <4>14, <5>1, <5>2
      <4> QED
        BY <4>15, <4>16
    <3> QED
      BY <3>1, <3>2, <3>3
  <2>6. cursor' > 0
    BY <1>9, <1>14
  <2>7. ReadOK'
    BY <1>4, <1>5, <1>6, <1>9, <2>4, <2>5, <2>6 DEF ReadOK
  <2> QED
    BY <1>10, <1>11, <2>7
<1> QED
  BY <1>13, <1>14

\* Past the last part the cursor is past the range.
LEMMA FinishCopyOK ==
  ASSUME RangeInv, FinishCopy
  PROVE  RangeInv'
<1> USE DEF RangeInv
<1>0. ObjectSize' = ObjectSize /\ Meant' = Meant
  BY SameMeaning DEF FinishCopy
<1>1. next = Len(sizes) + 1
  BY SizesAre, RangeAssumption DEF FinishCopy, InputOK
<1>2. cursor = ObjectSize /\ out = Span(range[1], Least(range[2], cursor - 1))
  BY <1>1 DEF ReadOK, FinishCopy, ObjectSize
<1>3. range \in Nat \X Nat /\ range[2] < ObjectSize /\ ObjectSize \in Nat
  BY SizeIs DEF ResolvedOK, FinishCopy
<1>4. Least(range[2], cursor - 1) = range[2]
  BY <1>2, <1>3 DEF Least
<1>5. out = Wanted
  BY <1>2, <1>3, <1>4, RangeAssumption DEF Wanted
<1>6. Wanted' = Wanted
  BY <1>0 DEF FinishCopy, Wanted
<1>7. InputOK'
  BY DEF FinishCopy, InputOK
<1>8. ResolvedOK'
  BY <1>0, <1>6 DEF FinishCopy, ResolvedOK
<1>9. ReadOK'
  BY <1>5, <1>6 DEF FinishCopy, ReadOK
<1> QED
  BY <1>7, <1>8, <1>9

------------------------------------------------------------------------------
(* The theorems.                                                           *)

\* RangeInv holds in every state of a range read.
THEOREM RangeInvariant == Spec => []RangeInv
<1>1. ASSUME RangeInv, [Next]_vars
      PROVE  RangeInv'
  <2>1. CASE UNCHANGED vars
    <3>1. ObjectSize' = ObjectSize /\ Meant' = Meant
      BY <2>1, SameMeaning DEF vars
    <3> QED
      BY <1>1, <2>1, <3>1 DEF vars, RangeInv, InputOK, ResolvedOK, ReadOK, Wanted
  <2> QED
    BY <1>1, <2>1, ParseGetOK, ParseCopyOK, BufferPartOK, SliceBufferOK, CopyPartOK,
       FinishCopyOK DEF Next
<1> QED
  BY <1>1, InitOK, PTL DEF Spec

\* GetObject, which buffers the object and slices it, and UploadPartCopy, which
\* walks the parts with a cursor, return exactly the bytes that the range header
\* means, however many parts there are and however large they are.
THEOREM RangesAreExact == Spec => []RangeExact
<1>1. RangeInv => RangeExact
  BY DEF RangeInv, ResolvedOK, ReadOK, RangeExact
<1> QED
  BY <1>1, RangeInvariant, PTL

\* The subtraction that wraps around in read_source_range does so for an object
\* whose first part is empty and for no other, and no other slice panics.
THEOREM PanicsAreKnown == Spec => []OnlyEmptyFirstPartPanics
<1>1. RangeInv => OnlyEmptyFirstPartPanics
  BY DEF RangeInv, ReadOK, OnlyEmptyFirstPartPanics
<1> QED
  BY <1>1, RangeInvariant, PTL

==============================================================================
