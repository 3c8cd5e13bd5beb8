------------------------------ MODULE RangeRead ------------------------------
(***************************************************************************)
(* Reading a byte range of an object that is stored as several parts.      *)
(*                                                                         *)
(* GetObject (src/src/s3/object.rs) reads all parts into one buffer and    *)
(* slices it; UploadPartCopy (src/src/s3/copy.rs) walks the parts with a   *)
(* cursor and takes from each what falls into the range.  One step reads   *)
(* one part file, in the order of the part numbers.                        *)
(*                                                                         *)
(* The content is abstract: byte i of the object is the number i, so part  *)
(* n holds the numbers from its offset on.  The cursor arithmetic of the   *)
(* copy is that of a u64 in a release build, which wraps around at Wrap;   *)
(* a debug build panics where a release build wraps.  A slice outside of   *)
(* its buffer panics in both.                                              *)
(***************************************************************************)
EXTENDS Integers, Sequences

CONSTANTS
  Requests,   \* which of "get" and "copy" are sent
  MaxParts,   \* bound: parts of an object
  MaxSize,    \* bound: bytes in a part
  MaxBound,   \* bound: numbers written in a range header
  Wrap,       \* 2^64 of the u64 cursor
  Missing     \* no such bound in the header, or no header at all

ASSUME RangeAssumption ==
  /\ Requests \subseteq {"get", "copy"}
  /\ MaxParts \in Nat \ {0}
  /\ MaxSize \in Nat
  /\ MaxBound \in Nat
  /\ Wrap \in Nat /\ Wrap > MaxParts * MaxSize /\ Wrap > MaxBound
  /\ Missing \notin Nat \cup (Nat \X Nat)

VARIABLES
  sizes,   \* sizes of the object's parts, in the order of the part numbers
  req,     \* the request and the two bounds of its range header
  status,  \* parse, reading, done, refused or panic
  range,   \* the range the header was resolved to, Missing for none
  next,    \* the part to be read next
  cursor,  \* offset of that part in the object (copy)
  out      \* the bytes collected so far

vars == <<sizes, req, status, range, next, cursor, out>>

\* A header is absent, or first-last, first- or -suffix.
Headers ==
  {<<Missing, Missing>>}
    \cup ((0..MaxBound) \X ((0..MaxBound) \cup {Missing}))
    \cup ({Missing} \X (0..MaxBound))

\* Where each part of an object begins, for part sizes s, and last where it ends.
Offsets(s) ==
  LET at[n \in 1..(Len(s) + 1)] == IF n = 1 THEN 0 ELSE at[n - 1] + s[n - 1]
  IN  at

ObjectSize == Offsets(sizes)[Len(sizes) + 1]

\* The bytes from a to b, both included.
Span(a, b) == [i \in 1..(b - a + 1) |-> a + i - 1]

\* What the file of part n holds.
PartBytes(n) == Span(Offsets(sizes)[n], Offsets(sizes)[n] + sizes[n] - 1)

Init ==
  /\ sizes \in UNION {[1..n -> 0..MaxSize] : n \in 1..MaxParts}
  /\ req \in [op : Requests, header : Headers]
  /\ status = "parse"
  /\ range = Missing
  /\ next = 1
  /\ cursor = 0
  /\ out = <<>>

------------------------------------------------------------------------------
(* The range headers.                                                      *)

Least(a, b) == IF a < b THEN a ELSE b

SaturatingSub(a, b) == IF a > b THEN a - b ELSE 0

\* Mutant of ParseRange: the last byte is not clamped to the object.
ParseRangeUnclamped(first, last, size) ==
  LET lastIndex == SaturatingSub(size, 1)
      suffix == first = Missing
      a == IF suffix THEN SaturatingSub(size, last) ELSE first
      b == IF suffix \/ last = Missing THEN lastIndex ELSE last
  IN  IF size = 0 \/ (suffix /\ last = 0) \/ a > lastIndex \/ a > b
      THEN Missing ELSE <<a, b>>

\* parse_range_header for a header that is there: a range that cannot be
\* satisfied counts as none.
ParseRange(first, last, size) ==
  LET lastIndex == SaturatingSub(size, 1)
      suffix == first = Missing
      a == IF suffix THEN SaturatingSub(size, last) ELSE first
      b == IF suffix \/ last = Missing THEN lastIndex ELSE Least(last, lastIndex)
  IN  IF size = 0 \/ (suffix /\ last = 0) \/ a > lastIndex \/ a > b
      THEN Missing ELSE <<a, b>>

\* parse_copy_range for a header that is there: both bounds are needed and must
\* be within the object.
CopyRangeRefused(first, last, size) ==
  \/ size = 0
  \/ first = Missing \/ last = Missing
  \/ first > last
  \/ last >= size

NoHeader == req.header = <<Missing, Missing>>

ParseGet ==
  /\ status = "parse" /\ req.op = "get"
  /\ status' = "reading"
  /\ range' = IF NoHeader THEN Missing
              ELSE ParseRange(req.header[1], req.header[2], ObjectSize)
  /\ UNCHANGED <<sizes, req, next, cursor, out>>

ParseCopy ==
  /\ status = "parse" /\ req.op = "copy"
  /\ LET asked == IF NoHeader THEN <<0, ObjectSize - 1>> ELSE req.header
         refused == IF NoHeader THEN ObjectSize = 0
                    ELSE CopyRangeRefused(req.header[1], req.header[2], ObjectSize)
     IN  /\ status' = IF refused THEN "refused" ELSE "reading"
         /\ range' = IF refused THEN Missing ELSE asked
  /\ UNCHANGED <<sizes, req, next, cursor, out>>

------------------------------------------------------------------------------
(* Reading the parts.                                                      *)

\* get_or_head_object: every part goes to the buffer.
BufferPart ==
  /\ status = "reading" /\ req.op = "get"
  /\ next <= Len(sizes)
  /\ out' = out \o PartBytes(next)
  /\ next' = next + 1
  /\ UNCHANGED <<sizes, req, status, range, cursor>>

\* Then the range is cut out of it.
SliceBuffer ==
  /\ status = "reading" /\ req.op = "get"
  /\ next > Len(sizes)
  /\ IF range = Missing
     THEN status' = "done" /\ out' = out
     ELSE IF range[2] < Len(out)
          THEN status' = "done" /\ out' = SubSeq(out, range[1] + 1, range[2] + 1)
          ELSE status' = "panic" /\ out' = out
  /\ UNCHANGED <<sizes, req, range, next, cursor>>

\* The last byte of the part at the cursor, as the u64 that the code computes.
PartEnd == (cursor + sizes[next] - 1) % Wrap

\* Mutant of LocalEnd: the last byte of the range is left out.
LocalEndShort ==
  IF PartEnd > range[2] THEN range[2] - cursor ELSE sizes[next]

\* How far into the part at the cursor the range goes, exclusive.
LocalEnd ==
  IF PartEnd > range[2] THEN range[2] - cursor + 1 ELSE sizes[next]

\* read_source_range: a part outside of the range is skipped, from the others
\* the overlap is taken.
CopyPart ==
  /\ status = "reading" /\ req.op = "copy"
  /\ next <= Len(sizes)
  /\ LET localStart == SaturatingSub(range[1], cursor)
         skipped == PartEnd < range[1] \/ cursor > range[2]
         inside == localStart <= LocalEnd /\ LocalEnd <= sizes[next]
     IN  /\ status' = IF skipped \/ inside THEN "reading" ELSE "panic"
         /\ out' = IF skipped \/ ~ inside THEN out
                   ELSE out \o SubSeq(PartBytes(next), localStart + 1, LocalEnd)
  /\ cursor' = cursor + sizes[next]
  /\ next' = next + 1
  /\ UNCHANGED <<sizes, req, range>>

FinishCopy ==
  /\ status = "reading" /\ req.op = "copy"
  /\ next > Len(sizes)
  /\ status' = "done"
  /\ UNCHANGED <<sizes, req, range, next, cursor, out>>

Next ==
  \/ ParseGet
  \/ ParseCopy
  \/ BufferPart
  \/ SliceBuffer
  \/ CopyPart
  \/ FinishCopy

Spec == Init /\ [][Next]_vars

------------------------------------------------------------------------------
(* Properties.                                                             *)

\* The positions that a header names and the object has, from the definition of a
\* byte range.
Named ==
  LET first == req.header[1]
      last == req.header[2]
  IN  {i \in 0..(ObjectSize - 1) :
         IF first = Missing THEN i >= ObjectSize - last
         ELSE i >= first /\ (last = Missing \/ i <= last)}

\* The bytes an HTTP client means by its header: those at the positions it names,
\* all of them when there is no header or when it names none.
Meant ==
  IF NoHeader \/ Named = {} THEN Span(0, ObjectSize - 1)
  ELSE Span(CHOOSE i \in Named : \A j \in Named : i <= j,
            CHOOSE i \in Named : \A j \in Named : i >= j)

\* What is read is what was asked for, however the range falls on the parts:
\* GetObject and UploadPartCopy, with their different ways through the parts,
\* both return exactly the bytes of the object that the header means.
RangeExact == status = "done" => out = Meant

\* A slice leaves its buffer in one case only: UploadPartCopy from an object
\* whose first part is empty, where cursor + size - 1 is 0 - 1 and wraps around
\* to the largest u64, so that the empty part seems to overlap every range.
\* Every other request is answered, empty parts elsewhere included.
OnlyEmptyFirstPartPanics ==
  status = "panic" => req.op = "copy" /\ sizes[1] = 0

==============================================================================
