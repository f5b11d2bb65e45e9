--------------------------- MODULE RowCodecProofs ---------------------------
(***************************************************************************)
(* Theorems about RowCodec for every size of a slot, every width of the    *)
(* counts and lengths, and every set of rows.                              *)
(***************************************************************************)
EXTENDS RowCodec, DataProofs

-----------------------------------------------------------------------------
(* Columns and the offsets at which they end *)

\* The columns a slot can hold.
StoredColumns ==
    {c \in Columns : c.len < LenRange /\ (c.type = "string" /\ c.len = 0 => c.val = "empty")}

\* A column has a tag at least; a fixed one has a value behind it.
LEMMA SizeFacts ==
    ASSUME NEW c \in Columns
    PROVE  /\ Size(c) \in Nat /\ Size(c) >= 1
           /\ c.type = "string" => Size(c) = 3 + c.len
           /\ c.type # "string" => /\ c.len = 0 /\ Width[c.type] \in Nat /\ Width[c.type] >= 1
                                   /\ Size(c) = 1 + Width[c.type]
<1>1. c.type \in Types /\ c.len \in Nat /\ (c.type # "string" => c.len = 0)
  BY DEF Columns
<1>2. CASE c.type = "string"
  BY <1>1, <1>2 DEF Size
<1>3. CASE c.type # "string"
  <2>1. Width[c.type] \in Nat /\ Width[c.type] >= 1
    BY <1>1, <1>3 DEF Types, Width
  <2>2. QED
    BY <1>1, <1>3, <2>1 DEF Size
<1>4. QED
  BY <1>2, <1>3

\* What is stored of a column is a column that a slot can hold.
LEMMA StoredFacts ==
    ASSUME NEW c \in Columns
    PROVE  Stored(c) \in StoredColumns
<1> DEFINE kept == c.len % LenRange
<1> DEFINE text == IF c.type = "string" /\ kept = 0 THEN "empty" ELSE c.val
<1>1. kept \in Nat /\ kept < LenRange /\ (c.len = 0 => kept = 0)
  BY RangesAssumption DEF Columns
<1>2. c \in [type : Types, len : Nat, val : Data] /\ (c.type # "string" => c.len = 0)
  BY DEF Columns
<1>3. text \in Data /\ (c.type = "string" /\ kept = 0 => text = "empty")
  <2>1. c.val \in Data /\ "empty" \in Data
    BY <1>2, DataAssumption
  <2>2. QED
    BY <2>1
<1>4. Stored(c) = [c EXCEPT !.len = kept, !.val = text]
  BY DEF Stored
<1> HIDE DEF kept, text
<1>5. Stored(c) = [type |-> c.type, len |-> kept, val |-> text]
  BY <1>2, <1>4
<1> DEFINE d == [type |-> c.type, len |-> kept, val |-> text]
<1>6. /\ d \in [type : Types, len : Nat, val : Data]
      /\ d.type = c.type /\ d.len = kept /\ d.val = text
  BY <1>1, <1>2, <1>3
<1> HIDE DEF d
<1>7. d \in Columns /\ d.len < LenRange /\ (d.type = "string" /\ d.len = 0 => d.val = "empty")
  BY <1>1, <1>2, <1>3, <1>6 DEF Columns
<1>8. QED
  BY <1>5, <1>7 DEF StoredColumns, d

\* Of a column that was stored before, all is stored.
LEMMA StoredAgain ==
    ASSUME NEW c \in StoredColumns
    PROVE  Stored(c) = c
<1>1. c \in [type : Types, len : Nat, val : Data] /\ c.len % LenRange = c.len
  BY RangesAssumption DEF StoredColumns, Columns
<1>2. QED
  BY <1>1 DEF Stored, StoredColumns

\* The equation that defines the ends of the columns of a row.
LEMMA EndsDefined ==
    ASSUME NEW columns \in Seq(Columns)
    PROVE  Ends(columns) = [n \in 0 .. Len(columns) |->
               IF n = 0 THEN 2 ELSE Ends(columns)[n - 1] + Size(columns[n])]
<1> DEFINE IsEnds(f, m) ==
      f = [n \in 0 .. m |-> IF n = 0 THEN 2 ELSE f[n - 1] + Size(columns[n])]
<1> DEFINE S == {m \in Nat : \E f : IsEnds(f, m)}
<1>1. 0 \in S
  <2>1. IsEnds([n \in 0 .. 0 |-> 2], 0)
    OBVIOUS
  <2>2. QED
    BY <2>1
<1>2. ASSUME NEW m \in Nat, m \in S
      PROVE  m + 1 \in S
  <2>1. PICK f : IsEnds(f, m)
    BY <1>2
  <2> DEFINE g == [n \in 0 .. m + 1 |-> IF n = m + 1 THEN f[m] + Size(columns[m + 1]) ELSE f[n]]
  <2>2. ASSUME NEW n \in 0 .. m + 1
        PROVE  g[n] = IF n = 0 THEN 2 ELSE g[n - 1] + Size(columns[n])
    <3>1. CASE n = m + 1
      BY <3>1
    <3>2. CASE n # m + 1
      <4>1. n \in 0 .. m /\ g[n] = f[n]
        BY <3>2
      <4>2. f[n] = IF n = 0 THEN 2 ELSE f[n - 1] + Size(columns[n])
        BY <2>1, <4>1
      <4>3. n # 0 => g[n - 1] = f[n - 1]
        BY <4>1
      <4>4. QED
        BY <4>1, <4>2, <4>3
    <3>3. QED
      BY <3>1, <3>2
  <2> HIDE DEF g
  <2>3. IsEnds(g, m + 1)
    <3>1. g = [n \in 0 .. m + 1 |-> g[n]]
      BY DEF g
    <3>2. QED
      BY <2>2, <3>1
  <2>4. QED
    BY <2>3
<1>3. Len(columns) \in S
  <2> HIDE DEF S
  <2>1. Nat \subseteq S
    BY <1>1, <1>2, Induction
  <2>2. QED
    BY <2>1
<1>4. PICK f : IsEnds(f, Len(columns))
  BY <1>3
<1>5. QED
  BY <1>4 DEF Ends

LEMMA EndsUnfold ==
    ASSUME NEW columns \in Seq(Columns)
    PROVE  /\ Ends(columns)[0] = 2
           /\ \A n \in 1 .. Len(columns) :
                 Ends(columns)[n] = Ends(columns)[n - 1] + Size(columns[n])
<1> DEFINE E == Ends(columns)
<1>1. E = [n \in 0 .. Len(columns) |-> IF n = 0 THEN 2 ELSE E[n - 1] + Size(columns[n])]
  BY EndsDefined
<1> HIDE DEF E
<1>2. E[0] = 2
  BY <1>1
<1>3. ASSUME NEW n \in 1 .. Len(columns)
      PROVE  E[n] = E[n - 1] + Size(columns[n])
  BY <1>1
<1>4. QED
  BY <1>2, <1>3 DEF E

LEMMA EndsType ==
    ASSUME NEW columns \in Seq(Columns), NEW n \in 0 .. Len(columns)
    PROVE  Ends(columns)[n] \in Nat /\ Ends(columns)[n] >= 2
<1> DEFINE E == Ends(columns)
<1> DEFINE S == {k \in Nat : k <= Len(columns) => E[k] \in Nat /\ E[k] >= 2}
<1>1. /\ E[0] = 2
      /\ \A k \in 1 .. Len(columns) : E[k] = E[k - 1] + Size(columns[k])
  BY EndsUnfold
<1> HIDE DEF E
<1>2. 0 \in S
  BY <1>1
<1>3. ASSUME NEW k \in Nat, k \in S
      PROVE  k + 1 \in S
  <2>1. CASE k + 1 <= Len(columns)
    <3>1. k + 1 \in 1 .. Len(columns) /\ columns[k + 1] \in Columns
      BY <2>1
    <3>2. E[k + 1] = E[k] + Size(columns[k + 1]) /\ Size(columns[k + 1]) \in Nat
      BY <1>1, <3>1, SizeFacts
    <3>3. E[k] \in Nat /\ E[k] >= 2
      BY <1>3, <2>1
    <3>4. QED
      BY <3>2, <3>3
  <2>2. QED
    BY <2>1
<1>4. n \in S
  <2> HIDE DEF S
  <2>1. Nat \subseteq S
    BY <1>2, <1>3, Induction
  <2>2. QED
    BY <2>1
<1>5. QED
  BY <1>4 DEF E

\* A column ends behind the one before it.
LEMMA EndsGrow ==
    ASSUME NEW columns \in Seq(Columns),
           NEW i \in 0 .. Len(columns), NEW j \in 0 .. Len(columns), i < j
    PROVE  Ends(columns)[i] < Ends(columns)[j]
<1> DEFINE E == Ends(columns)
<1> DEFINE S == {k \in Nat : i < k /\ k <= Len(columns) => E[i] < E[k]}
<1>1. /\ \A k \in 1 .. Len(columns) : E[k] = E[k - 1] + Size(columns[k])
      /\ \A k \in 0 .. Len(columns) : E[k] \in Nat
  BY EndsUnfold, EndsType
<1> HIDE DEF E
<1>2. 0 \in S
  OBVIOUS
<1>3. ASSUME NEW k \in Nat, k \in S
      PROVE  k + 1 \in S
  <2>1. CASE i < k + 1 /\ k + 1 <= Len(columns)
    <3>1. k + 1 \in 1 .. Len(columns) /\ columns[k + 1] \in Columns /\ (i = k \/ i < k)
      BY <2>1
    <3>2. /\ E[k + 1] = E[k] + Size(columns[k + 1])
          /\ Size(columns[k + 1]) \in Nat /\ Size(columns[k + 1]) >= 1
      <4>1. E[k + 1] = E[k] + Size(columns[k + 1])
        BY <1>1, <3>1
      <4>2. Size(columns[k + 1]) \in Nat /\ Size(columns[k + 1]) >= 1
        BY <3>1, SizeFacts
      <4>3. QED
        BY <4>1, <4>2
    <3>3. E[k] \in Nat /\ E[i] \in Nat /\ E[i] <= E[k]
      <4>1. k \in 0 .. Len(columns) /\ k <= Len(columns)
        BY <2>1
      <4>2. E[k] \in Nat /\ E[i] \in Nat
        BY <1>1, <4>1
      <4>3. i < k => E[i] < E[k]
        BY <1>3, <4>1
      <4>4. QED
        BY <3>1, <4>2, <4>3
    <3>4. E[i] < E[k + 1]
      BY <3>2, <3>3
    <3>5. QED
      BY <3>4
  <2>2. QED
    BY <2>1
<1>4. j \in S
  <2> HIDE DEF S
  <2>1. Nat \subseteq S
    BY <1>2, <1>3, Induction
  <2>2. QED
    BY <2>1
<1>5. QED
  BY <1>4 DEF E

\* Rows that start with the same columns end them at the same offsets.
LEMMA EndsPrefix ==
    ASSUME NEW a \in Seq(Columns), NEW b \in Seq(Columns),
           NEW m \in Nat, m <= Len(a), m <= Len(b),
           \A i \in 1 .. m : a[i] = b[i]
    PROVE  Ends(a)[m] = Ends(b)[m]
<1> DEFINE EA == Ends(a)
<1> DEFINE EB == Ends(b)
<1> DEFINE S == {k \in Nat : k <= m => EA[k] = EB[k]}
<1>1. /\ EA[0] = 2 /\ \A k \in 1 .. Len(a) : EA[k] = EA[k - 1] + Size(a[k])
      /\ EB[0] = 2 /\ \A k \in 1 .. Len(b) : EB[k] = EB[k - 1] + Size(b[k])
  BY EndsUnfold
<1> HIDE DEF EA, EB
<1>2. 0 \in S
  BY <1>1
<1>3. ASSUME NEW k \in Nat, k \in S
      PROVE  k + 1 \in S
  <2>1. CASE k + 1 <= m
    <3>1. k + 1 \in 1 .. Len(a) /\ k + 1 \in 1 .. Len(b) /\ k + 1 \in 1 .. m
      BY <2>1
    <3>2. EA[k] = EB[k] /\ a[k + 1] = b[k + 1]
      BY <1>3, <2>1, <3>1
    <3>3. EA[k + 1] = EB[k + 1]
      BY <1>1, <3>1, <3>2
    <3>4. QED
      BY <3>3
  <2>2. QED
    BY <2>1
<1>4. m \in S
  <2> HIDE DEF S
  <2>1. Nat \subseteq S
    BY <1>2, <1>3, Induction
  <2>2. QED
    BY <2>1
<1>5. QED
  BY <1>4 DEF EA, EB

\* The columns of a row, each behind the one before it.
LEMMA Layout ==
    ASSUME NEW columns \in Seq(StoredColumns)
    PROVE  /\ columns \in Seq(Columns)
           /\ Ends(columns)[0] = 2
           /\ \A n \in 0 .. Len(columns) : Ends(columns)[n] \in Nat /\ Ends(columns)[n] >= 2
           /\ \A n \in 1 .. Len(columns) :
                 /\ columns[n] \in StoredColumns
                 /\ Size(columns[n]) \in Nat /\ Size(columns[n]) >= 1
                 /\ Ends(columns)[n] = Ends(columns)[n - 1] + Size(columns[n])
           /\ \A i, j \in 0 .. Len(columns) : i < j => Ends(columns)[i] < Ends(columns)[j]
<1>1. columns \in Seq(Columns)
  BY DEF StoredColumns
<1>2. \A n \in 1 .. Len(columns) :
         /\ columns[n] \in StoredColumns
         /\ Size(columns[n]) \in Nat /\ Size(columns[n]) >= 1
  BY SizeFacts DEF StoredColumns
<1>3. QED
  BY <1>1, <1>2, EndsUnfold, EndsType, EndsGrow

-----------------------------------------------------------------------------
(* The inductive invariant *)

\* Column n of the row last inserted is in the bytes of a slot, in its place.
Placed(bytes, n) ==
    \A o \in End(n - 1) .. End(n) - 1 :
        bytes[o] = <<written.columns[n], o - End(n - 1) + 1>>

\* What stands in a file or a buffer: bytes of columns, and the other bytes.
Specials == {Special(name, n) : name \in {"zero", "absent", "valid", "count"},
                                n \in 0 .. ByteRange - 1}
Bytes    == (StoredColumns \X (Nat \ {0})) \cup Specials

\* Slots and buffers hold bytes; a slot with a row was written at least once.
BytesSound ==
    /\ slot \in [Offsets -> Bytes] /\ buffer \in [Offsets -> Bytes]
    /\ slot[0] \in {Special("valid", 0), Zero, Absent}
    /\ slot[1] = Absent \/ \E n \in 0 .. ByteRange - 1 : slot[1] = Special("count", n)
    /\ ~NoRow => reached >= 1

\* Rows consist of columns as they are stored.
RowsSound ==
    /\ written.columns \in Seq(StoredColumns)
    /\ written.count \in 0 .. ByteRange - 1
    /\ written.from \in {"client", "whole", "torn"}
    /\ phase \in {"decode", "read"} => values \in Seq(StoredColumns)

\* The columns encoded so far are in the buffer, one behind the other, and the
\* slot is free.
Encoding ==
    phase = "encode" =>
        /\ NoRow
        /\ count = written.count
        /\ values \in Seq(Columns) /\ Len(values) = Len(written.columns)
        /\ \A n \in 1 .. Len(values) : Stored(values[n]) = written.columns[n]
        /\ col - 1 <= Len(values) /\ at = End(col - 1)
        /\ buffer[0] = Special("valid", 0) /\ buffer[1] = Special("count", count)
        /\ \A n \in 1 .. col - 1 : Placed(buffer, n)

\* After an insert the slot has the columns that reached the file, and the row
\* was encoded to its end or to the end of the slot.
Held ==
    phase \notin {"encode", "badInsert"} =>
        /\ reached >= 2 => slot[1] = Special("count", written.count)
        /\ \A n \in 1 .. Kept : End(n) <= reached => Placed(slot, n)
        /\ \E n \in 0 .. Kept : End(n) <= SlotSize /\ (n = written.count \/ End(n) = SlotSize)

\* A client's row has the columns it counts; one read from a whole slot fits,
\* and lacks columns only when it fills the slot.
Origin ==
    /\ written.from = "client" => written.count <= Len(written.columns)
    /\ written.from = "whole" =>
          /\ End(Kept) <= SlotSize
          /\ Len(written.columns) < written.count => End(Len(written.columns)) = SlotSize

\* A read is at the end of the columns it has read as long as they had reached
\* the file, and in a slot that was written whole it always is.
Decoding ==
    phase \in {"decode", "read"} /\ reached >= 2 =>
        /\ count = written.count
        /\ \A n \in 1 .. Kept : n < col /\ End(n) <= reached =>
              n <= Len(values) /\ values[n] = written.columns[n]
        /\ col - 1 <= Kept => (End(col - 1) <= reached => Len(values) = col - 1 /\ at = End(col - 1))
        /\ reached = SlotSize => col - 1 <= Kept /\ End(col - 1) <= SlotSize

\* A slot that is read has a row; a row is returned when its columns are read or
\* the slot ends.
Reading ==
    /\ phase = "decode" => ~NoRow
    /\ phase = "read" => col > count \/ at = SlotSize
    /\ phase = "badRead" => reached < SlotSize

IInv ==
    /\ TypeOK /\ BytesSound /\ RowsSound /\ Encoding /\ Held
    /\ Origin /\ Decoding /\ Reading /\ StoredUnlessTooLarge

LEMMA InitInvariant == Init => IInv
<1> SUFFICES ASSUME Init
             PROVE  IInv
  OBVIOUS
<1>1. written.columns = <<>> /\ written.count = 0 /\ written.from = "client" /\ Kept = 0
  BY DEF Init, Kept
<1>2. <<>> \in Seq(StoredColumns) /\ <<>> \in Seq(Columns) /\ Len(<<>>) = 0
  OBVIOUS
<1>3. End(0) = 2
  BY <1>1, <1>2, Layout DEF End
<1>4. Special("zero", 0) \in Bytes /\ Special("absent", 0) \in Bytes
  BY RangesAssumption DEF Bytes, Specials
<1>5. BytesSound
  BY <1>4, SlotSizeAssumption DEF Init, BytesSound, Blank, Zero, Absent, NoRow, Offsets
<1>6. TypeOK
  BY SlotSizeAssumption, RangesAssumption DEF Init, TypeOK, Resting, Blank
<1>7. RowsSound
  BY <1>1, <1>2, RangesAssumption DEF Init, RowsSound
<1>8. Held
  BY <1>1, <1>3, SlotSizeAssumption DEF Init, Held
<1>9. QED
  BY <1>1, <1>5, <1>6, <1>7, <1>8
     DEF Init, IInv, Encoding, Origin, Decoding, Reading, StoredUnlessTooLarge

-----------------------------------------------------------------------------
(* The steps preserve it *)

LEMMA KeptFacts ==
    ASSUME RowsSound
    PROVE  /\ Kept \in Nat /\ Kept <= Len(written.columns) /\ Kept <= written.count
           /\ Kept = written.count \/ Kept = Len(written.columns)
           /\ Len(written.columns) \in Nat /\ written.count \in Nat
<1>1. Len(written.columns) \in Nat /\ written.count \in Nat
  BY RangesAssumption DEF RowsSound
<1>2. QED
  BY <1>1 DEF Kept

\* The layout of the row last inserted.
LEMMA RowLayout ==
    ASSUME RowsSound
    PROVE  /\ End(0) = 2
           /\ \A n \in 0 .. Len(written.columns) : End(n) \in Nat /\ End(n) >= 2
           /\ \A n \in 1 .. Len(written.columns) :
                 /\ written.columns[n] \in StoredColumns
                 /\ Size(written.columns[n]) \in Nat /\ Size(written.columns[n]) >= 1
                 /\ End(n) = End(n - 1) + Size(written.columns[n])
           /\ \A i, j \in 0 .. Len(written.columns) : i < j => End(i) < End(j)
BY Layout DEF RowsSound, End

LEMMA EndOrder ==
    ASSUME RowsSound, NEW i \in 0 .. Len(written.columns), NEW j \in 0 .. Len(written.columns)
    PROVE  /\ End(i) \in Nat /\ End(j) \in Nat
           /\ i < j => End(i) < End(j)
           /\ i <= j => End(i) <= End(j)
           /\ End(j) <= End(i) => j <= i
<1>1. End(i) \in Nat /\ End(j) \in Nat /\ (i < j => End(i) < End(j))
  BY RowLayout
<1>2. i <= j => i < j \/ End(i) = End(j)
  OBVIOUS
<1>3. QED
  BY <1>1, <1>2

\* A column's place is behind the marker and numCols.
LEMMA PlaceRange ==
    ASSUME RowsSound, NEW n \in 1 .. Len(written.columns), NEW o \in End(n - 1) .. End(n) - 1
    PROVE  o \in Nat /\ o >= 2 /\ o < End(n) /\ End(n) \in Nat
<1>1. n - 1 \in 0 .. Len(written.columns) /\ n \in 0 .. Len(written.columns)
  OBVIOUS
<1>2. End(n - 1) \in Nat /\ End(n - 1) >= 2 /\ End(n) \in Nat
  BY <1>1, RowLayout
<1>3. QED
  BY <1>2

\* Bytes that a place shares between two contents keep the column there.
LEMMA PlacedKept ==
    ASSUME RowsSound, NEW n \in 1 .. Len(written.columns),
           NEW old, NEW new, Placed(old, n),
           \A o \in Nat : o >= 2 /\ o < End(n) => new[o] = old[o]
    PROVE  Placed(new, n)
BY PlaceRange DEF Placed

LEMMA DeleteRowInvariant ==
    ASSUME IInv, DeleteRow
    PROVE  IInv'
<1>1. /\ slot' = [slot EXCEPT ![0] = Zero]
      /\ UNCHANGED <<buffer, count, values, col, at, phase, written, reached, inserts>>
      /\ phase \in Resting
  BY DEF DeleteRow
<1>2. /\ slot \in [Offsets -> Bytes] /\ 0 \in Offsets /\ 1 \in Offsets
      /\ Zero \in Bytes
  BY SlotSizeAssumption, RangesAssumption
     DEF IInv, BytesSound, Offsets, Bytes, Specials, Zero
<1>3. /\ slot' \in [Offsets -> Bytes] /\ slot'[0] = Zero
      /\ \A o \in Offsets : o # 0 => slot'[o] = slot[o]
  BY <1>1, <1>2
<1>4. BytesSound'
  BY <1>1, <1>2, <1>3 DEF IInv, BytesSound, NoRow
<1>5. TypeOK'
  BY <1>1, <1>3 DEF IInv, TypeOK
<1>6. Held'
  <2>1. ASSUME NEW n \in 1 .. Kept, End(n) <= reached
        PROVE  Placed(slot', n)
    <3>1. Placed(slot, n) /\ n \in 1 .. Len(written.columns) /\ RowsSound
      BY <1>1, <2>1, KeptFacts DEF IInv, Held, Resting
    <3>2. End(n) \in Nat /\ reached \in 0 .. SlotSize
      BY <3>1, RowLayout DEF IInv, TypeOK
    <3>3. \A o \in Nat : o >= 2 /\ o < End(n) => slot'[o] = slot[o]
      BY <1>3, <2>1, <3>2, SlotSizeAssumption DEF Offsets
    <3>4. QED
      BY <3>1, <3>3, PlacedKept
  <2>2. slot'[1] = slot[1]
    BY <1>2, <1>3
  <2>3. QED
    BY <1>1, <2>1, <2>2 DEF IInv, Held, Placed, End, Kept
<1>7. QED
  BY <1>1, <1>4, <1>5, <1>6
     DEF IInv, Resting, RowsSound, Encoding, Origin, Decoding, Reading, StoredUnlessTooLarge,
         End, Kept

LEMMA WriteSlotInvariant ==
    ASSUME IInv, NEW n \in 0 .. SlotSize, WriteSlot(n)
    PROVE  IInv'
<1>1. /\ phase = "encode" /\ (col > count \/ at >= SlotSize)
      /\ slot' = [o \in Offsets |-> IF o < n THEN buffer[o] ELSE slot[o]]
      /\ reached' = n /\ phase' = "idle" /\ buffer' = Blank
      /\ UNCHANGED <<count, values, col, at, written, inserts>>
  <2>1. /\ phase = "encode" /\ ~EncodeMore
        /\ slot' = [o \in Offsets |-> IF o < n THEN buffer[o] ELSE slot[o]]
        /\ reached' = n /\ phase' = "idle" /\ buffer' = Blank
        /\ UNCHANGED <<count, values, col, at, written, inserts>>
    BY DEF WriteSlot
  <2>2. count \in Nat /\ col \in Nat /\ at \in Nat /\ SlotSize \in Nat
    BY SlotSizeAssumption, RangesAssumption DEF IInv, TypeOK
  <2>3. QED
    BY <2>1, <2>2 DEF EncodeMore
<1>2. /\ slot \in [Offsets -> Bytes] /\ buffer \in [Offsets -> Bytes]
      /\ 0 \in Offsets /\ 1 \in Offsets /\ Zero \in Bytes
  BY SlotSizeAssumption, RangesAssumption
     DEF IInv, BytesSound, Offsets, Bytes, Specials, Zero
<1>3. /\ NoRow /\ count = written.count /\ Len(values) = Len(written.columns)
      /\ col - 1 <= Len(values) /\ at = End(col - 1)
      /\ buffer[0] = Special("valid", 0) /\ buffer[1] = Special("count", count)
      /\ \A m \in 1 .. col - 1 : Placed(buffer, m)
      /\ RowsSound
      /\ count \in 0 .. ByteRange - 1 /\ col \in 1 .. count + 1 /\ at \in 2 .. SlotSize
  BY <1>1 DEF IInv, Encoding, TypeOK
<1>4. BytesSound'
  <2>1. slot' \in [Offsets -> Bytes] /\ buffer' \in [Offsets -> Bytes]
    BY <1>1, <1>2 DEF Blank
  <2>2. /\ slot'[0] = IF 0 < n THEN buffer[0] ELSE slot[0]
        /\ slot'[1] = IF 1 < n THEN buffer[1] ELSE slot[1]
    BY <1>1, <1>2
  <2>3. n = 0 => slot'[0] = slot[0]
    BY <2>2
  <2>4. n # 0 => slot'[0] = Special("valid", 0) /\ n >= 1
    BY <1>3, <2>2
  <2>5. slot'[1] = slot[1] \/ slot'[1] = Special("count", count)
    BY <1>3, <2>2
  <2>6. slot'[1] = Absent \/ \E m \in 0 .. ByteRange - 1 : slot'[1] = Special("count", m)
    BY <1>3, <2>5 DEF IInv, BytesSound
  <2>7. /\ slot'[0] \in {Special("valid", 0), Zero, Absent}
        /\ ~NoRow' => n >= 1
    BY <1>3, <2>3, <2>4 DEF NoRow
  <2>8. QED
    BY <1>1, <2>1, <2>6, <2>7 DEF BytesSound
<1>5. TypeOK'
  BY <1>1, <1>4 DEF IInv, TypeOK, Resting, BytesSound
<1>6. \E m \in 0 .. Kept : End(m) <= SlotSize /\ (m = written.count \/ End(m) = SlotSize)
  <2>1. /\ col - 1 \in 0 .. Kept
        /\ col - 1 = written.count \/ at = SlotSize
    BY <1>1, <1>3, KeptFacts, SlotSizeAssumption
  <2>2. End(col - 1) = at /\ at <= SlotSize
    BY <1>3, SlotSizeAssumption
  <2>3. QED
    BY <2>1, <2>2
<1>7. ASSUME NEW m \in 1 .. Kept, End(m) <= n
      PROVE  Placed(slot', m)
  <2>1. m \in 1 .. Len(written.columns) /\ m <= count
    BY <1>3, KeptFacts
  <2>2. End(m) \in Nat /\ n <= SlotSize
    BY <1>3, <2>1, RowLayout
  <2>3. m \in 1 .. col - 1
    <3>1. CASE col > count
      BY <1>3, <2>1, <3>1, RangesAssumption
    <3>2. CASE at >= SlotSize
      <4>1. col - 1 \in 0 .. Len(written.columns)
        BY <1>3
      <4>2. End(m) <= End(col - 1)
        BY <1>3, <1>7, <2>2, <3>2, SlotSizeAssumption
      <4>3. m <= col - 1
        BY <1>3, <2>1, <4>1, <4>2, EndOrder
      <4>4. QED
        BY <2>1, <4>1, <4>3
    <3>3. QED
      BY <1>1, <3>1, <3>2
  <2>4. \A o \in Nat : o >= 2 /\ o < End(m) => slot'[o] = buffer[o]
    BY <1>1, <1>7, <2>2, SlotSizeAssumption DEF Offsets
  <2>5. QED
    BY <1>3, <2>1, <2>3, <2>4, PlacedKept
<1>8. Held'
  <2>1. n >= 2 => slot'[1] = Special("count", written.count)
    BY <1>1, <1>2, <1>3
  <2>2. QED
    BY <1>1, <1>6, <1>7, <2>1 DEF Held, Placed, End, Kept
<1>9. QED
  BY <1>1, <1>3, <1>4, <1>5, <1>8
     DEF IInv, Resting, RowsSound, Encoding, Origin, Decoding, Reading, StoredUnlessTooLarge,
         End, Kept

\* An insert starts from any values, as long as what it says of them holds.
LEMMA BeginInvariant ==
    ASSUME IInv, NEW n \in 0 .. ByteRange - 1, NEW vs \in Seq(Columns),
           NEW from \in {"client", "whole", "torn"},
           Begin(n, vs, from), Origin'
    PROVE  IInv'
<1> DEFINE columns == [i \in DOMAIN vs |-> Stored(vs[i])]
<1>1. /\ phase' = "encode" /\ count' = n /\ values' = vs /\ col' = 1 /\ at' = 2
      /\ buffer' = [Blank EXCEPT ![0] = Special("valid", 0), ![1] = Special("count", n)]
      /\ written' = [count |-> n, columns |-> columns, from |-> from]
      /\ slot' = slot /\ reached' = reached /\ NoRow
  BY DEF Begin
<1>2. /\ columns \in Seq(StoredColumns) /\ Len(columns) = Len(vs)
      /\ \A i \in 1 .. Len(vs) : columns[i] = Stored(vs[i])
  <2>1. \A i \in 1 .. Len(vs) : vs[i] \in Columns /\ Stored(vs[i]) \in StoredColumns
    BY StoredFacts
  <2>2. columns = [i \in 1 .. Len(vs) |-> Stored(vs[i])] /\ Len(vs) \in Nat
    OBVIOUS
  <2> HIDE DEF columns
  <2>3. QED
    BY <2>1, <2>2
<1> HIDE DEF columns
<1>3. written'.columns = columns /\ written'.count = n /\ written'.from = from
  BY <1>1
<1>4. End(0)' = 2
  BY <1>2, <1>3, Layout DEF End
<1>5. /\ {Zero, Special("valid", 0), Special("count", n)} \subseteq Bytes
      /\ 0 \in Offsets /\ 1 \in Offsets
  BY SlotSizeAssumption, RangesAssumption DEF Offsets, Bytes, Specials, Zero
<1>6. /\ buffer' \in [Offsets -> Bytes]
      /\ buffer'[0] = Special("valid", 0) /\ buffer'[1] = Special("count", n)
  BY <1>1, <1>5 DEF Blank
<1>7. BytesSound'
  BY <1>1, <1>6 DEF IInv, BytesSound, NoRow
<1>8. TypeOK'
  BY <1>1, <1>7, SlotSizeAssumption, RangesAssumption DEF IInv, TypeOK, BytesSound
<1>9. RowsSound'
  BY <1>1, <1>2, <1>3 DEF RowsSound
<1>10. Encoding'
  <2>1. NoRow'
    BY <1>1 DEF NoRow
  <2>2. col' - 1 = 0 /\ 0 <= Len(values')
    BY <1>1
  <2>3. \A i \in 1 .. Len(values') : Stored(values'[i]) = written'.columns[i]
    BY <1>1, <1>2, <1>3
  <2>4. QED
    BY <1>1, <1>2, <1>3, <1>4, <1>6, <2>1, <2>2, <2>3 DEF Encoding
<1>11. QED
  BY <1>1, <1>7, <1>8, <1>9, <1>10
     DEF IInv, Held, Decoding, Reading, StoredUnlessTooLarge

LEMMA InsertRowInvariant ==
    ASSUME IInv, NEW row \in Rows, InsertRow(row)
    PROVE  IInv'
<1> DEFINE n == Len(row) % ByteRange
<1>1. row \in Seq(Columns) /\ Len(row) \in Nat
  BY RowsAssumption
<1>2. n \in 0 .. ByteRange - 1 /\ n <= Len(row)
  BY <1>1, RangesAssumption
<1>3. Begin(n, row, "client")
  BY DEF InsertRow
<1>4. written'.from = "client" /\ written'.count = n /\ Len(written'.columns) = Len(row)
  BY <1>1, <1>3 DEF Begin
<1> HIDE DEF n
<1>5. Origin'
  BY <1>2, <1>4 DEF Origin
<1>6. QED
  BY <1>1, <1>2, <1>3, <1>5, BeginInvariant

\* What a read took from a slot that was written whole.
LEMMA ReadWhole ==
    ASSUME IInv, phase = "read", reached = SlotSize
    PROVE  /\ count = written.count /\ Len(values) = col - 1 /\ col - 1 <= Kept
           /\ at = End(col - 1)
           /\ \A n \in 1 .. col - 1 : values[n] = written.columns[n]
<1>1. /\ count = written.count /\ col - 1 <= Kept /\ End(col - 1) <= SlotSize
      /\ Len(values) = col - 1 /\ at = End(col - 1)
      /\ RowsSound
  BY SlotSizeAssumption DEF IInv, Decoding
<1>2. ASSUME NEW n \in 1 .. col - 1
      PROVE  values[n] = written.columns[n]
  <2>1. /\ n \in 0 .. Len(written.columns) /\ col - 1 \in 0 .. Len(written.columns)
        /\ n \in 1 .. Kept /\ n < col
    BY <1>1, KeptFacts, RangesAssumption DEF IInv, TypeOK
  <2>2. End(n) <= SlotSize
    BY <1>1, <2>1, EndOrder, SlotSizeAssumption
  <2>3. QED
    BY <2>1, <2>2, SlotSizeAssumption DEF IInv, Decoding
<1>3. QED
  BY <1>1, <1>2

LEMMA CopyRowInvariant ==
    ASSUME IInv, CopyRow
    PROVE  IInv'
<1> DEFINE whole == reached = SlotSize /\ written.from # "torn"
<1> DEFINE from == IF whole THEN "whole" ELSE "torn"
<1>1. phase = "read" /\ Begin(count, values, from)
  BY DEF CopyRow
<1>2. values \in Seq(StoredColumns) /\ values \in Seq(Columns) /\ count \in 0 .. ByteRange - 1
  BY <1>1 DEF IInv, RowsSound, TypeOK, StoredColumns
<1>3. /\ written'.from = from /\ written'.count = count
      /\ written'.columns = [i \in DOMAIN values |-> Stored(values[i])]
  BY <1>1 DEF Begin
<1>4. written'.columns = values
  <2>1. \A i \in 1 .. Len(values) : Stored(values[i]) = values[i]
    BY <1>2, StoredAgain
  <2>2. DOMAIN values = 1 .. Len(values) /\ values = [i \in 1 .. Len(values) |-> values[i]]
    BY <1>2
  <2>3. QED
    BY <1>3, <2>1, <2>2
<1>5. Origin'
  <2>1. CASE whole
    <3>1. /\ count = written.count /\ Len(values) = col - 1 /\ col - 1 <= Kept
          /\ at = End(col - 1)
          /\ \A n \in 1 .. col - 1 : values[n] = written.columns[n]
      BY <1>1, <2>1, ReadWhole
    <3>2. /\ written.columns \in Seq(Columns) /\ RowsSound
          /\ at <= SlotSize /\ col \in Nat /\ col - 1 \in Nat
          /\ count \in Nat /\ (col > count \/ at = SlotSize)
      BY <1>1, Layout, SlotSizeAssumption, RangesAssumption
         DEF IInv, RowsSound, TypeOK, Reading
    <3>3. Ends(values)[col - 1] = End(col - 1)
      <4>1. col - 1 <= Len(values) /\ col - 1 <= Len(written.columns)
        BY <3>1, <3>2, KeptFacts
      <4>2. Ends(values)[col - 1] = Ends(written.columns)[col - 1]
        BY ONLY <1>2, <3>1, <3>2, <4>1, EndsPrefix
      <4>3. QED
        BY <4>2 DEF End
    <3>4. Kept' = col - 1
      BY <1>3, <1>4, <3>1, <3>2, KeptFacts DEF Kept
    <3>5. End(Kept)' = at /\ End(Len(written.columns))' = at
      BY <1>4, <3>1, <3>3, <3>4 DEF End
    <3>6. Len(written'.columns) < written'.count => at = SlotSize
      BY <1>3, <1>4, <3>1, <3>2
    <3>7. QED
      BY <1>3, <2>1, <3>2, <3>5, <3>6 DEF Origin
  <2>2. CASE ~whole
    BY <1>3, <2>2 DEF Origin
  <2>3. QED
    BY <2>1, <2>2
<1>6. QED
  BY <1>1, <1>2, <1>5, BeginInvariant

LEMMA EncodeColumnInvariant ==
    ASSUME IInv, EncodeColumn
    PROVE  IInv'
<1> DEFINE m == col - 1
<1>1. /\ phase = "encode" /\ col <= count /\ at < SlotSize
      /\ RowsSound /\ NoRow /\ count = written.count
      /\ values \in Seq(Columns) /\ Len(values) = Len(written.columns)
      /\ \A n \in 1 .. Len(values) : Stored(values[n]) = written.columns[n]
      /\ m <= Len(values) /\ at = End(m)
      /\ buffer[0] = Special("valid", 0) /\ buffer[1] = Special("count", count)
      /\ \A n \in 1 .. m : Placed(buffer, n)
  BY DEF EncodeColumn, EncodeMore, IInv, Encoding
<1>2. /\ count \in 0 .. ByteRange - 1 /\ col \in 1 .. count + 1 /\ at \in 2 .. SlotSize
      /\ col \in Nat /\ count \in Nat /\ at \in Nat /\ SlotSize \in Nat
      /\ m \in 0 .. Len(written.columns)
      /\ buffer \in [Offsets -> Bytes]
  BY <1>1, SlotSizeAssumption, RangesAssumption DEF IInv, TypeOK, BytesSound
<1>3. CASE col > Len(values) \/ at + Size(Stored(values[col])) > SlotSize
  <2>1. /\ phase' = "badInsert"
        /\ UNCHANGED <<slot, buffer, count, values, col, at, written, reached, inserts>>
    <3>1. Overrun
      BY <1>3 DEF EncodeColumn
    <3>2. QED
      BY <1>1, <3>1 DEF Overrun
  <2>2. ASSUME written.from = "client"
        PROVE  End(Kept) > SlotSize
    <3>1. col \in 1 .. Len(values) /\ col \in 1 .. Len(written.columns)
      BY <1>1, <1>2, <2>2 DEF IInv, Origin
    <3>2. End(col) > SlotSize
      <4>1. End(col) = at + Size(written.columns[col])
        BY <1>1, <3>1, RowLayout
      <4>2. QED
        BY <1>1, <1>3, <3>1, <4>1
    <3>3. Kept \in 0 .. Len(written.columns) /\ col <= Kept /\ col \in 0 .. Len(written.columns)
      BY <1>1, <1>2, <3>1, KeptFacts
    <3>4. End(Kept) > SlotSize
      BY <1>1, <1>2, <3>2, <3>3, EndOrder
    <3>5. QED
      BY <3>4
  <2>3. written.from # "whole"
    <3> SUFFICES ASSUME written.from = "whole"
                 PROVE  FALSE
      OBVIOUS
    <3>1. End(Kept) <= SlotSize /\ Kept \in 0 .. Len(written.columns)
      BY <1>1, KeptFacts DEF IInv, Origin
    <3>2. CASE col > Len(values)
      <4>1. m = Len(written.columns) /\ Len(written.columns) < written.count
        BY <1>1, <1>2, <3>2
      <4>2. End(Len(written.columns)) = SlotSize
        BY <4>1 DEF IInv, Origin
      <4>3. QED
        BY <1>1, <1>2, <4>1, <4>2
    <3>3. CASE ~(col > Len(values))
      <4>1. col \in 1 .. Len(values) /\ col \in 1 .. Len(written.columns)
        BY <1>1, <1>2, <3>3
      <4>2. End(col) = at + Size(written.columns[col])
        BY <1>1, <4>1, RowLayout
      <4>3. End(col) > SlotSize
        BY <1>1, <1>3, <3>3, <4>1, <4>2
      <4>4. col <= Kept /\ col \in 0 .. Len(written.columns)
        BY <1>1, <1>2, <4>1, KeptFacts
      <4>5. QED
        BY <1>1, <1>2, <3>1, <4>3, <4>4, EndOrder
    <3>4. QED
      BY <3>2, <3>3
  <2>4. StoredUnlessTooLarge'
    <3>1. written.from = "torn" \/ (written.from = "client" /\ End(Kept) > SlotSize)
      BY <1>1, <2>2, <2>3 DEF RowsSound
    <3>2. QED
      BY <2>1, <3>1 DEF StoredUnlessTooLarge, End, Kept
  <2>5. QED
    BY <1>1, <2>1, <2>4
       DEF IInv, TypeOK, BytesSound, NoRow, RowsSound, Encoding, Held, Origin, Decoding,
           Reading, End, Kept
<1>4. CASE ~(col > Len(values) \/ at + Size(Stored(values[col])) > SlotSize)
  <2> DEFINE c == Stored(values[col])
  <2>1. /\ ~(col > Len(values)) /\ ~(at + Size(c) > SlotSize)
        /\ buffer' = [o \in Offsets |->
               IF o \in at .. at + Size(c) - 1 THEN <<c, o - at + 1>> ELSE buffer[o]]
        /\ at' = at + Size(c) /\ col' = col + 1
        /\ UNCHANGED <<slot, count, values, phase, written, reached, inserts>>
    BY <1>4 DEF EncodeColumn
  <2>2. col \in 1 .. Len(values) /\ col \in 1 .. Len(written.columns)
    BY <1>1, <1>2, <2>1
  <2>3. c = written.columns[col]
    BY <1>1, <2>2
  <2>4. /\ c \in StoredColumns /\ Size(c) \in Nat /\ Size(c) >= 1
        /\ End(col) = at + Size(c)
    BY <1>1, <2>2, <2>3, RowLayout
  <2> HIDE DEF c
  <2>5. at' \in 2 .. SlotSize /\ at' = End(col)
    BY <1>2, <2>1, <2>4
  <2>6. buffer' \in [Offsets -> Bytes]
    <3>1. ASSUME NEW o \in at .. at + Size(c) - 1
          PROVE  <<c, o - at + 1>> \in Bytes
      <4>1. o - at + 1 \in Nat \ {0}
        BY <1>2, <2>4
      <4>2. QED
        BY <2>4, <4>1 DEF Bytes
    <3>2. QED
      BY <1>2, <2>1, <3>1
  <2>7. \A o \in Nat : o < at => buffer'[o] = buffer[o]
    BY <1>2, <2>1 DEF Offsets
  <2>8. buffer'[0] = Special("valid", 0) /\ buffer'[1] = Special("count", count)
    BY <1>1, <1>2, <2>7
  <2>9. ASSUME NEW n \in 1 .. col
        PROVE  Placed(buffer', n)
    <3>1. CASE n = col
      <4>1. at .. at + Size(c) - 1 \subseteq Offsets
        BY <1>2, <2>1, <2>4 DEF Offsets
      <4>2. \A o \in at .. at + Size(c) - 1 : buffer'[o] = <<c, o - at + 1>>
        BY <2>1, <4>1
      <4>3. at = End(n - 1) /\ at + Size(c) = End(n) /\ c = written.columns[n]
        BY <1>1, <2>3, <2>4, <3>1
      <4>4. ASSUME NEW o \in End(n - 1) .. End(n) - 1
            PROVE  buffer'[o] = <<written.columns[n], o - End(n - 1) + 1>>
        <5>1. o \in at .. at + Size(c) - 1
          BY <1>2, <2>4, <4>3
        <5>2. QED
          BY <4>2, <4>3, <5>1
      <4>5. QED
        BY <4>4 DEF Placed
    <3>2. CASE n # col
      <4>1. n \in 1 .. m /\ n \in 1 .. Len(written.columns) /\ n \in 0 .. Len(written.columns)
        BY <1>2, <2>2, <3>2
      <4>2. End(n) <= at /\ End(n) \in Nat
        BY <1>1, <1>2, <4>1, EndOrder
      <4>3. \A o \in Nat : o >= 2 /\ o < End(n) => buffer'[o] = buffer[o]
        BY <1>2, <2>7, <4>2
      <4>4. QED
        BY <1>1, <4>1, <4>3, PlacedKept
    <3>3. QED
      BY <3>1, <3>2
  <2>10. TypeOK'
    <3>1. col' \in 1 .. count' + 1
      BY <1>1, <1>2, <2>1
    <3>2. QED
      BY <1>1, <2>1, <2>5, <2>6, <3>1 DEF IInv, TypeOK
  <2>11. BytesSound'
    BY <2>1, <2>6 DEF IInv, BytesSound, NoRow
  <2>12. Encoding'
    <3>1. col' - 1 = col /\ col <= Len(values)
      BY <1>2, <2>1, <2>2
    <3>2. UNCHANGED <<written, values, count>> /\ NoRow'
      BY <1>1, <2>1 DEF NoRow
    <3>3. /\ count = written.count
          /\ values \in Seq(Columns) /\ Len(values) = Len(written.columns)
          /\ \A n \in 1 .. Len(values) : Stored(values[n]) = written.columns[n]
      BY <1>1
    <3>4. \A n \in 1 .. col : Placed(buffer, n)'
      <4> SUFFICES ASSUME NEW n \in 1 .. col
                    PROVE  Placed(buffer, n)'
        OBVIOUS
      <4>1. Placed(buffer', n)
        BY <2>9
      <4>2. QED
        BY <3>2, <4>1 DEF Placed, End
    <3>5. (at = End(col - 1))'
      <4>1. Ends(written.columns)' = Ends(written.columns)
        BY <3>2
      <4>2. QED
        BY <2>5, <3>1, <4>1 DEF End
    <3>6. /\ (count = written.count)'
          /\ (values \in Seq(Columns) /\ Len(values) = Len(written.columns))'
          /\ (\A n \in 1 .. Len(values) : Stored(values[n]) = written.columns[n])'
          /\ (col - 1 <= Len(values))'
      BY <3>1, <3>2, <3>3
    <3>7. (\A n \in 1 .. col - 1 : Placed(buffer, n))'
      BY <3>1, <3>4
    <3>8. (buffer[0] = Special("valid", 0) /\ buffer[1] = Special("count", count))'
      BY <2>8, <3>2
    <3>9. QED
      BY <3>2, <3>5, <3>6, <3>7, <3>8 DEF Encoding
  <2>13. QED
    BY <1>1, <2>1, <2>10, <2>11, <2>12
       DEF IInv, RowsSound, Held, Origin, Decoding, Reading, StoredUnlessTooLarge, End, Kept
<1>5. QED
  BY <1>3, <1>4

-----------------------------------------------------------------------------
(* What a read finds in a slot *)

\* A byte numbered from one on is a byte of a column.
LEMMA ColumnByte ==
    ASSUME NEW c, NEW k \in Nat, k >= 1, <<c, k>> \in Bytes
    PROVE  c \in StoredColumns
<1>1. CASE <<c, k>> \in Specials
  <2>1. PICK name \in {"zero", "absent", "valid", "count"}, n \in 0 .. ByteRange - 1 :
           <<c, k>> = Special(name, n)
    BY <1>1 DEF Specials
  <2>2. k = 0
    BY <2>1 DEF Special
  <2>3. QED
    BY <2>2
<1>2. QED
  BY <1>1 DEF Bytes

\* The w bytes from offset o are the bytes k, k + 1 ... of column c.
BytesOf(c, o, k, w) == \A j \in 0 .. w - 1 : slot[o + j] = <<c, k + j>>

\* Bytes that follow one another in one column are found to be that column's.
LEMMA SameWhenPlaced ==
    ASSUME NEW c, NEW o \in Nat, NEW k \in Nat, k >= 1, NEW w \in Nat, w >= 1,
           BytesOf(c, o, k, w)
    PROVE  SameColumn(o, k, w) = {c} /\ slot[o][1] = c /\ ~Zeros(o, w)
<1>1. slot[o] = <<c, k>>
  <2>1. 0 \in 0 .. w - 1 /\ o + 0 = o /\ k + 0 = k
    OBVIOUS
  <2>2. QED
    BY <2>1 DEF BytesOf
<1>2. slot[o + 0] # Zero /\ 0 \in 0 .. w - 1
  <2>1. o + 0 = o /\ 0 \in 0 .. w - 1
    OBVIOUS
  <2>2. Zero[2] = 0 /\ slot[o][2] = k
    BY <1>1 DEF Zero, Special
  <2>3. QED
    BY <2>1, <2>2
<1>3. QED
  BY <1>1, <1>2 DEF SameColumn, Zeros, BytesOf

LEMMA TagsAreTypes ==
    ASSUME slot \in [Offsets -> Bytes], NEW o \in Offsets
    PROVE  TagsAt(o) \subseteq Types \cup {"none"}
<1>1. ASSUME NEW c \in SameColumn(o, 1, 1)
      PROVE  c.type \in Types
  <2>1. slot[o + 0] = <<c, 1 + 0>> /\ o + 0 = o
    BY <1>1 DEF SameColumn, Offsets
  <2>2. <<c, 1>> \in Bytes
    BY <2>1
  <2>3. QED
    BY <2>2, ColumnByte DEF StoredColumns, Columns
<1>2. QED
  BY <1>1 DEF TagsAt, Types

LEMMA LengthsAreLengths ==
    ASSUME slot \in [Offsets -> Bytes], NEW o \in Offsets
    PROVE  LengthsAt(o) \subseteq 0 .. LenRange - 1
<1>1. ASSUME NEW c \in SameColumn(o, 2, 2)
      PROVE  c.len \in 0 .. LenRange - 1
  <2>1. slot[o + 0] = <<c, 2 + 0>> /\ o + 0 = o
    BY <1>1 DEF SameColumn, Offsets
  <2>2. <<c, 2>> \in Bytes
    BY <2>1
  <2>3. QED
    BY <2>2, ColumnByte, RangesAssumption DEF StoredColumns, Columns
<1>2. QED
  BY <1>1, RangesAssumption DEF LengthsAt

\* What is read of a value is a column as it could be stored.
LEMMA ValueIsStored ==
    ASSUME slot \in [Offsets -> Bytes],
           NEW type \in Types, NEW len \in 0 .. LenRange - 1, NEW w \in Nat,
           type # "string" => len = 0, type = "string" => w = len,
           NEW o \in Nat, o + w <= SlotSize, NEW k \in Nat, k >= 1
    PROVE  ValueAt(type, len, o, k, w) \in StoredColumns
<1>1. CASE /\ w > 0 /\ SameColumn(o, k, w) # {}
           /\ \A c \in SameColumn(o, k, w) : c.type = type /\ c.len = len
  <2>1. ValueAt(type, len, o, k, w) = slot[o][1]
    BY <1>1 DEF ValueAt
  <2>2. slot[o] = <<slot[o][1], k>>
    <3>1. slot[o + 0] = <<slot[o][1], k + 0>>
      BY <1>1 DEF SameColumn
    <3>2. o + 0 = o /\ k + 0 = k
      OBVIOUS
    <3>3. QED
      BY <3>1, <3>2
  <2>3. o \in Offsets
    BY <1>1, SlotSizeAssumption DEF Offsets
  <2>4. <<slot[o][1], k>> \in Bytes
    BY <2>2, <2>3
  <2>5. QED
    BY <2>1, <2>4, ColumnByte
<1>2. CASE ~(/\ w > 0 /\ SameColumn(o, k, w) # {}
             /\ \A c \in SameColumn(o, k, w) : c.type = type /\ c.len = len)
  <2> DEFINE text == IF w = 0 THEN "empty" ELSE IF Zeros(o, w) THEN "zero" ELSE "garbage"
  <2>1. ValueAt(type, len, o, k, w) = [type |-> type, len |-> len, val |-> text]
    BY <1>2 DEF ValueAt
  <2>2. text \in Data /\ (w = 0 => text = "empty")
    BY DataAssumption
  <2> HIDE DEF text
  <2> DEFINE d == [type |-> type, len |-> len, val |-> text]
  <2>3. /\ d \in [type : Types, len : Nat, val : Data]
        /\ d.type = type /\ d.len = len /\ d.val = text /\ d.len < LenRange
    BY <2>2, RangesAssumption
  <2> HIDE DEF d
  <2>4. d \in StoredColumns
    BY <2>2, <2>3 DEF StoredColumns, Columns
  <2>5. QED
    BY <2>1, <2>4 DEF d
<1>3. QED
  BY <1>1, <1>2

\* A value that is in its place is read as it is.
LEMMA ValueWhenPlaced ==
    ASSUME NEW c \in StoredColumns, NEW o \in Nat, NEW k \in Nat, k >= 1, NEW w \in Nat,
           c.type = "string" => w = c.len, c.type # "string" => w >= 1,
           BytesOf(c, o, k, w)
    PROVE  ValueAt(c.type, c.len, o, k, w) = c
<1>1. CASE w = 0
  <2>1. c.type = "string" /\ c.len = 0 /\ c.val = "empty"
    BY <1>1 DEF StoredColumns
  <2>2. c = [type |-> c.type, len |-> c.len, val |-> c.val]
    BY DEF StoredColumns, Columns
  <2>3. QED
    BY <1>1, <2>1, <2>2 DEF ValueAt
<1>2. CASE w # 0
  <2>1. SameColumn(o, k, w) = {c} /\ slot[o][1] = c
    <3>1. w >= 1
      BY <1>2
    <3>2. QED
      BY ONLY <3>1, SameWhenPlaced, BytesOf(c, o, k, w),
              k >= 1, k \in Nat, w \in Nat, o \in Nat
  <2>2. QED
    BY <1>2, <2>1 DEF ValueAt
<1>3. QED
  BY <1>1, <1>2

\* A step of a read passes the end of the buffer or goes on behind what it read.
LEMMA DecodeEffect ==
    ASSUME IInv, DecodeColumn
    PROVE  /\ phase = "decode" /\ col <= count /\ at < SlotSize
           /\ UNCHANGED <<slot, buffer, count, written, reached, inserts>>
           /\ \/ phase' = "badRead" /\ UNCHANGED <<values, col, at>>
              \/ /\ phase' = phase /\ col' = col + 1 /\ at' \in 2 .. SlotSize
                 /\ \/ values' = values
                    \/ \E d \in StoredColumns : values' = Append(values, d)
<1>1. phase = "decode" /\ col <= count /\ at < SlotSize
  BY DEF DecodeColumn, DecodeMore
<1>2. /\ slot \in [Offsets -> Bytes]
      /\ at \in Nat /\ at >= 2 /\ at \in Offsets /\ SlotSize \in Nat
  BY <1>1, SlotSizeAssumption DEF IInv, BytesSound, TypeOK, Offsets
<1> DEFINE Goal ==
      /\ UNCHANGED <<slot, buffer, count, written, reached, inserts>>
      /\ \/ phase' = "badRead" /\ UNCHANGED <<values, col, at>>
         \/ /\ phase' = phase /\ col' = col + 1 /\ at' \in 2 .. SlotSize
            /\ \/ values' = values
               \/ \E d \in StoredColumns : values' = Append(values, d)
<1> SUFFICES Goal
  BY <1>1
<1>3. Overrun => Goal
  BY <1>1 DEF Overrun
<1>4. ASSUME NEW d \in StoredColumns, NEW next \in Nat, next <= SlotSize, next >= 2,
             Decoded(d, next)
      PROVE  Goal
  BY <1>2, <1>4 DEF Decoded
<1> HIDE DEF Goal
<1>5. PICK tag \in TagsAt(at) :
         CASE tag = "none"   -> /\ at' = at + 1
                                /\ col' = col + 1
                                /\ UNCHANGED <<slot, buffer, count, values, phase, written,
                                               reached, inserts>>
           [] tag = "string" -> DecodeString
           [] OTHER          -> DecodeFixed(tag)
  BY DEF DecodeColumn
<1>6. tag \in Types \cup {"none"}
  BY <1>2, TagsAreTypes
<1>7. CASE tag = "none"
  <2>1. /\ at' = at + 1 /\ col' = col + 1
        /\ UNCHANGED <<slot, buffer, count, values, phase, written, reached, inserts>>
    BY <1>5, <1>7
  <2>2. QED
    BY <1>1, <1>2, <2>1 DEF Goal
<1>8. CASE tag = "string"
  <2>1. DecodeString
    BY <1>5, <1>8
  <2>2. CASE at + 3 > SlotSize
    BY <1>3, <2>1, <2>2 DEF DecodeString
  <2>3. CASE ~(at + 3 > SlotSize)
    <3>1. PICK len \in LengthsAt(at + 1) :
             LET next == at + 3 + len
             IN  IF next > SlotSize THEN Overrun
                 ELSE Decoded(ValueAt("string", len, at + 3, 4, len), next)
      BY <2>1, <2>3 DEF DecodeString
    <3>2. len \in 0 .. LenRange - 1 /\ len \in Nat
      <4>1. at + 1 \in Offsets
        BY <1>2, <2>3 DEF Offsets
      <4>2. QED
        BY <1>2, <4>1, LengthsAreLengths, RangesAssumption
    <3>3. CASE at + 3 + len > SlotSize
      BY <1>3, <3>1, <3>3
    <3>4. CASE ~(at + 3 + len > SlotSize)
      <4>1. ValueAt("string", len, at + 3, 4, len) \in StoredColumns
        BY <1>2, <3>2, <3>4, ValueIsStored DEF Types
      <4>2. at + 3 + len \in Nat /\ at + 3 + len <= SlotSize /\ at + 3 + len >= 2
        BY <1>2, <3>2, <3>4
      <4>3. Decoded(ValueAt("string", len, at + 3, 4, len), at + 3 + len)
        BY <3>1, <3>4
      <4>4. QED
        BY <1>4, <4>1, <4>2, <4>3
    <3>5. QED
      BY <3>3, <3>4
  <2>4. QED
    BY <2>2, <2>3
<1>9. CASE tag \notin {"none", "string"}
  <2> DEFINE w == Width[tag]
  <2> DEFINE next == at + 1 + w
  <2>1. IF next > SlotSize THEN Overrun ELSE Decoded(ValueAt(tag, 0, at + 1, 2, w), next)
    BY <1>5, <1>9 DEF DecodeFixed
  <2>2. tag \in Types /\ tag # "string" /\ w \in Nat /\ w >= 1
    BY <1>6, <1>9 DEF Types, Width
  <2> HIDE DEF w
  <2>3. CASE next > SlotSize
    BY <1>3, <2>1, <2>3
  <2>4. CASE ~(next > SlotSize)
    <3>1. ValueAt(tag, 0, at + 1, 2, w) \in StoredColumns
      BY <1>2, <2>2, <2>4, ValueIsStored, RangesAssumption
    <3>2. next \in Nat /\ next <= SlotSize /\ next >= 2
      BY <1>2, <2>2, <2>4
    <3>3. Decoded(ValueAt(tag, 0, at + 1, 2, w), next)
      BY <2>1, <2>4
    <3>4. QED
      BY <1>4, <3>1, <3>2, <3>3
  <2>5. QED
    BY <2>3, <2>4
<1>10. QED
  BY <1>7, <1>8, <1>9

\* A column that stands whole at the offset of a read is read as it is.
LEMMA DecodePlaced ==
    ASSUME IInv, NEW c \in StoredColumns, at + Size(c) <= SlotSize,
           \A o \in at .. at + Size(c) - 1 : slot[o] = <<c, o - at + 1>>,
           DecodeColumn
    PROVE  /\ values' = Append(values, c) /\ at' = at + Size(c)
           /\ col' = col + 1 /\ phase' = phase
<1>1. at \in Nat /\ at >= 2 /\ SlotSize \in Nat /\ c \in Columns
  BY SlotSizeAssumption DEF IInv, TypeOK, StoredColumns
<1>2. /\ Size(c) \in Nat /\ Size(c) >= 1 /\ c.len \in Nat
      /\ c.type = "string" => Size(c) = 3 + c.len
      /\ c.type # "string" => /\ c.len = 0 /\ Width[c.type] \in Nat /\ Width[c.type] >= 1
                              /\ Size(c) = 1 + Width[c.type]
      /\ c.type \in Types
  BY <1>1, SizeFacts DEF Columns
<1>3. ASSUME NEW k \in Nat, k >= 1, NEW w \in Nat, k + w <= Size(c) + 1
      PROVE  BytesOf(c, at + (k - 1), k, w)
  <2>1. ASSUME NEW j \in 0 .. w - 1
        PROVE  slot[at + (k - 1) + j] = <<c, k + j>>
    <3>1. at + (k - 1) + j \in at .. at + Size(c) - 1
      BY <1>1, <1>2, <1>3
    <3>2. (at + (k - 1) + j) - at + 1 = k + j
      BY <1>1, <1>3
    <3>3. QED
      BY <3>1, <3>2
  <2>2. QED
    BY <2>1 DEF BytesOf
<1>4. TagsAt(at) = {c.type}
  <2>1. BytesOf(c, at, 1, 1)
    <3>1. at + (1 - 1) = at /\ 1 + 1 <= Size(c) + 1
      BY <1>1, <1>2
    <3>2. BytesOf(c, at + (1 - 1), 1, 1)
      BY <1>3, <3>1
    <3>3. QED
      BY <3>1, <3>2
  <2>2. SameColumn(at, 1, 1) = {c} /\ ~Zeros(at, 1)
    BY <1>1, <2>1, SameWhenPlaced
  <2>3. QED
    BY <2>2 DEF TagsAt
<1>5. CASE c.type = "string"
  <2>1. DecodeString
    BY <1>4, <1>5 DEF DecodeColumn
  <2>2. LengthsAt(at + 1) = {c.len}
    <3>1. BytesOf(c, at + 1, 2, 2)
      <4>1. at + (2 - 1) = at + 1 /\ 2 + 2 <= Size(c) + 1
        BY <1>1, <1>2, <1>5
      <4>2. BytesOf(c, at + (2 - 1), 2, 2)
        BY <1>3, <4>1
      <4>3. QED
        BY <4>1, <4>2
    <3>2. at + 1 \in Nat
      BY <1>1
    <3>3. SameColumn(at + 1, 2, 2) = {c} /\ ~Zeros(at + 1, 2)
      BY <3>1, <3>2, SameWhenPlaced
    <3>4. QED
      BY <1>5, <3>3 DEF LengthsAt
  <2>3. at + 3 + c.len = at + Size(c) /\ ~(at + 3 > SlotSize) /\ ~(at + 3 + c.len > SlotSize)
    BY <1>1, <1>2, <1>5
  <2>4. Decoded(ValueAt("string", c.len, at + 3, 4, c.len), at + 3 + c.len)
    BY <2>1, <2>2, <2>3 DEF DecodeString
  <2>5. ValueAt("string", c.len, at + 3, 4, c.len) = c
    <3>1. BytesOf(c, at + 3, 4, c.len)
      <4>1. at + (4 - 1) = at + 3 /\ 4 + c.len <= Size(c) + 1
        BY <1>1, <1>2, <1>5
      <4>2. BytesOf(c, at + (4 - 1), 4, c.len)
        BY <1>2, <1>3, <4>1
      <4>3. QED
        BY <4>1, <4>2
    <3>2. at + 3 \in Nat
      BY <1>1
    <3>3. ValueAt(c.type, c.len, at + 3, 4, c.len) = c
      BY <1>2, <1>5, <3>1, <3>2, ValueWhenPlaced
    <3>4. QED
      BY <1>5, <3>3
  <2>6. QED
    BY <2>3, <2>4, <2>5 DEF Decoded
<1>6. CASE c.type # "string"
  <2> DEFINE w == Width[c.type]
  <2>1. DecodeFixed(c.type)
    BY <1>2, <1>4, <1>6 DEF DecodeColumn, Types
  <2>2. w \in Nat /\ w >= 1 /\ Size(c) = 1 + w /\ c.len = 0
    BY <1>2, <1>6
  <2>3. IF at + 1 + w > SlotSize THEN Overrun
        ELSE Decoded(ValueAt(c.type, 0, at + 1, 2, w), at + 1 + w)
    BY <2>1 DEF DecodeFixed
  <2> HIDE DEF w
  <2>4. at + 1 + w = at + Size(c) /\ ~(at + 1 + w > SlotSize)
    BY <1>1, <2>2
  <2>5. ValueAt(c.type, 0, at + 1, 2, w) = c
    <3>1. BytesOf(c, at + 1, 2, w)
      <4>1. at + (2 - 1) = at + 1 /\ 2 + w <= Size(c) + 1
        BY <1>1, <2>2
      <4>2. BytesOf(c, at + (2 - 1), 2, w)
        BY <1>3, <2>2, <4>1
      <4>3. QED
        BY <4>1, <4>2
    <3>2. at + 1 \in Nat
      BY <1>1
    <3>3. ValueAt(c.type, c.len, at + 1, 2, w) = c
      BY <1>6, <2>2, <3>1, <3>2, ValueWhenPlaced
    <3>4. QED
      BY <2>2, <3>3
  <2>6. QED
    BY <2>3, <2>4, <2>5 DEF Decoded
<1>7. QED
  BY <1>5, <1>6

\* In a slot that was written whole a read that goes on has a column before it.
LEMMA NextColumn ==
    ASSUME IInv, phase = "decode", col <= count, at < SlotSize, reached = SlotSize
    PROVE  col <= Kept /\ End(col) <= SlotSize
<1>1. /\ RowsSound /\ count = written.count
      /\ col - 1 <= Kept /\ End(col - 1) <= SlotSize /\ at = End(col - 1)
  BY SlotSizeAssumption DEF IInv, Decoding
<1>2. /\ col \in Nat /\ col >= 1 /\ count \in Nat /\ SlotSize \in Nat /\ at \in Nat
      /\ Kept \in Nat /\ Kept <= Len(written.columns) /\ Len(written.columns) \in Nat
  BY <1>1, KeptFacts, SlotSizeAssumption, RangesAssumption DEF IInv, TypeOK
<1>3. PICK m \in 0 .. Kept : End(m) <= SlotSize /\ (m = written.count \/ End(m) = SlotSize)
  BY DEF IInv, Held
<1>4. m \in 0 .. Len(written.columns) /\ col - 1 \in 0 .. Len(written.columns)
  BY <1>1, <1>2
<1>5. col <= m
  <2>1. CASE m = written.count
    BY <1>1, <2>1
  <2>2. CASE End(m) = SlotSize
    <3>1. ~(End(m) <= End(col - 1))
      BY <1>1, <1>2, <2>2
    <3>2. ~(m <= col - 1)
      BY <1>1, <1>4, <3>1, EndOrder
    <3>3. QED
      BY <1>2, <1>4, <3>2
  <2>3. QED
    BY <1>3, <2>1, <2>2
<1>6. End(col) <= End(m) /\ End(col) \in Nat /\ End(m) \in Nat
  <2>1. col \in 0 .. Len(written.columns)
    BY <1>2, <1>4, <1>5
  <2>2. QED
    BY <1>1, <1>4, <1>5, <2>1, EndOrder
<1>7. QED
  BY <1>2, <1>3, <1>5, <1>6

\* The next column that reached the file is before the read.
LEMMA ColumnAtRead ==
    ASSUME IInv, phase = "decode", reached >= 2, col <= Kept, End(col) <= reached,
           DecodeColumn
    PROVE  /\ phase' = "decode" /\ Len(values) = col - 1
           /\ values' = Append(values, written.columns[col]) /\ at' = End(col)
<1>1. RowsSound /\ reached \in 0 .. SlotSize /\ col \in Nat /\ col >= 1
  BY RangesAssumption DEF IInv, TypeOK
<1>2. col \in 1 .. Len(written.columns) /\ col \in 1 .. Kept
  BY <1>1, KeptFacts
<1> DEFINE c == written.columns[col]
<1>3. c \in StoredColumns /\ Size(c) \in Nat /\ Size(c) >= 1 /\ End(col) = End(col - 1) + Size(c)
  BY <1>1, <1>2, RowLayout
<1>4. End(col - 1) \in Nat /\ End(col) \in Nat
  <2>1. col - 1 \in 0 .. Len(written.columns) /\ col \in 0 .. Len(written.columns)
    BY <1>2
  <2>2. QED
    BY <1>1, <2>1, EndOrder
<1>5. Len(values) = col - 1 /\ at = End(col - 1)
  <2>1. End(col - 1) <= reached /\ col - 1 <= Kept
    BY <1>1, <1>2, <1>3, <1>4, KeptFacts
  <2>2. QED
    BY <2>1 DEF IInv, Decoding
<1>6. Placed(slot, col)
  BY <1>2 DEF IInv, Held
<1> HIDE DEF c
<1>7. at + Size(c) <= SlotSize
  BY <1>1, <1>3, <1>4, <1>5, SlotSizeAssumption
<1>8. ASSUME NEW o \in at .. at + Size(c) - 1
      PROVE  slot[o] = <<c, o - at + 1>>
  <2>1. o \in End(col - 1) .. End(col) - 1
    BY <1>3, <1>4, <1>5
  <2>2. QED
    BY <1>5, <1>6, <2>1 DEF Placed, c
<1>9. values' = Append(values, c) /\ at' = at + Size(c) /\ phase' = phase
  BY <1>3, <1>7, <1>8, DecodePlaced
<1>10. QED
  BY <1>3, <1>5, <1>9 DEF c

LEMMA DecodeColumnInvariant ==
    ASSUME IInv, DecodeColumn
    PROVE  IInv'
<1>1. /\ phase = "decode" /\ col <= count /\ at < SlotSize
      /\ UNCHANGED <<slot, buffer, count, written, reached, inserts>>
  BY DecodeEffect
<1>2. /\ RowsSound /\ values \in Seq(StoredColumns) /\ Len(values) \in Nat
      /\ count \in 0 .. ByteRange - 1 /\ col \in 1 .. count + 1 /\ Len(values) < col
      /\ col \in Nat /\ col >= 1 /\ count \in Nat
      /\ reached \in Nat /\ reached <= SlotSize /\ SlotSize \in Nat /\ SlotSize > 2
      /\ Kept \in Nat
  BY <1>1, KeptFacts, RangesAssumption, SlotSizeAssumption DEF IInv, RowsSound, TypeOK
<1>3. CASE phase' = "badRead" /\ UNCHANGED <<values, col, at>>
  <2>1. reached < SlotSize
    <3> SUFFICES ASSUME reached = SlotSize
                 PROVE  FALSE
      BY <1>2
    <3>1. col <= Kept /\ End(col) <= SlotSize
      BY <1>1, NextColumn
    <3>2. phase' = "decode"
      BY <1>1, <1>2, <3>1, ColumnAtRead
    <3>3. QED
      BY <1>3, <3>2
  <2>2. QED
    BY <1>1, <1>3, <2>1
       DEF IInv, TypeOK, BytesSound, NoRow, RowsSound, Encoding, Held, Placed, Origin,
           Decoding, Reading, StoredUnlessTooLarge, End, Kept
<1>4. CASE /\ phase' = phase /\ col' = col + 1 /\ at' \in 2 .. SlotSize
           /\ \/ values' = values
              \/ \E d \in StoredColumns : values' = Append(values, d)
  <2>1. /\ values' \in Seq(StoredColumns)
        /\ Len(values') \in Nat /\ Len(values') >= Len(values) /\ Len(values') <= Len(values) + 1
        /\ \A n \in 1 .. Len(values) : values'[n] = values[n]
    <3>1. CASE values' = values
      BY <1>2, <3>1
    <3>2. CASE \E d \in StoredColumns : values' = Append(values, d)
      BY <1>2, <3>2
    <3>3. QED
      BY <1>4, <3>1, <3>2
  <2>2. TypeOK'
    BY <1>1, <1>2, <1>4, <2>1 DEF IInv, TypeOK
  <2>3. Decoding'
    <3> SUFFICES ASSUME reached >= 2
                 PROVE  /\ count = written.count
                        /\ \A n \in 1 .. Kept : n < col' /\ End(n) <= reached =>
                              n <= Len(values') /\ values'[n] = written.columns[n]
                        /\ col <= Kept =>
                              (End(col) <= reached => Len(values') = col /\ at' = End(col))
                        /\ reached = SlotSize => col <= Kept /\ End(col) <= SlotSize
      <4>1. col' - 1 = col
        BY <1>2, <1>4
      <4>2. QED
        BY <1>1, <4>1 DEF Decoding, End, Kept
    <3>1. count = written.count
      BY <1>1 DEF IInv, Decoding
    <3>2. ASSUME col <= Kept, End(col) <= reached
          PROVE  /\ Len(values) = col - 1 /\ Len(values') = col /\ at' = End(col)
                 /\ values'[col] = written.columns[col]
      <4>1. /\ Len(values) = col - 1 /\ at' = End(col)
            /\ values' = Append(values, written.columns[col])
        BY <1>1, <3>2, ColumnAtRead
      <4>2. QED
        BY <1>2, <4>1
    <3>3. ASSUME NEW n \in 1 .. Kept, n < col', End(n) <= reached
          PROVE  n <= Len(values') /\ values'[n] = written.columns[n]
      <4>1. CASE n = col
        BY <1>2, <3>2, <3>3, <4>1
      <4>2. CASE n # col
        <5>1. n < col /\ n \in Nat /\ n >= 1
          BY <1>2, <1>4, <3>3, <4>2
        <5>2. n <= Len(values) /\ values[n] = written.columns[n]
          BY <1>1, <3>3, <5>1 DEF IInv, Decoding
        <5>3. QED
          BY <1>2, <2>1, <5>1, <5>2
      <4>3. QED
        BY <4>1, <4>2
    <3>4. reached = SlotSize => col <= Kept /\ End(col) <= SlotSize
      BY <1>1, NextColumn
    <3>5. QED
      BY <3>1, <3>2, <3>3, <3>4
  <2>4. QED
    BY <1>1, <1>4, <2>1, <2>2, <2>3
       DEF IInv, BytesSound, NoRow, RowsSound, Encoding, Held, Placed, Origin,
           Reading, StoredUnlessTooLarge, End, Kept
<1>5. QED
  BY <1>3, <1>4, DecodeEffect

LEMMA ReadRowInvariant ==
    ASSUME IInv, ReadRow
    PROVE  IInv'
<1>1. /\ phase \in Resting
      /\ UNCHANGED <<slot, buffer, written, reached, inserts>>
  BY DEF ReadRow
<1>2. CASE NoRow
  <2>1. phase' = "null" /\ UNCHANGED <<count, values, col, at>>
    BY <1>2 DEF ReadRow
  <2>2. QED
    BY <1>1, <2>1
       DEF IInv, Resting, TypeOK, BytesSound, NoRow, RowsSound, Encoding, Held, Placed, Origin,
           Decoding, Reading, StoredUnlessTooLarge, End, Kept
<1>3. CASE ~NoRow
  <2>1. /\ phase' = "decode" /\ values' = <<>> /\ col' = 1 /\ at' = 2
        /\ count' \in IF slot[1] = Absent THEN 0 .. ByteRange - 1 ELSE {slot[1][1].len}
    BY <1>3 DEF ReadRow
  <2>2. /\ RowsSound /\ reached \in 0 .. SlotSize
        /\ slot[1] = Absent \/ \E n \in 0 .. ByteRange - 1 : slot[1] = Special("count", n)
    BY DEF IInv, TypeOK, BytesSound
  <2>3. \A n : Special("count", n)[1].len = n
    BY DEF Special
  <2>4. count' \in 0 .. ByteRange - 1
    <3>1. CASE slot[1] = Absent
      BY <2>1, <3>1
    <3>2. CASE slot[1] # Absent
      BY <2>1, <2>2, <2>3, <3>2
    <3>3. QED
      BY <3>1, <3>2
  <2>5. reached >= 2 => count' = written.count
    <3> SUFFICES ASSUME reached >= 2
                 PROVE  count' = written.count
      OBVIOUS
    <3>1. slot[1] = Special("count", written.count)
      BY <1>1 DEF IInv, Held, Resting
    <3>2. Special("count", written.count) # Absent
      BY DEF Special, Absent
    <3>3. QED
      BY <2>1, <2>3, <3>1, <3>2
  <2>6. TypeOK'
    <3>1. PICK n \in 0 .. ByteRange - 1 : count' = n
      BY <2>4
    <3>2. 1 \in 1 .. n + 1 /\ Len(<<>>) < 1 /\ 2 \in 2 .. SlotSize
      BY SlotSizeAssumption, RangesAssumption
    <3>3. QED
      BY <1>1, <2>1, <3>1, <3>2 DEF IInv, TypeOK
  <2>7. RowsSound'
    BY <1>1, <2>1 DEF IInv, RowsSound
  <2>8. Decoding'
    <3>1. /\ col' - 1 = 0 /\ Len(values') = 0 /\ End(0) = 2 /\ Kept \in Nat
          /\ SlotSize \in Nat /\ SlotSize > 2
      BY <2>1, <2>2, RowLayout, KeptFacts, SlotSizeAssumption
    <3>2. \A n \in 1 .. Kept : ~(n < col')
      BY <2>1
    <3>3. QED
      BY <1>1, <2>1, <2>5, <3>1, <3>2 DEF Decoding, End, Kept
  <2>9. QED
    BY <1>1, <1>3, <2>1, <2>6, <2>7, <2>8
       DEF IInv, Resting, BytesSound, NoRow, Encoding, Held, Placed, Origin, Reading,
           StoredUnlessTooLarge, End, Kept
<1>4. QED
  BY <1>2, <1>3

LEMMA ReturnRowInvariant ==
    ASSUME IInv, ReturnRow
    PROVE  IInv'
<1>1. /\ phase = "decode" /\ phase' = "read"
      /\ UNCHANGED <<slot, buffer, count, values, col, at, written, reached, inserts>>
      /\ ~(col <= count /\ at < SlotSize)
  BY DEF ReturnRow, DecodeMore
<1>2. col > count \/ at = SlotSize
  BY <1>1, SlotSizeAssumption, RangesAssumption DEF IInv, TypeOK
<1>3. QED
  BY <1>1, <1>2
     DEF IInv, TypeOK, Resting, BytesSound, NoRow, RowsSound, Encoding, Held, Placed, Origin,
         Decoding, Reading, StoredUnlessTooLarge, End, Kept

LEMMA InvariantStep ==
    ASSUME IInv, [Next]_vars
    PROVE  IInv'
<1>1. CASE UNCHANGED vars
  BY <1>1
     DEF vars, IInv, TypeOK, BytesSound, NoRow, RowsSound, Encoding, Held, Placed, Origin,
         Decoding, Reading, StoredUnlessTooLarge, End, Kept
<1>2. CASE Stopped
  BY <1>1, <1>2 DEF Stopped
<1>3. QED
  BY <1>1, <1>2, InsertRowInvariant, CopyRowInvariant, EncodeColumnInvariant,
     WriteSlotInvariant, DeleteRowInvariant, ReadRowInvariant, DecodeColumnInvariant,
     ReturnRowInvariant DEF Next

-----------------------------------------------------------------------------
(* Theorems *)

LEMMA Invariant == Spec => []IInv
<1>1. Init => IInv
  BY InitInvariant
<1>2. IInv /\ [Next]_vars => IInv'
  BY InvariantStep
<1>3. QED
  BY <1>1, <1>2, PTL DEF Spec

\* The offsets of an insert and of a read stay within the slot, numCols within
\* its byte, and a read returns no more values than columns were counted.
THEOREM RowCodecTypeOK == Spec => []TypeOK
<1>1. IInv => TypeOK
  BY DEF IInv
<1>2. QED
  BY <1>1, Invariant, PTL

\* Every column that reached the file is read back unchanged and in its place,
\* after whole, torn and repeated writes over any older row.
THEOREM WrittenColumnsReadBackHolds == Spec => []WrittenColumnsReadBack
<1>1. IInv => WrittenColumnsReadBack
  <2> SUFFICES ASSUME IInv, phase = "read", reached >= 2, NEW n \in 1 .. Kept, End(n) <= reached
               PROVE  n <= Len(values) /\ values[n] = written.columns[n]
    BY DEF WrittenColumnsReadBack
  <2>1. /\ RowsSound /\ count = written.count
        /\ col \in Nat /\ count \in Nat /\ at \in Nat /\ SlotSize \in Nat
        /\ reached \in Nat /\ reached <= SlotSize /\ col >= 1
        /\ col > count \/ at = SlotSize
    BY SlotSizeAssumption, RangesAssumption DEF IInv, Decoding, Reading, TypeOK
  <2>2. /\ Kept <= count /\ Kept \in Nat /\ Kept <= Len(written.columns)
        /\ Len(written.columns) \in Nat
    BY <2>1, KeptFacts
  <2>3. n < col
    <3>1. CASE col > count
      BY <2>1, <2>2, <3>1
    <3>2. CASE at = SlotSize
      <4> SUFFICES ASSUME col <= n
                   PROVE  FALSE
        BY <2>1
      <4>1. col - 1 \in 0 .. Len(written.columns) /\ n \in 0 .. Len(written.columns)
            /\ col - 1 < n /\ col - 1 <= Kept
        BY <2>1, <2>2
      <4>2. End(col - 1) < End(n) /\ End(col - 1) \in Nat /\ End(n) \in Nat
        BY <2>1, <4>1, EndOrder
      <4>3. End(col - 1) <= reached
        BY <2>1, <4>2
      <4>4. at = End(col - 1)
        BY <4>1, <4>3 DEF IInv, Decoding
      <4>5. QED
        BY <2>1, <3>2, <4>2, <4>4
    <3>3. QED
      BY <2>1, <3>1, <3>2
  <2>4. QED
    BY <2>3 DEF IInv, Decoding
<1>2. QED
  BY <1>1, Invariant, PTL

\* Fewer values than numCols come only from a torn write or a slot filled to its
\* last byte.
THEOREM ShortOnlyWhenFullHolds == Spec => []ShortOnlyWhenFull
<1>1. IInv => ShortOnlyWhenFull
  <2> SUFFICES ASSUME IInv, phase = "read", Len(values) < count, ~(reached < SlotSize)
               PROVE  at = SlotSize
    BY DEF ShortOnlyWhenFull
  <2>1. /\ reached = SlotSize /\ col \in Nat /\ count \in Nat
        /\ col > count \/ at = SlotSize
    BY SlotSizeAssumption, RangesAssumption DEF IInv, TypeOK, Reading
  <2>2. Len(values) = col - 1
    BY <2>1, ReadWhole
  <2>3. QED
    BY <2>1, <2>2
<1>2. QED
  BY <1>1, Invariant, PTL

\* No read of a slot that was written whole passes the end of its buffer.
THEOREM MisreadOnlyWhenTornHolds == Spec => []MisreadOnlyWhenTorn
<1>1. IInv => MisreadOnlyWhenTorn
  BY DEF IInv, Reading, MisreadOnlyWhenTorn
<1>2. QED
  BY <1>1, Invariant, PTL

\* Only a client's row that is too large for a slot, or one that was read from
\* a torn write, makes an insert pass the end of its buffer.
THEOREM StoredUnlessTooLargeHolds == Spec => []StoredUnlessTooLarge
<1>1. IInv => StoredUnlessTooLarge
  BY DEF IInv
<1>2. QED
  BY <1>1, Invariant, PTL
=============================================================================
