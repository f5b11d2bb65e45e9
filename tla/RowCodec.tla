------------------------------ MODULE RowCodec ------------------------------
(***************************************************************************)
(* Rows as bytes in one slot of a heap file, src/src/storage-manager/      *)
(* HeapFile.cpp: serialize_row and deserialize_row, column by column, over *)
(* a slot whose writes may reach the disk only in part.                    *)
(*                                                                         *)
(* Byte k of an encoded column c is <<c, k>>: the type tag, for a string   *)
(* two bytes of length, then the value.  What bytes of different columns   *)
(* read as together is anything, and so is what a read that meets the end  *)
(* of the file leaves in its buffer.  One slot is enough for a row to be   *)
(* read, the slot freed and the row read inserted again.                   *)
(***************************************************************************)
EXTENDS Integers, Sequences

CONSTANTS
    SlotSize,   \* SLOT_SIZE, 128
    ByteRange,  \* values of a u8, 256
    LenRange,   \* values of a u16, 65536
    Data,       \* what the value of a column can be
    Rows,       \* the rows clients insert, sequences of columns
    MaxInserts  \* bound: inserts

ASSUME SlotSizeAssumption == SlotSize \in Nat /\ SlotSize > 2
ASSUME RangesAssumption   == ByteRange \in Nat \ {0} /\ LenRange \in Nat \ {0} /\ MaxInserts \in Nat

\* A column value: its type, the length of a string (0 for others), a value.
Width   == [int |-> 4, float |-> 4, string |-> 0, bool |-> 1, int64 |-> 8, double |-> 8]
Types   == {"int", "float", "string", "bool", "int64", "double"}
Columns == {c \in [type : Types, len : Nat, val : Data] : c.type # "string" => c.len = 0}

ASSUME DataAssumption   == {"empty", "zero", "garbage"} \subseteq Data
ASSUME RowsAssumption   == Rows \subseteq Seq(Columns)

VARIABLES
    slot,       \* the bytes of the slot in the file, at offsets 0 .. SlotSize - 1
    buffer,     \* the buffer of the insert in progress
    count,      \* numCols of the row being encoded or decoded
    values,     \* its values
    col, at,    \* the next column and its offset
    phase,      \* "idle", "encode", "decode", "read" (a row was returned),
                \*   "null" (none was), "badInsert" or "badRead" (undefined: the
                \*   end of a buffer or of values is passed)
    written,    \* history: the row last inserted: numCols, columns, and where
                \*   it is from, "client", "whole" (read from a slot that was
                \*   written whole) or "torn"
    reached,    \* history: the bytes of it that reached the file
    inserts     \* the number of inserts, up to MaxInserts

vars == <<slot, buffer, count, values, col, at, phase, written, reached, inserts>>

Offsets  == 0 .. SlotSize - 1
Resting  == {"idle", "read", "null"}

\* Bytes that are not part of a column: zero, past the end of the file, the
\* valid marker, numCols.
Special(name, n) == <<[type |-> name, len |-> n, val |-> ""], 0>>
Zero     == Special("zero", 0)
Absent   == Special("absent", 0)
Blank    == [o \in Offsets |-> Zero]
NoRow    == slot[0] \in {Zero, Absent}

\* A new heap file ends before the slots of its first page.
Init ==
    /\ slot = [o \in Offsets |-> Absent] /\ buffer = Blank
    /\ count = 0 /\ values = <<>> /\ col = 1 /\ at = 2
    /\ phase = "idle"
    /\ written = [count |-> 0, columns |-> <<>>, from |-> "client"] /\ reached = 0 /\ inserts = 0

\* A string keeps the low 16 bits of its length, and as many characters: none
\* of them when these bits are zero.
Stored(c) ==
    LET kept == c.len % LenRange
    IN  [c EXCEPT !.len = kept, !.val = IF c.type = "string" /\ kept = 0 THEN "empty" ELSE @]
Size(c) == IF c.type = "string" THEN 3 + c.len ELSE 1 + Width[c.type]

\* The offset behind the first n columns of a row, behind its marker and numCols
\* when n is 0.
Ends(columns) ==
    LET E[n \in 0 .. Len(columns)] == IF n = 0 THEN 2 ELSE E[n - 1] + Size(columns[n])
    IN  E

-----------------------------------------------------------------------------
(* serialize_row *)

\* insert_row into a free slot: the row a client made, or one read before.
Begin(n, vs, from) ==
    /\ phase \in Resting
    /\ NoRow
    /\ inserts < MaxInserts /\ inserts' = inserts + 1
    /\ phase' = "encode"
    /\ count' = n /\ values' = vs /\ col' = 1 /\ at' = 2
    /\ buffer' = [Blank EXCEPT ![0] = Special("valid", 0), ![1] = Special("count", n)]
    /\ written' = [count |-> n, columns |-> [i \in DOMAIN vs |-> Stored(vs[i])], from |-> from]
    /\ UNCHANGED <<slot, reached>>

\* Faulty variant: numCols is not a byte.
InsertRowCountsAll(row) == Begin(Len(row), row, "client")

InsertRow(row) == Begin(Len(row) % ByteRange, row, "client")
CopyRow ==
    /\ phase = "read"
    /\ Begin(count, values,
             IF reached = SlotSize /\ written.from # "torn" THEN "whole" ELSE "torn")

EncodeMore == phase = "encode" /\ col <= count /\ at < SlotSize

Overrun ==
    /\ phase' = IF phase = "encode" THEN "badInsert" ELSE "badRead"
    /\ UNCHANGED <<slot, buffer, count, values, col, at, written, reached, inserts>>

\* Faulty variant: a value is advanced over without its tag.
EncodeColumnNoTag ==
    /\ EncodeMore
    /\ IF col > Len(values) THEN Overrun
       ELSE LET c == Stored(values[col])
            IN  IF at + Size(c) > SlotSize THEN Overrun
                ELSE /\ buffer' = [o \in Offsets |->
                            IF o \in at .. at + Size(c) - 1 THEN <<c, o - at + 1>> ELSE buffer[o]]
                     /\ at' = at + Size(c) - 1
                     /\ col' = col + 1
                     /\ UNCHANGED <<slot, count, values, phase, written, reached, inserts>>

\* Only the offset the column starts at is compared with the buffer's size.
EncodeColumn ==
    /\ EncodeMore
    /\ IF col > Len(values) THEN Overrun
       ELSE LET c == Stored(values[col])
            IN  IF at + Size(c) > SlotSize THEN Overrun
                ELSE /\ buffer' = [o \in Offsets |->
                            IF o \in at .. at + Size(c) - 1 THEN <<c, o - at + 1>> ELSE buffer[o]]
                     /\ at' = at + Size(c)
                     /\ col' = col + 1
                     /\ UNCHANGED <<slot, count, values, phase, written, reached, inserts>>

\* The whole slot is written; a short write leaves the old bytes behind it, or
\* the end of the file.
WriteSlot(n) ==
    /\ phase = "encode" /\ ~EncodeMore
    /\ slot' = [o \in Offsets |-> IF o < n THEN buffer[o] ELSE slot[o]]
    /\ reached' = n
    /\ phase' = "idle"
    /\ buffer' = Blank
    /\ UNCHANGED <<count, values, col, at, written, inserts>>

\* delete_row clears the marker, whatever the slot holds.
DeleteRow ==
    /\ phase \in Resting
    /\ slot' = [slot EXCEPT ![0] = Zero]
    /\ UNCHANGED <<buffer, count, values, col, at, phase, written, reached, inserts>>

-----------------------------------------------------------------------------
(* deserialize_row *)

\* The buffer is read into without being cleared.
ReadRow ==
    /\ phase \in Resting
    /\ IF NoRow THEN phase' = "null" /\ UNCHANGED <<count, values, col, at>>
       ELSE /\ phase' = "decode" /\ values' = <<>> /\ col' = 1 /\ at' = 2
            /\ count' \in IF slot[1] = Absent THEN 0 .. ByteRange - 1 ELSE {slot[1][1].len}
    /\ UNCHANGED <<slot, buffer, written, reached, inserts>>

\* Faulty variant: the last column is left out.
DecodeMoreOneLess == phase = "decode" /\ col < count /\ at < SlotSize

DecodeMore == phase = "decode" /\ col <= count /\ at < SlotSize

\* The columns that the w bytes from offset o, expected to be the bytes k, k + 1
\* ... of one column, are bytes of: one or none.
SameColumn(o, k, w) ==
    {c \in {slot[o][1]} : \A j \in 0 .. w - 1 : slot[o + j] = <<c, k + j>>}
Zeros(o, w) == \A j \in 0 .. w - 1 : slot[o + j] = Zero

\* What a tag reads as (a byte that is no tag is any, "none" a tag of no type).
TagsAt(o) ==
    IF Zeros(o, 1) THEN {"int"}
    ELSE IF SameColumn(o, 1, 1) # {} THEN {c.type : c \in SameColumn(o, 1, 1)}
    ELSE Types \cup {"none"}

\* What the two bytes behind a string's tag read as: the length of a string when
\* they are its bytes, and any when they are of another column.
LengthsAt(o) ==
    LET strings == {c \in SameColumn(o, 2, 2) : c.type = "string"}
    IN  IF Zeros(o, 2) THEN {0}
        ELSE IF strings # {} THEN {c.len : c \in strings}
        ELSE 0 .. LenRange - 1

\* The value of the given type in w bytes from o, bytes k ... of a column.
ValueAt(type, len, o, k, w) ==
    IF w > 0 /\ SameColumn(o, k, w) # {} /\ \A c \in SameColumn(o, k, w) : c.type = type /\ c.len = len
    THEN slot[o][1]
    ELSE [type |-> type, len |-> len,
          val |-> IF w = 0 THEN "empty" ELSE IF Zeros(o, w) THEN "zero" ELSE "garbage"]

Decoded(c, next) ==
    /\ values' = Append(values, c)
    /\ at' = next
    /\ col' = col + 1
    /\ UNCHANGED <<slot, buffer, count, phase, written, reached, inserts>>

DecodeFixed(type) ==
    LET next == at + 1 + Width[type]
    IN  IF next > SlotSize THEN Overrun ELSE Decoded(ValueAt(type, 0, at + 1, 2, Width[type]), next)

DecodeString ==
    IF at + 3 > SlotSize THEN Overrun
    ELSE \E len \in LengthsAt(at + 1) :
           LET next == at + 3 + len
           IN  IF next > SlotSize THEN Overrun ELSE Decoded(ValueAt("string", len, at + 3, 4, len), next)

\* A tag of no type adds no value.
DecodeColumn ==
    /\ DecodeMore
    /\ \E tag \in TagsAt(at) :
         CASE tag = "none"   -> /\ at' = at + 1
                                /\ col' = col + 1
                                /\ UNCHANGED <<slot, buffer, count, values, phase, written, reached, inserts>>
           [] tag = "string" -> DecodeString
           [] OTHER          -> DecodeFixed(tag)

\* Row(num_cols, values): num_cols is not compared with the number of values.
ReturnRow ==
    /\ phase = "decode" /\ ~DecodeMore
    /\ phase' = "read"
    /\ UNCHANGED <<slot, buffer, count, values, col, at, written, reached, inserts>>

Stopped == phase \in {"badInsert", "badRead"} /\ UNCHANGED vars

Next ==
    \/ \E row \in Rows : InsertRow(row)
    \/ CopyRow
    \/ EncodeColumn
    \/ \E n \in 0 .. SlotSize : WriteSlot(n)
    \/ DeleteRow
    \/ ReadRow
    \/ DecodeColumn
    \/ ReturnRow
    \/ Stopped

Spec == Init /\ [][Next]_vars

-----------------------------------------------------------------------------
(* Properties *)

TypeOK ==
    /\ phase \in Resting \cup {"encode", "decode", "badInsert", "badRead"}
    /\ DOMAIN slot = Offsets /\ DOMAIN buffer = Offsets
    /\ count \in 0 .. ByteRange - 1
    /\ col \in 1 .. count + 1
    /\ at \in 2 .. SlotSize
    /\ reached \in 0 .. SlotSize
    /\ phase \in {"decode", "read"} => Len(values) < col

\* The offset behind the first n columns of the row last inserted.
End(n) == Ends(written.columns)[n]
Kept   == IF written.count < Len(written.columns) THEN written.count ELSE Len(written.columns)

\* A row that is read, after a whole or a torn write over an older row, has
\* every column that reached the file, unchanged and in its place.
WrittenColumnsReadBack ==
    phase = "read" /\ reached >= 2 =>
        \A n \in 1 .. Kept :
            End(n) <= reached => n <= Len(values) /\ values[n] = written.columns[n]

\* A row with fewer values than numCols comes from a torn write or from a row
\* that fills its slot to the last byte.
ShortOnlyWhenFull ==
    phase = "read" /\ Len(values) < count => reached < SlotSize \/ at = SlotSize

\* Only a torn write makes a read pass the end of its buffer.
MisreadOnlyWhenTorn == phase = "badRead" => reached < SlotSize

\* An insert passes the end of its buffer only with a row that is too large for
\* a slot; a row that was read from a whole slot can always be inserted again.
StoredUnlessTooLarge ==
    phase = "badInsert" =>
        \/ written.from = "torn"
        \/ written.from = "client" /\ End(Kept) > SlotSize
=============================================================================
